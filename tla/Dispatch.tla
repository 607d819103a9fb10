-------------------------------- MODULE Dispatch --------------------------------
(***************************************************************************)
(* Dispatch of foreign agents: slots, credential lock, budget, background  *)
(* jobs and their pollers (dispatch/_slots.py, _credentials.py,            *)
(* _error_class.py, _runner.py, _jobs.py, _run_job.py).                    *)
(*                                                                         *)
(* A process runs dispatch() once: from a shell or a server (Sync), as a   *)
(* detached _run_job (Job), or from the shell of another dispatch's agent  *)
(* (Nested).  Timers count down to the deadlines the code computes; a      *)
(* process acts by its deadline, only a hung job does not.  The locks are  *)
(* flocks, which die with their owner.                                     *)
(*                                                                         *)
(* Left out: a slot directory that cannot be used (the code then runs      *)
(* uncounted), platforms without flock or process groups, a process        *)
(* identity that cannot be verified, the isolated lane, the sandbox probe, *)
(* servers of a dispatched child (refused at once), and the deletion of    *)
(* week-old artifacts; the reconciliation of a sweep is a poll.            *)
(***************************************************************************)
EXTENDS Integers, FiniteSets

CONSTANTS
    Sync, Job, Nested,   \* processes by how they were started
    Poller,              \* get_status calls and sweeps that can be in flight
    Setups,              \* configurations to start from: caps, parents, and the calls made in it
    Timeout,             \* timeout_s
    SlotWait,            \* dispatch_slot_wait_s
    CredentialWait,      \* min(timeout_s / 2, _MAX_WAIT_SECONDS)
    Prelaunch,           \* HELP_TIMEOUT_S
    KillWindow,          \* drain and reap after a timeout
    MinRetry,            \* RETRY_DELAY_SECONDS + _MIN_RETRY_SECONDS
    MaxCrashes,          \* bound: processes that die or hang
    None                 \* absence

Proc == Sync \cup Job \cup Nested

ASSUME DispatchAssumption ==
    /\ Sync \cap Job = {} /\ Sync \cap Nested = {} /\ Job \cap Nested = {}
    /\ None \notin Proc
    /\ {Timeout, SlotWait, CredentialWait, Prelaunch, KillWindow, MinRetry, MaxCrashes} \subseteq Nat
    /\ Timeout > 0 /\ 2 * CredentialWait <= Timeout /\ MinRetry > 0
    /\ IsFiniteSet(Proc)
    /\ Setups \subseteq [cap : [Proc -> Nat], parent : [Nested -> Sync \cup Job], calls : SUBSET Proc]

VARIABLES
    setup,      \* the configuration: caps, whose agent runs each nested call, calls made
    proc,       \* [Proc -> where its dispatch is]
    cred,       \* who holds the client's credential lock
    agents,     \* dispatches whose foreign agent lives
    server,     \* [Job -> where its start_background is]
    reqs,       \* jobs whose request file, the prompt, exists
    sidecars,   \* jobs whose child-pid sidecar exists
    rec,        \* [Job -> the status on its record]
    age,        \* [Job -> time since created_at, up to just past the TTL]
    result,     \* [Job -> the result file]
    poll,       \* [Poller -> its step]
    crashes     \* processes that died or hung

vars == <<setup, proc, cred, agents, server, reqs, sidecars, rec, age, result, poll, crashes>>
jobFiles == <<server, reqs, sidecars, rec, age, result, poll>>

-----------------------------------------------------------------------------
(* Limits *)

Least(a, b) == IF a < b THEN a ELSE b

\* Seeded fault of TTL: a watchdog that counts the run but no wait for a slot.
TTL_WithoutSlotWait == Prelaunch + Timeout

\* The watchdog: prelaunch_s + timeout_s * _STUCK_TTL_FACTOR.
TTL == Prelaunch + (3 * Timeout) \div 2

Cap(p) == setup.cap[p]

\* Seeded fault of Marked: the marker is not exported.
Marked_Never(p) == FALSE

\* The child of a slot holder sees TRW_DISPATCH_SLOT_HELD.
Marked(p) == p \in Nested /\ Cap(setup.parent[p]) > 0

\* How long a dispatch may wait for a slot.
Patience(p) ==
    IF Marked(p) THEN 0
    ELSE IF p \in Job THEN Least(SlotWait, Timeout \div 2)
    ELSE SlotWait

-----------------------------------------------------------------------------
(* The dispatches *)

Timed == {"slot", "cred", "probing", "running", "drain"}
Instant == {"answer", "returned", "wrote"}

\* Where a dispatch is: time left to its deadline and of its budget, whether it retried,
\* its answer, its slot (0 is none).
Standing == [stage : Timed \cup Instant \cup {"idle", "hung", "exited", "dead"},
             left : Nat, budget : (-Prelaunch)..Timeout, tried : BOOLEAN,
             out : {"none", "ok", "failed", "busy", "timed_out"}, slot : Nat]

Idle == [stage |-> "idle", left |-> 0, budget |-> 0, tried |-> FALSE, out |-> "none", slot |-> 0]
Dead == [Idle EXCEPT !.stage = "dead"]

Active(p) == proc[p].stage \notin {"idle", "exited", "dead"}
Over(p) == proc[p].stage \in {"exited", "dead"}

Queued(p) == [Idle EXCEPT !.stage = "slot", !.left = Patience(p)]

\* run_dispatch starts its budget; run_guarded takes the lock if the login could expire.
Begun(i, guarded) ==
    [stage |-> IF guarded THEN "cred" ELSE "probing",
     left |-> IF guarded THEN CredentialWait ELSE Prelaunch,
     budget |-> Timeout, tried |-> FALSE, out |-> "none", slot |-> i]

\* run_capped: cap 0 takes no slot.
Entered(p, guarded) == IF Cap(p) = 0 THEN Begun(0, guarded) ELSE Queued(p)

Free(i) == \A q \in Proc : proc[q].slot # i

\* Seeded fault of FreeSlots: off by one.
FreeSlots_OneMore(p) == {i \in 1..(Cap(p) + 1) : Free(i)}

\* Seeded fault of FreeSlots: a nested call runs in its parent's slot.
FreeSlots_Shared(p) ==
    {i \in 1..Cap(p) : \A q \in Proc : proc[q].slot = i => p \in Nested /\ setup.parent[p] = q}

FreeSlots(p) == {i \in 1..Cap(p) : Free(i)}

NestedIn(p) == {n \in Nested : setup.parent[n] = p /\ Active(n)}
Freed(S) == IF cred \in S THEN None ELSE cred

StartSync(p, guarded) ==
    /\ p \in Sync \cap setup.calls /\ proc[p] = Idle
    /\ proc' = [proc EXCEPT ![p] = Entered(p, guarded)]
    /\ UNCHANGED <<setup, cred, agents, crashes, jobFiles>>

\* A CLI the parent's agent runs in its shell.
StartNested(p, guarded) ==
    /\ p \in Nested \cap setup.calls /\ proc[p] = Idle /\ setup.parent[p] \in agents
    /\ proc' = [proc EXCEPT ![p] = Entered(p, guarded)]
    /\ UNCHANGED <<setup, cred, agents, crashes, jobFiles>>

\* _try_any: the first free slot.
TakeSlot(p, guarded) ==
    /\ proc[p].stage = "slot"
    /\ \E i \in FreeSlots(p) :
        /\ \A k \in FreeSlots(p) : i <= k
        /\ proc' = [proc EXCEPT ![p] = Begun(i, guarded)]
    /\ UNCHANGED <<setup, cred, agents, crashes, jobFiles>>

Answered(p, o) == [proc[p] EXCEPT !.stage = "answer", !.left = 0, !.out = o]

\* SlotUnavailableError: a nested call at its first attempt, another at its deadline.
RefuseSlot(p) ==
    /\ proc[p].stage = "slot" /\ FreeSlots(p) = {} /\ proc[p].left = 0
    /\ proc' = [proc EXCEPT ![p] = Answered(p, "failed")]
    /\ UNCHANGED <<setup, cred, agents, crashes, jobFiles>>

TakeCredential(p) ==
    /\ proc[p].stage = "cred" /\ cred = None
    /\ cred' = p
    /\ proc' = [proc EXCEPT ![p].stage = "probing", ![p].left = Prelaunch]
    /\ UNCHANGED <<setup, agents, crashes, jobFiles>>

RefuseCredential(p) ==
    /\ proc[p].stage = "cred" /\ cred # None /\ proc[p].left = 0
    /\ proc' = [proc EXCEPT ![p] = Answered(p, "failed")]
    /\ UNCHANGED <<setup, cred, agents, crashes, jobFiles>>

\* The time the attempt was given when it began: what was left of the budget before the probe.
AttemptTime(p) ==
    LET given == proc[p].budget + (Prelaunch - proc[p].left)
    IN  IF given < 1 THEN 1 ELSE given

\* Popen, and the sidecar of a job.
Launch(p) ==
    /\ proc[p].stage = "probing"
    /\ proc' = [proc EXCEPT ![p].stage = "running", ![p].left = AttemptTime(p)]
    /\ agents' = agents \cup {p}
    /\ sidecars' = sidecars \cup ({p} \cap Job)
    /\ UNCHANGED <<setup, cred, server, reqs, rec, age, result, poll, crashes>>

\* A refused request, an unsupported client, a binary that cannot be run.
LaunchFails(p) ==
    /\ proc[p].stage = "probing"
    /\ proc' = [proc EXCEPT ![p] = Answered(p, "failed")]
    /\ UNCHANGED <<setup, cred, agents, crashes, jobFiles>>

\* _release_once_fresh: a login that was refreshed frees the others.
Refreshed(p) ==
    /\ cred = p /\ proc[p].stage \in {"probing", "running", "drain"}
    /\ cred' = None
    /\ UNCHANGED <<setup, proc, agents, crashes, jobFiles>>

AgentEnds(p, o) ==
    /\ proc[p].stage = "running"
    /\ proc' = [proc EXCEPT ![p] = Answered(p, o)]
    /\ agents' = agents \ {p}
    /\ UNCHANGED <<setup, cred, crashes, jobFiles>>

\* communicate() expires: the agent's group is killed, the calls its shell ran with it.
TimeOut(p) ==
    /\ proc[p].stage = "running" /\ proc[p].left = 0
    /\ proc' = [q \in Proc |-> IF q \in NestedIn(p) THEN Dead
                               ELSE IF q = p THEN [proc[p] EXCEPT !.stage = "drain", !.left = KillWindow]
                               ELSE proc[q]]
    /\ cred' = Freed(NestedIn(p))
    /\ agents' = agents \ {p}
    /\ UNCHANGED <<setup, crashes, jobFiles>>

Drained(p) ==
    /\ proc[p].stage = "drain"
    /\ proc' = [proc EXCEPT ![p] = Answered(p, "timed_out")]
    /\ UNCHANGED <<setup, cred, agents, crashes, jobFiles>>

\* with_one_retry.
Retries(p) == proc[p].out = "busy" /\ ~proc[p].tried /\ proc[p].budget >= MinRetry

Retry(p) ==
    /\ proc[p].stage = "answer" /\ Retries(p)
    /\ proc' = [proc EXCEPT ![p].stage = "probing", ![p].left = Prelaunch, ![p].tried = TRUE,
                            ![p].out = "none"]
    /\ UNCHANGED <<setup, cred, agents, crashes, jobFiles>>

\* The answer leaves run_guarded and dispatch_slot; a job still has to write it.
Return(p) ==
    /\ proc[p].stage = "answer" /\ ~Retries(p)
    /\ proc' = [proc EXCEPT ![p] = [Idle EXCEPT !.stage = IF p \in Job THEN "returned" ELSE "exited",
                                                !.out = IF p \in Job THEN proc[p].out ELSE "none"]]
    /\ cred' = Freed({p})
    /\ UNCHANGED <<setup, agents, crashes, jobFiles>>

Verdict(out) == IF out \in {"ok", "timed_out"} THEN out ELSE "failed"

WriteResult(p) ==
    /\ proc[p].stage = "returned"
    /\ result' = [result EXCEPT ![p] = Verdict(proc[p].out)]
    /\ proc' = [proc EXCEPT ![p] = [Idle EXCEPT !.stage = "wrote"]]
    /\ UNCHANGED <<setup, cred, agents, server, reqs, sidecars, rec, age, poll, crashes>>

Exit(p) ==
    /\ proc[p].stage = "wrote"
    /\ reqs' = reqs \ {p}
    /\ proc' = [proc EXCEPT ![p] = [Idle EXCEPT !.stage = "exited"]]
    /\ UNCHANGED <<setup, cred, agents, server, sidecars, rec, age, result, poll, crashes>>

\* The process dies, its agent lives on.
Crash(p) ==
    /\ Active(p) /\ crashes < MaxCrashes
    /\ proc' = [proc EXCEPT ![p] = Dead]
    /\ cred' = Freed({p})
    /\ crashes' = crashes + 1
    /\ UNCHANGED <<setup, agents, jobFiles>>

\* A job that does nothing any more but lives, with the locks it holds.
Hang(p) ==
    /\ p \in Job /\ Active(p) /\ proc[p].stage # "hung" /\ crashes < MaxCrashes
    /\ proc' = [proc EXCEPT ![p] = [Idle EXCEPT !.stage = "hung", !.slot = proc[p].slot]]
    /\ crashes' = crashes + 1
    /\ UNCHANGED <<setup, cred, agents, jobFiles>>

-----------------------------------------------------------------------------
(* start_background *)

WriteRequest(j) ==
    /\ j \in setup.calls /\ server[j] = "none"
    /\ server' = [server EXCEPT ![j] = "written"]
    /\ reqs' = reqs \cup {j}
    /\ UNCHANGED <<setup, proc, cred, agents, sidecars, rec, age, result, poll, crashes>>

Spawn(j, guarded) ==
    /\ server[j] = "written"
    /\ server' = [server EXCEPT ![j] = "spawned"]
    /\ proc' = [proc EXCEPT ![j] = Entered(j, guarded)]
    /\ UNCHANGED <<setup, cred, agents, reqs, sidecars, rec, age, result, poll, crashes>>

SpawnFails(j) ==
    /\ server[j] = "written"
    /\ server' = [server EXCEPT ![j] = "done"]
    /\ reqs' = reqs \ {j}
    /\ UNCHANGED <<setup, proc, cred, agents, sidecars, rec, age, result, poll, crashes>>

PersistRunning(j) ==
    /\ server[j] = "spawned"
    /\ server' = [server EXCEPT ![j] = "done"]
    /\ rec' = [rec EXCEPT ![j] = "running"]
    /\ UNCHANGED <<setup, proc, cred, agents, reqs, sidecars, age, result, poll, crashes>>

ServerDies(j) ==
    /\ server[j] \in {"written", "spawned"} /\ crashes < MaxCrashes
    /\ server' = [server EXCEPT ![j] = "done"]
    /\ crashes' = crashes + 1
    /\ UNCHANGED <<setup, proc, cred, agents, reqs, sidecars, rec, age, result, poll>>

-----------------------------------------------------------------------------
(* _reconcile_job, for get_status and for the sweep of start_background *)

Polling == [at : {"away", "read", "probe", "kill", "persist", "cleanup"},
            job : Job \cup {None}, verdict : {"none", "ok", "timed_out", "failed"}]
Away == [at |-> "away", job |-> None, verdict |-> "none"]
Terminal == {"ok", "timed_out", "failed"}

Step(q, at) == [poll[q] EXCEPT !.at = at]
Decided(q, verdict, at) == [poll[q] EXCEPT !.at = at, !.verdict = verdict]

\* Seeded fault of AfterLoad: a terminal job is left as it is.
AfterLoad_Unclean(status) == IF status \in Terminal THEN "away" ELSE "read"

\* Where a poll goes from the record it loaded: a terminal job is cleaned again.
AfterLoad(status) == IF status \in Terminal THEN "cleanup" ELSE "read"

LoadRecord(q, j) ==
    /\ poll[q].at = "away" /\ rec[j] # "none"
    /\ poll' = [poll EXCEPT ![q] = [at |-> AfterLoad(rec[j]), job |-> j, verdict |-> "none"]]
    /\ UNCHANGED <<setup, proc, cred, agents, server, reqs, sidecars, rec, age, result, crashes>>

ReadResult(q) ==
    /\ poll[q].at = "read"
    /\ LET r == result[poll[q].job]
       IN  poll' = [poll EXCEPT ![q] = IF r = "none" THEN Step(q, "probe") ELSE Decided(q, r, "persist")]
    /\ UNCHANGED <<setup, proc, cred, agents, server, reqs, sidecars, rec, age, result, crashes>>

\* The pid is gone, or the job is past its watchdog, or it is still running.
Probe(q) ==
    /\ poll[q].at = "probe"
    /\ LET j == poll[q].job
       IN  poll' = [poll EXCEPT ![q] = IF Over(j) THEN Decided(q, "failed", "persist")
                                       ELSE IF age[j] > TTL THEN Decided(q, "failed", "kill")
                                       ELSE Away]
    /\ UNCHANGED <<setup, proc, cred, agents, server, reqs, sidecars, rec, age, result, crashes>>

\* _kill_job_tree: the job's group, and the agent's through the sidecar.
Kill(q) ==
    /\ poll[q].at = "kill"
    /\ LET j == poll[q].job
           reached == IF j \in sidecars THEN {j} ELSE {}
           killed == (IF Over(j) THEN {} ELSE {j}) \cup UNION {NestedIn(p) : p \in reached \cap agents}
       IN  /\ proc' = [p \in Proc |-> IF p \in killed THEN Dead ELSE proc[p]]
           /\ cred' = Freed(killed)
           /\ agents' = agents \ reached
    /\ poll' = [poll EXCEPT ![q] = Step(q, "persist")]
    /\ UNCHANGED <<setup, server, reqs, sidecars, rec, age, result, crashes>>

Persist(q) ==
    /\ poll[q].at = "persist"
    /\ rec' = [rec EXCEPT ![poll[q].job] = poll[q].verdict]
    /\ poll' = [poll EXCEPT ![q] = Step(q, "cleanup")]
    /\ UNCHANGED <<setup, proc, cred, agents, server, reqs, sidecars, age, result, crashes>>

\* _cleanup_on_terminal.
Cleanup(q) ==
    /\ poll[q].at = "cleanup"
    /\ reqs' = reqs \ {poll[q].job}
    /\ sidecars' = sidecars \ {poll[q].job}
    /\ poll' = [poll EXCEPT ![q] = Away]
    /\ UNCHANGED <<setup, proc, cred, agents, server, rec, age, result, crashes>>

PollerDies(q) ==
    /\ poll[q].at # "away" /\ crashes < MaxCrashes
    /\ poll' = [poll EXCEPT ![q] = Away]
    /\ crashes' = crashes + 1
    /\ UNCHANGED <<setup, proc, cred, agents, server, reqs, sidecars, rec, age, result>>

-----------------------------------------------------------------------------
(* Time *)

\* Nobody sleeps through a deadline, and work that takes no time is done first.
Prompt == \A p \in Proc : /\ proc[p].stage \notin Instant
                          /\ proc[p].stage \in Timed => proc[p].left > 0

Older(pr) ==
    IF pr.stage \notin Timed THEN pr
    ELSE [pr EXCEPT !.left = pr.left - 1,
                    !.budget = IF pr.stage = "slot" THEN 0 ELSE IF pr.budget = -Prelaunch THEN pr.budget
                               ELSE pr.budget - 1]

Tick ==
    /\ Prompt
    /\ \/ \E p \in Proc : proc[p].stage \in Timed
       \/ \E j \in Job : rec[j] = "running" /\ age[j] <= TTL
    /\ proc' = [p \in Proc |-> Older(proc[p])]
    /\ age' = [j \in Job |-> IF rec[j] = "running" /\ age[j] <= TTL THEN age[j] + 1 ELSE age[j]]
    /\ UNCHANGED <<setup, cred, agents, server, reqs, sidecars, rec, result, poll, crashes>>

-----------------------------------------------------------------------------
Init ==
    /\ setup \in Setups
    /\ proc = [p \in Proc |-> Idle]
    /\ cred = None
    /\ agents = {} /\ reqs = {} /\ sidecars = {}
    /\ server = [j \in Job |-> "none"]
    /\ rec = [j \in Job |-> "none"]
    /\ age = [j \in Job |-> 0]
    /\ result = [j \in Job |-> "none"]
    /\ poll = [q \in Poller |-> Away]
    /\ crashes = 0

\* What a started dispatch does next.
Proceed(p) ==
    \/ \E guarded \in BOOLEAN : TakeSlot(p, guarded)
    \/ RefuseSlot(p) \/ TakeCredential(p) \/ RefuseCredential(p)
    \/ Launch(p) \/ LaunchFails(p) \/ TimeOut(p) \/ Drained(p)
    \/ \E o \in {"ok", "failed", "busy"} : AgentEnds(p, o)
    \/ Retry(p) \/ Return(p) \/ WriteResult(p) \/ Exit(p)

Serve(j) == (\E guarded \in BOOLEAN : Spawn(j, guarded)) \/ SpawnFails(j) \/ PersistRunning(j)

Reconcile(q) ==
    \/ \E j \in Job : LoadRecord(q, j)
    \/ ReadResult(q) \/ Probe(q) \/ Kill(q) \/ Persist(q) \/ Cleanup(q)

Next ==
    \/ \E p \in Proc, guarded \in BOOLEAN : StartSync(p, guarded) \/ StartNested(p, guarded)
    \/ \E p \in Proc : Proceed(p) \/ Refreshed(p) \/ Crash(p) \/ Hang(p)
    \/ \E j \in Job : WriteRequest(j) \/ Serve(j) \/ ServerDies(j)
    \/ \E q \in Poller : Reconcile(q) \/ PollerDies(q)
    \/ Tick

Spec == Init /\ [][Next]_vars

\* Time passes, whoever was started goes on, and the jobs are polled.
Fairness ==
    /\ WF_vars(Tick)
    /\ \A p \in Proc : WF_vars(Proceed(p))
    /\ \A j \in Job : WF_vars(Serve(j))
    /\ \A q \in Poller : WF_vars(Reconcile(q))

LiveSpec == Spec /\ Fairness

-----------------------------------------------------------------------------
(* Properties *)

\* Every variable has its shape, a timer never passes its deadline, and a
\* dispatch holds a slot only within its own cap (_try_any's range(cap)).
DispatchTypeOK ==
    /\ setup \in Setups
    /\ proc \in [Proc -> Standing]
    /\ \A p \in Proc : proc[p].slot \in 0..Cap(p)
    /\ cred \in Proc \cup {None}
    /\ agents \subseteq Proc /\ reqs \subseteq Job /\ sidecars \subseteq Job
    /\ server \in [Job -> {"none", "written", "spawned", "done"}]
    /\ rec \in [Job -> {"none", "running"} \cup Terminal]
    /\ age \in [Job -> 0..(TTL + 1)]
    /\ result \in [Job -> {"none"} \cup Terminal]
    /\ poll \in [Poller -> Polling]
    /\ crashes \in 0..MaxCrashes

\* Agents whose counted dispatch still lives to watch them.
Counted == {p \in agents : Cap(p) > 0 /\ ~Over(p)}

\* The concurrency cap: the counted agents never outnumber the largest cap any of
\* their dispatches runs under, retries, timeouts and nested calls included
\* (_slots.py: "the bound stays strict").
CapHolds == Counted # {} => \E p \in Counted : Cardinality(Counted) <= Cap(p)

\* No deadlock over slots and logins: who waits for a slot holds no credential
\* lock (the lock order), and no dispatch that waits for it holds a slot (a nested
\* call of a slot holder makes one attempt).
NoHoldAndWait ==
    \A p \in Proc : proc[p].stage = "slot" /\ proc[p].left > 0 =>
        /\ cred # p
        /\ p \in Nested => proc[setup.parent[p]].slot = 0

\* A job's record tells what became of it: a success or a timeout is what the
\* result file says, a job failed without a result is dead, and the watchdog never
\* takes a job that still waits, launches or has an agent at work, however long it
\* waited for its slot and its login (_reconcile_job, _stuck_past_ttl).
JobVerdicts ==
    /\ \A j \in Job :
        /\ rec[j] \in {"ok", "timed_out"} => result[j] = rec[j]
        /\ rec[j] = "failed" => result[j] # "none" \/ proc[j].stage = "dead"
    /\ \A q \in Poller :
        poll[q].at = "kill" => proc[poll[q].job].stage \notin {"slot", "cred", "probing", "running"}

\* Every recorded job ends in a terminal status with its prompt off the disk, even
\* if its process dies or hangs and a poll dies between the verdict and the cleanup.
JobsSettle ==
    \A j \in Job : rec[j] = "running" ~> rec[j] \in Terminal /\ j \notin reqs

================================================================================
