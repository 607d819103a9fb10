--------------------------------- MODULE Pickup ---------------------------------
(***************************************************************************)
(* Announcement, admission and pick-up of candidates: how a run becomes a  *)
(* member of a formation (formation/_candidates.py, _admission.py,         *)
(* _join.py, comms/_pickup.py).  The candidate registry, the manifests,    *)
(* the run stamps and the mailbox are four stores that share no            *)
(* transaction; one action is what happens under one lock, and a process   *)
(* may die between any two.                                                *)
(*                                                                         *)
(* A caller is one pinned run, a formation has one slot, declared strict   *)
(* (not open_join).  Left out: the worktree records an admission also      *)
(* writes and their compensation, creation (a first revision), a rebind    *)
(* to another pin of the same run, and the cap of the registry.            *)
(***************************************************************************)
EXTENDS Naturals

CONSTANTS
    Caller,           \* pinned runs
    Formation,        \* formations registered at the coordination root
    Call,             \* trw_inbox calls that can be in flight
    CallerOf,         \* [Call -> Caller]
    NoCaller, NoFormation, NoHandle,   \* absence
    Ttl,              \* comms_candidate_ttl_seconds
    MaxTime,          \* bound: the clock; announcements stop when they could not expire
    MaxHandles,       \* bound: announcements of a caller that draw a new handle
    MaxRevisions,     \* bound: revisions the orchestrators start
    MaxCrashes        \* bound: processes that die

ASSUME PickupAssumption ==
    /\ NoCaller \notin Caller
    /\ NoFormation \notin Formation
    /\ NoHandle \notin Caller \X (1..MaxHandles)
    /\ CallerOf \in [Call -> Caller]
    /\ {Ttl, MaxTime, MaxHandles, MaxRevisions, MaxCrashes} \subseteq Nat

VARIABLES
    now,              \* the clock
    reg,              \* [Caller -> its record in the registry]
    drawn,            \* [Caller -> handles drawn so far]
    slot,             \* [Formation -> the slot of its manifest, as on disk]
    plan,             \* [Formation -> the revision its orchestrator is committing]
    stamp,            \* [Caller -> the formation keys of its run.yaml]
    endpoint,         \* [Caller -> formations whose mailbox enrolled it]
    call,             \* [Call -> its step and the record it read]
    revisions,        \* revisions started
    crashes,          \* processes that died
    granted,          \* history: [Formation -> the caller the last revision of the pending slot named]
    seated            \* history: [Formation -> callers that joined its slot]

vars == <<now, reg, drawn, slot, plan, stamp, endpoint, call, revisions, crashes, granted, seated>>

-----------------------------------------------------------------------------
(* Records *)

LiveStates == {"active", "admitted", "joining"}
CandidateState == LiveStates \cup {"withdrawn", "revoked", "picked_up"}
Handle == Caller \X (1..MaxHandles)

\* A registry record; n = 0 is no record.
Candidate == [n : 0..MaxHandles, state : CandidateState, by : Formation \cup {NoFormation},
              expires : 0..MaxTime]
NoCandidate == [n |-> 0, state |-> "withdrawn", by |-> NoFormation, expires |-> 0]

Slot == [cand : Handle \cup {NoHandle}, run : Caller \cup {NoCaller},
         status : {"pending", "joined", "retired"}]
Empty == [cand |-> NoHandle, run |-> NoCaller, status |-> "pending"]

Stamp == [live : Formation \cup {NoFormation}, revoked : BOOLEAN]

Idle == [at |-> "idle", mine |-> NoCandidate]
Still == [at |-> "idle", new |-> Empty]

\* Candidate.live: not final and not past its deadline.
Live(r) == r.n > 0 /\ r.state \in LiveStates /\ r.expires > now

\* _TRANSITIONS: the moves set_state allows besides a retry that changes nothing.
Moves == [active    |-> {"admitted", "withdrawn", "revoked"},
          admitted  |-> {"active", "joining", "withdrawn", "revoked"},
          joining   |-> {"picked_up", "withdrawn", "revoked"},
          withdrawn |-> {}, revoked |-> {}, picked_up |-> {}]

Legal(r, state) == r.state = state \/ state \in Moves[r.state]

-----------------------------------------------------------------------------
(* The caller and the clock *)

Tick ==
    /\ now < MaxTime
    /\ now' = now + 1
    /\ UNCHANGED <<reg, drawn, slot, plan, stamp, endpoint, call, revisions, crashes, granted, seated>>

\* Seeded fault of Fresh: the deadline is one tick late.
Fresh_Late(c) == [n |-> drawn[c] + 1, state |-> "active", by |-> NoFormation, expires |-> now + Ttl + 1]

\* A new record: a handle never used before, and nothing of an earlier record.
Fresh(c) == [n |-> drawn[c] + 1, state |-> "active", by |-> NoFormation, expires |-> now + Ttl]

\* What is left once every record that is not live, whoever's it is, has been dropped.
Kept == [d \in Caller |-> IF Live(reg[d]) THEN reg[d] ELSE NoCandidate]

\* announce refreshes the caller's live record or draws a new handle.
Announce(c) ==
    /\ now + Ttl <= MaxTime
    /\ \/ /\ Live(reg[c])
          /\ reg' = [Kept EXCEPT ![c].expires = now + Ttl]
          /\ UNCHANGED drawn
       \/ /\ ~Live(reg[c])
          /\ drawn[c] < MaxHandles
          /\ reg' = [Kept EXCEPT ![c] = Fresh(c)]
          /\ drawn' = [drawn EXCEPT ![c] = @ + 1]
    /\ UNCHANGED <<now, slot, plan, stamp, endpoint, call, revisions, crashes, granted, seated>>

\* _withdraw
Withdraw(c) ==
    /\ reg[c].n > 0 /\ reg[c].state \in LiveStates
    /\ reg' = [reg EXCEPT ![c].state = "withdrawn"]
    /\ UNCHANGED <<now, drawn, slot, plan, stamp, endpoint, call, revisions, crashes, granted, seated>>

-----------------------------------------------------------------------------
(* The orchestrator of a formation: revise, under the manifest lock *)

Locked(f) == plan[f].at # "idle"

\* What a revision may make of the slot: name a candidate, take the name back, retire the
\* member, or clear the slot.
Revisions(f) ==
    {[slot[f] EXCEPT !.cand = h] : h \in Handle \cup {NoHandle}}
    \cup {[slot[f] EXCEPT !.status = "retired"], Empty}

\* admitted_members: a new name needs a pending slot and a live candidate that is active, or
\* that an earlier attempt of this formation left admitted (read without the registry lock).
Admissible(f, h) ==
    LET r == reg[h[1]] IN
    /\ slot[f].run = NoCaller
    /\ r.n = h[2] /\ Live(r)
    /\ r.state = "active" \/ (r.state = "admitted" /\ r.by = f)

Admits(f, new) == new.cand \notin {NoHandle, slot[f].cand}
Releases(f, new) == slot[f].cand \notin {NoHandle, new.cand} /\ slot[f].run = NoCaller

Revise(f, new) ==
    /\ ~Locked(f)
    /\ revisions < MaxRevisions
    /\ new # slot[f]
    /\ Admits(f, new) => Admissible(f, new.cand)
    /\ plan' = [plan EXCEPT ![f] = [at |-> "planned", new |-> new]]
    /\ revisions' = revisions + 1
    /\ UNCHANGED <<now, reg, drawn, slot, stamp, endpoint, call, crashes, granted, seated>>

\* Seeded fault of MayAdmit: a retry is recognised by the state alone.
MayAdmit_AnyFormation(f, r) == r.state \in {"active", "admitted"}

\* The admitting transition: from active, or a retry that changes nothing.
MayAdmit(f, r) == r.state = "active" \/ (r.state = "admitted" /\ r.by = f)

\* The ownership check of a release: an admitted candidate is freed by its admitter only.
MayRelease(f, h) ==
    LET r == reg[h[1]] IN r.n = h[2] /\ r.state = "admitted" => r.by = f

\* set_states: every transition of the batch under one hold of the registry lock, or none.
Transitions(f, new) ==
    /\ Admits(f, new) => reg[new.cand[1]].n = new.cand[2] /\ MayAdmit(f, reg[new.cand[1]])
    /\ Releases(f, new) => MayRelease(f, slot[f].cand)

CommitAdmissions(f) ==
    LET new == plan[f].new
        freed(c) == Releases(f, new) /\ slot[f].cand = <<c, reg[c].n>> /\ reg[c].state = "admitted"
        taken(c) == Admits(f, new) /\ new.cand[1] = c
    IN  /\ plan[f].at = "planned"
        /\ Transitions(f, new)
        /\ reg' = [c \in Caller |->
               IF taken(c) THEN [reg[c] EXCEPT !.state = "admitted", !.by = f]
               ELSE IF freed(c) THEN [reg[c] EXCEPT !.state = "active", !.by = NoFormation]
               ELSE reg[c]]
        /\ plan' = [plan EXCEPT ![f].at = "committed"]
        /\ UNCHANGED <<now, drawn, slot, stamp, endpoint, call, revisions, crashes, granted, seated>>

\* The batch is refused: the revision raises before it wrote anything.
RefuseRevision(f) ==
    /\ plan[f].at = "planned"
    /\ ~Transitions(f, plan[f].new)
    /\ plan' = [plan EXCEPT ![f] = Still]
    /\ UNCHANGED <<now, reg, drawn, slot, stamp, endpoint, call, revisions, crashes, granted, seated>>

WriteManifest(f) ==
    /\ plan[f].at = "committed"
    /\ slot' = [slot EXCEPT ![f] = plan[f].new]
    /\ plan' = [plan EXCEPT ![f] = Still]
    /\ granted' = [granted EXCEPT ![f] =
           IF plan[f].new.run # NoCaller THEN @
           ELSE IF plan[f].new.cand = NoHandle THEN NoCaller ELSE plan[f].new.cand[1]]
    /\ UNCHANGED <<now, reg, drawn, stamp, endpoint, call, revisions, crashes, seated>>

OrchestratorDies(f) ==
    /\ Locked(f)
    /\ crashes < MaxCrashes
    /\ crashes' = crashes + 1
    /\ plan' = [plan EXCEPT ![f] = Still]
    /\ UNCHANGED <<now, reg, drawn, slot, stamp, endpoint, call, revisions, granted, seated>>

-----------------------------------------------------------------------------
(* Pick-up: the stages of advance and complete *)

\* _admitted_slot: does the manifest the record names still name the record?
Names(mine, c) == mine.by # NoFormation /\ slot[mine.by].cand = <<c, mine.n>>

Goes(k, step) == call' = [call EXCEPT ![k].at = step]
Ends(k) == call' = [call EXCEPT ![k] = Idle]

\* candidate_for: an unlocked read; a caller with no live state has nothing to pick up.
ReadCandidate(k) ==
    LET c == CallerOf[k] IN
    /\ call[k].at = "idle"
    /\ reg[c].n > 0 /\ reg[c].state \in LiveStates
    /\ call' = [call EXCEPT ![k] = [at |-> "read", mine |-> reg[c]]]
    /\ UNCHANGED <<now, reg, drawn, slot, plan, stamp, endpoint, revisions, crashes, granted, seated>>

\* Seeded fault of NextStage: a vanished admission only ever means "not admitted yet".
NextStage_NeverRevokes(mine, c) ==
    IF ~Names(mine, c) THEN "idle" ELSE IF Live(mine) THEN "admitted" ELSE "revoking"

\* What advance makes of the record and the manifest it read.
NextStage(mine, c) ==
    IF ~Names(mine, c) THEN (IF mine.state = "joining" THEN "revoking" ELSE "idle")
    ELSE IF Live(mine) THEN "admitted" ELSE "revoking"

FindSlot(k) ==
    LET c == CallerOf[k]
        next == NextStage(call[k].mine, c) IN
    /\ call[k].at = "read"
    /\ IF next = "idle" THEN Ends(k) ELSE Goes(k, next)
    /\ UNCHANGED <<now, reg, drawn, slot, plan, stamp, endpoint, revisions, crashes, granted, seated>>

\* set_state under the registry lock.  An unknown handle is passed over; a move that is not
\* legal any more is taken for a transient failure and the call ends.
SetJoining(k) ==
    LET c == CallerOf[k]
        mine == call[k].mine IN
    /\ call[k].at = "admitted"
    /\ \/ /\ reg[c].n # mine.n
          /\ Goes(k, "joining")
          /\ UNCHANGED reg
       \/ /\ reg[c].n = mine.n /\ Legal(reg[c], "joining")
          /\ reg' = [reg EXCEPT ![c].state = "joining"]
          /\ Goes(k, "joining")
       \/ /\ reg[c].n = mine.n /\ ~Legal(reg[c], "joining")
          /\ Ends(k)
          /\ UNCHANGED reg
    /\ UNCHANGED <<now, drawn, slot, plan, stamp, endpoint, revisions, crashes, granted, seated>>

\* Seeded fault of JoinAdmitted: the gate asks for a live candidate, not for this slot's.
JoinAdmitted_AnySlot(f, mine, c) == reg[c].n = mine.n /\ Live(reg[c])

\* require_join_admitted: the slot names this candidate, it is live, and pin and run are its.
JoinAdmitted(f, mine, c) == slot[f].cand = <<c, mine.n>> /\ reg[c].n = mine.n /\ Live(reg[c])

\* join on a pending slot, under the manifest lock; the run is stamped after the lock.
Join(k) ==
    LET c == CallerOf[k]
        f == call[k].mine.by IN
    /\ call[k].at = "joining"
    /\ ~Locked(f)
    /\ slot[f].run = NoCaller
    /\ \/ /\ JoinAdmitted(f, call[k].mine, c)
          /\ slot' = [slot EXCEPT ![f] = [@ EXCEPT !.run = c, !.status = "joined"]]
          /\ seated' = [seated EXCEPT ![f] = @ \cup {c}]
          /\ Goes(k, "joined")
       \/ /\ ~JoinAdmitted(f, call[k].mine, c)
          /\ Goes(k, "revoking")
          /\ UNCHANGED <<slot, seated>>
    /\ UNCHANGED <<now, reg, drawn, plan, stamp, endpoint, revisions, crashes, granted>>

\* The repeated join of the same run: a stamp that a crash left missing is restored, one that
\* was revoked is not.
JoinAgain(k) ==
    LET c == CallerOf[k]
        f == call[k].mine.by
        missing == stamp[c].live = NoFormation /\ ~stamp[c].revoked IN
    /\ call[k].at = "joining"
    /\ ~Locked(f)
    /\ slot[f].run = c /\ slot[f].status = "joined"
    /\ stamp' = [stamp EXCEPT ![c].live = IF missing THEN f ELSE @]
    /\ Goes(k, "stamped")
    /\ UNCHANGED <<now, reg, drawn, slot, plan, endpoint, revisions, crashes, granted, seated>>

\* The manifest lock times out, the member is retired, or another run has the slot: only a
\* slot that still names the candidate and has another run is a revocation (_retry_or_revoke);
\* else nothing is revoked, the candidate stays joining and the next call resumes.
JoinFails(k) ==
    LET c == CallerOf[k]
        f == call[k].mine.by
        another == slot[f].run \notin {NoCaller, c} IN
    /\ call[k].at = "joining"
    /\ \/ Locked(f)
       \/ slot[f].run = c /\ slot[f].status = "retired"
       \/ another
    /\ IF another /\ Names(call[k].mine, c) THEN Goes(k, "revoking") ELSE Ends(k)
    /\ UNCHANGED <<now, reg, drawn, slot, plan, stamp, endpoint, revisions, crashes, granted, seated>>

\* _stamp_run_record, after the manifest lock was released.
StampRun(k) ==
    /\ call[k].at = "joined"
    /\ stamp' = [stamp EXCEPT ![CallerOf[k]].live = call[k].mine.by]
    /\ Goes(k, "stamped")
    /\ UNCHANGED <<now, reg, drawn, slot, plan, endpoint, revisions, crashes, granted, seated>>

\* The re-validation against the manifest as it is now.
Revalidate(k) ==
    /\ call[k].at = "stamped"
    /\ Goes(k, IF Names(call[k].mine, CallerOf[k]) THEN "ready" ELSE "revoking")
    /\ UNCHANGED <<now, reg, drawn, slot, plan, stamp, endpoint, revisions, crashes, granted, seated>>

\* The run's stamp resolves to a slot that holds the run and is not retired.
Bound(c, f) == stamp[c].live = f /\ slot[f].run = c /\ slot[f].status = "joined"

\* Stage 3: the enrollment transaction of the bound member, or a refused binding.
EnrollReady(k) ==
    LET c == CallerOf[k] IN
    /\ call[k].at = "ready"
    /\ \/ \E f \in Formation :
             /\ Bound(c, f)
             /\ endpoint' = [endpoint EXCEPT ![c] = @ \cup {f}]
             /\ Goes(k, "enrolled")
       \/ /\ \A f \in Formation : ~Bound(c, f)
          /\ Ends(k)
          /\ UNCHANGED endpoint
    /\ UNCHANGED <<now, reg, drawn, slot, plan, stamp, revisions, crashes, granted, seated>>

\* complete: the candidate is spent; a move that is refused is only logged.
Complete(k) ==
    LET c == CallerOf[k] IN
    /\ call[k].at = "enrolled"
    /\ reg' = IF reg[c].n = call[k].mine.n /\ Legal(reg[c], "picked_up")
              THEN [reg EXCEPT ![c].state = "picked_up"] ELSE reg
    /\ Ends(k)
    /\ UNCHANGED <<now, drawn, slot, plan, stamp, endpoint, revisions, crashes, granted, seated>>

\* _revoke: first the run's stamp, then the candidate.
RevokeStamp(k) ==
    LET c == CallerOf[k] IN
    /\ call[k].at = "revoking"
    /\ stamp' = IF stamp[c].live = NoFormation THEN stamp
                ELSE [stamp EXCEPT ![c] = [live |-> NoFormation, revoked |-> TRUE]]
    /\ Goes(k, "unstamped")
    /\ UNCHANGED <<now, reg, drawn, slot, plan, endpoint, revisions, crashes, granted, seated>>

RevokeCandidate(k) ==
    LET c == CallerOf[k] IN
    /\ call[k].at = "unstamped"
    /\ reg' = IF reg[c].n = call[k].mine.n /\ Legal(reg[c], "revoked")
              THEN [reg EXCEPT ![c].state = "revoked"] ELSE reg
    /\ Ends(k)
    /\ UNCHANGED <<now, drawn, slot, plan, stamp, endpoint, revisions, crashes, granted, seated>>

\* Any other call of a run without a pick-up in progress enrolls the member it is bound to.
EnrollMember(c) ==
    /\ reg[c].state \in LiveStates => NextStage(reg[c], c) = "idle"
    /\ \E f \in Formation \ endpoint[c] :
           /\ Bound(c, f)
           /\ endpoint' = [endpoint EXCEPT ![c] = @ \cup {f}]
    /\ UNCHANGED <<now, reg, drawn, slot, plan, stamp, call, revisions, crashes, granted, seated>>

\* The caller's server dies with every call in flight.
ServerDies(c) ==
    /\ \E k \in Call : CallerOf[k] = c /\ call[k].at # "idle"
    /\ crashes < MaxCrashes
    /\ crashes' = crashes + 1
    /\ call' = [k \in Call |-> IF CallerOf[k] = c THEN Idle ELSE call[k]]
    /\ UNCHANGED <<now, reg, drawn, slot, plan, stamp, endpoint, revisions, granted, seated>>

-----------------------------------------------------------------------------
(* The specification *)

Init ==
    /\ now = 0
    /\ reg = [c \in Caller |-> NoCandidate]
    /\ drawn = [c \in Caller |-> 0]
    /\ slot = [f \in Formation |-> Empty]
    /\ plan = [f \in Formation |-> Still]
    /\ stamp = [c \in Caller |-> [live |-> NoFormation, revoked |-> FALSE]]
    /\ endpoint = [c \in Caller |-> {}]
    /\ call = [k \in Call |-> Idle]
    /\ revisions = 0
    /\ crashes = 0
    /\ granted = [f \in Formation |-> NoCaller]
    /\ seated = [f \in Formation |-> {}]

Orchestrate(f) == CommitAdmissions(f) \/ RefuseRevision(f) \/ WriteManifest(f)

Advance(k) ==
    \/ FindSlot(k) \/ SetJoining(k) \/ Join(k) \/ JoinAgain(k) \/ JoinFails(k) \/ StampRun(k)
    \/ Revalidate(k) \/ EnrollReady(k) \/ Complete(k) \/ RevokeStamp(k) \/ RevokeCandidate(k)

Next ==
    \/ Tick
    \/ \E c \in Caller : Announce(c) \/ Withdraw(c) \/ EnrollMember(c) \/ ServerDies(c)
    \/ \E f \in Formation : \/ \E new \in Revisions(f) : Revise(f, new)
                            \/ Orchestrate(f) \/ OrchestratorDies(f)
    \/ \E k \in Call : ReadCandidate(k) \/ Advance(k)

Spec == Init /\ [][Next]_vars

\* A started revision and a started call go on unless their process dies, a client goes on
\* calling, and time passes.
LiveSpec ==
    /\ Spec
    /\ WF_vars(Tick)
    /\ \A f \in Formation : WF_vars(Orchestrate(f))
    /\ \A k \in Call : WF_vars(ReadCandidate(k) \/ Advance(k))

-----------------------------------------------------------------------------
(* Properties *)

\* Types.  The four stores and the memories of calls and orchestrators (_candidates.Candidate,
\* _manifest.FormationMember, the formation keys of run.yaml).
PickupTypeOK ==
    /\ now \in 0..MaxTime
    /\ reg \in [Caller -> Candidate]
    /\ drawn \in [Caller -> 0..MaxHandles]
    /\ slot \in [Formation -> Slot]
    /\ plan \in [Formation -> [at : {"idle", "planned", "committed"}, new : Slot]]
    /\ stamp \in [Caller -> Stamp]
    /\ endpoint \in [Caller -> SUBSET Formation]
    /\ call \in [Call -> [at : {"idle", "read", "admitted", "joining", "joined", "stamped",
                                "ready", "enrolled", "revoking", "unstamped"},
                          mine : Candidate]]
    /\ revisions \in Nat
    /\ crashes \in Nat
    /\ granted \in [Formation -> Caller \cup {NoCaller}]
    /\ seated \in [Formation -> SUBSET Caller]

\* The orchestrator's explicit act is the authentication (_admission.py:5): whoever has the slot
\* is the caller that the last revision of the pending slot granted, however stale the record and
\* the manifest its call worked from - an admission taken back in time is never joined - and an
\* endpoint is only ever given to a run that had the slot.
OrchestratorAdmits ==
    /\ \A f \in Formation : slot[f].run # NoCaller => slot[f].run = granted[f]
    /\ \A c \in Caller : \A f \in endpoint[c] : c \in seated[f]

\* The manifest names the run before the run names the formation (join, _stamp_run_record):
\* a live stamp always points at a formation whose slot this run joined.
StampsFollowSeats ==
    \A c \in Caller, f \in Formation : stamp[c].live = f => c \in seated[f]

\* Two orchestrators racing for one handle end with exactly one winner (_candidates.py:168):
\* from its transition to its manifest write, an admission is nobody else's.
OneAdmitter ==
    \A f \in Formation : plan[f].at = "committed" /\ Admits(f, plan[f].new) =>
        LET r == reg[plan[f].new.cand[1]] IN r.n = plan[f].new.cand[2] => r.by = f

\* No revision overwrites a join it did not see: what an orchestrator is about to write is
\* still a revision of the manifest on disk (rewrite_manifest holds the lock from read to write).
RevisionsAreCurrent ==
    \A f \in Formation : Locked(f) => plan[f].new \in Revisions(f)

\* A pick-up is under way: stage 1 has begun, or the next call would begin it.
PickingUp(c) ==
    \/ reg[c].state = "joining"
    \/ reg[c].state = "admitted" /\ Names(reg[c], c)

\* Every pick-up ends - spent, revoked, withdrawn or released - although any process may die
\* between any two of its stages (_pickup.py:24-26).
PickupsEnd == \A c \in Caller : PickingUp(c) ~> ~PickingUp(c)

\* "Any failure after the candidate was admitted stops with admission_revoked and compensates:
\* no endpoint ..." (_pickup.py:20-22).
RevokedHasNoEndpoint ==
    \A c \in Caller : reg[c].state = "revoked" => reg[c].by \notin endpoint[c]
================================================================================
