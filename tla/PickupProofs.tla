------------------------------ MODULE PickupProofs ------------------------------
(***************************************************************************)
(* Proofs about Pickup, for any number of runs, formations, calls in       *)
(* flight, announcements, revisions and crashes.                           *)
(***************************************************************************)
EXTENDS Pickup, TLAPS

Step == {"idle", "read", "admitted", "joining", "joined", "stamped", "ready", "enrolled", "revoking",
         "unstamped"}

\* The calls past the first reads work on a record that names a formation.
CallsNameFormation ==
    \A k \in Call : call[k].at \in {"admitted", "joining", "joined"} => call[k].mine.by \in Formation

TypeInv == PickupTypeOK /\ CallsNameFormation

\* What the records of the four stores are made of keeps their type when a field changes.
LEMMA CandidateFields ==
    ASSUME NEW r \in Candidate
    PROVE  /\ r.n \in 0..MaxHandles /\ r.state \in CandidateState
           /\ r.by \in Formation \cup {NoFormation} /\ r.expires \in 0..MaxTime
           /\ \A s \in CandidateState : [r EXCEPT !.state = s] \in Candidate
           /\ \A e \in 0..MaxTime : [r EXCEPT !.expires = e] \in Candidate
           /\ \A s \in CandidateState, b \in Formation \cup {NoFormation} :
                  [r EXCEPT !.state = s, !.by = b] \in Candidate
  BY DEF Candidate

LEMMA SlotFields ==
    ASSUME NEW s \in Slot
    PROVE  /\ s.cand \in Handle \cup {NoHandle} /\ s.run \in Caller \cup {NoCaller}
           /\ [s EXCEPT !.status = "retired"] \in Slot
           /\ \A h \in Handle \cup {NoHandle} : [s EXCEPT !.cand = h] \in Slot
           /\ \A c \in Caller : [s EXCEPT !.run = c, !.status = "joined"] \in Slot
  BY DEF Slot

\* Updating one field of one record of a store.
LEMMA CandidateMoves ==
    ASSUME reg \in [Caller -> Candidate], NEW c \in Caller
    PROVE  /\ \A s \in CandidateState : [reg EXCEPT ![c].state = s] \in [Caller -> Candidate]
           /\ {"joining", "withdrawn", "picked_up", "revoked", "active", "admitted"} = CandidateState
<1>1. \A s \in CandidateState : [reg[c] EXCEPT !.state = s] \in Candidate
  BY CandidateFields
<1> QED
  BY <1>1 DEF CandidateState, LiveStates

LEMMA Blanks ==
    /\ NoCandidate \in Candidate
    /\ Idle.at = "idle" /\ Idle.mine \in Candidate
    /\ Idle = [at |-> "idle", mine |-> Idle.mine]
    /\ Empty \in Slot
    /\ Still = [at |-> "idle", new |-> Empty]
  BY PickupAssumption DEF NoCandidate, Candidate, CandidateState, LiveStates, Idle, Empty, Slot, Still

CallTypes == call \in [Call -> [at : Step, mine : Candidate]] /\ CallsNameFormation

\* A call that goes to its next stage, and one that ends.
LEMMA CallGoes ==
    ASSUME CallTypes, NEW k \in Call, NEW step \in Step, Goes(k, step),
           step \in {"admitted", "joining", "joined"} => call[k].mine.by \in Formation
    PROVE  CallTypes'
  BY DEF CallTypes, CallsNameFormation, Goes, Step

LEMMA CallEnds ==
    ASSUME CallTypes, NEW k \in Call, Ends(k)
    PROVE  CallTypes'
  BY Blanks DEF CallTypes, CallsNameFormation, Ends, Step

LEMMA CallRests ==
    ASSUME CallTypes, call' = call
    PROVE  CallTypes'
  BY DEF CallTypes, CallsNameFormation

\* The stores, without the calls.
StoreTypes ==
    /\ now \in 0..MaxTime
    /\ reg \in [Caller -> Candidate]
    /\ drawn \in [Caller -> 0..MaxHandles]
    /\ slot \in [Formation -> Slot]
    /\ plan \in [Formation -> [at : {"idle", "planned", "committed"}, new : Slot]]
    /\ stamp \in [Caller -> Stamp]
    /\ endpoint \in [Caller -> SUBSET Formation]
    /\ revisions \in Nat
    /\ crashes \in Nat
    /\ granted \in [Formation -> Caller \cup {NoCaller}]
    /\ seated \in [Formation -> SUBSET Caller]

LEMMA TypeParts == TypeInv <=> StoreTypes /\ CallTypes
  BY DEF TypeInv, PickupTypeOK, StoreTypes, CallTypes, Step

\* Clients, orchestrators and calls start and keep everything well typed.
THEOREM PickupTyping == Spec => []TypeInv
<1>1. Init => TypeInv
  BY PickupAssumption DEF Init, TypeInv, PickupTypeOK, CallsNameFormation, NoCandidate, Candidate,
     Slot, Empty, Still, Stamp, Idle, CandidateState, LiveStates
<1>2. TypeInv /\ [Next]_vars => TypeInv'
  <2> SUFFICES ASSUME StoreTypes, CallTypes, [Next]_vars
               PROVE  StoreTypes' /\ CallTypes'
    BY TypeParts DEF TypeInv, PickupTypeOK, StoreTypes, CallTypes, Step
  <2> USE PickupAssumption
  <2>1. CASE Tick
    BY <2>1, CallRests DEF StoreTypes, Tick
  <2>2. ASSUME NEW c \in Caller, Announce(c)
        PROVE  StoreTypes' /\ CallTypes'
    <3>1. Kept \in [Caller -> Candidate] /\ now + Ttl \in 0..MaxTime
      BY <2>2, Blanks DEF StoreTypes, Announce, Kept
    <3>2. ASSUME drawn[c] < MaxHandles
          PROVE  Fresh(c) \in Candidate /\ drawn[c] + 1 \in 0..MaxHandles
      BY <3>1, <3>2 DEF StoreTypes, Fresh, Candidate, CandidateState, LiveStates
    <3>3. [Kept EXCEPT ![c].expires = now + Ttl] \in [Caller -> Candidate]
      <4>1. Kept[c] \in Candidate
        BY <3>1
      <4>2. [Kept[c] EXCEPT !.expires = now + Ttl] \in Candidate
        BY <3>1, <4>1, CandidateFields
      <4> QED
        BY <3>1, <4>2
    <3>4. CASE Live(reg[c])
      BY <2>2, <3>3, <3>4, CallRests DEF StoreTypes, Announce
    <3>5. CASE ~Live(reg[c])
      <4>1. reg' = [Kept EXCEPT ![c] = Fresh(c)] /\ drawn[c] < MaxHandles
        BY <2>2, <3>5 DEF Announce
      <4>2. reg' \in [Caller -> Candidate]
        BY <3>1, <3>2, <4>1
      <4> QED
        BY <2>2, <3>2, <3>5, <4>1, <4>2, CallRests DEF StoreTypes, Announce
    <3> QED
      BY <3>4, <3>5
  <2>3. ASSUME NEW c \in Caller, Withdraw(c)
        PROVE  StoreTypes' /\ CallTypes'
    <3>1. reg' \in [Caller -> Candidate]
      BY <2>3, CandidateMoves DEF StoreTypes, Withdraw
    <3> QED
      BY <2>3, <3>1, CallRests DEF StoreTypes, Withdraw
  <2>4. ASSUME NEW c \in Caller, EnrollMember(c)
        PROVE  StoreTypes' /\ CallTypes'
    BY <2>4, CallRests DEF StoreTypes, EnrollMember
  <2>5. ASSUME NEW c \in Caller, ServerDies(c)
        PROVE  StoreTypes' /\ CallTypes'
    <3>1. StoreTypes'
      BY <2>5 DEF StoreTypes, ServerDies
    <3>2. CallTypes'
      BY <2>5, Blanks DEF CallTypes, CallsNameFormation, ServerDies, Step
    <3> QED
      BY <3>1, <3>2
  <2>6. ASSUME NEW f \in Formation, NEW new \in Revisions(f), Revise(f, new)
        PROVE  StoreTypes' /\ CallTypes'
    <3>1. slot[f] \in Slot
      BY DEF StoreTypes
    <3>2. new \in Slot
      BY <3>1, Blanks, SlotFields DEF Revisions
    <3> QED
      BY <2>6, <3>2, CallRests DEF StoreTypes, Revise
  <2>7. ASSUME NEW f \in Formation, CommitAdmissions(f)
        PROVE  StoreTypes' /\ CallTypes'
    <3>1. ASSUME NEW c \in Caller
          PROVE  /\ reg[c] \in Candidate
                 /\ [reg[c] EXCEPT !.state = "admitted", !.by = f] \in Candidate
                 /\ [reg[c] EXCEPT !.state = "active", !.by = NoFormation] \in Candidate
      <4>1. reg[c] \in Candidate
        BY DEF StoreTypes
      <4> QED
        BY <4>1, CandidateFields DEF CandidateState, LiveStates
    <3>2. reg' \in [Caller -> Candidate]
      BY <2>7, <3>1 DEF CommitAdmissions
    <3> QED
      BY <2>7, <3>2, CallRests DEF StoreTypes, CommitAdmissions
  <2>8. ASSUME NEW f \in Formation, RefuseRevision(f)
        PROVE  StoreTypes' /\ CallTypes'
    BY <2>8, Blanks, CallRests DEF StoreTypes, RefuseRevision
  <2>9. ASSUME NEW f \in Formation, WriteManifest(f)
        PROVE  StoreTypes' /\ CallTypes'
    <3>1. plan[f].new \in Slot
      BY DEF StoreTypes
    <3>2. granted' \in [Formation -> Caller \cup {NoCaller}]
      BY <2>9, <3>1 DEF StoreTypes, WriteManifest, Slot, Handle
    <3> QED
      BY <2>9, <3>1, <3>2, Blanks, CallRests DEF StoreTypes, WriteManifest
  <2>10. ASSUME NEW f \in Formation, OrchestratorDies(f)
        PROVE  StoreTypes' /\ CallTypes'
    BY <2>10, Blanks, CallRests DEF StoreTypes, OrchestratorDies
  <2>11. ASSUME NEW k \in Call, ReadCandidate(k)
        PROVE  StoreTypes' /\ CallTypes'
    <3>1. StoreTypes'
      BY <2>11 DEF StoreTypes, ReadCandidate
    <3>2. CallTypes'
      BY <2>11 DEF StoreTypes, CallTypes, CallsNameFormation, ReadCandidate, Step
    <3> QED
      BY <3>1, <3>2
  <2>12. ASSUME NEW k \in Call, FindSlot(k)
        PROVE  StoreTypes' /\ CallTypes'
    <3>1. call[k].mine \in Candidate
      BY DEF CallTypes
    <3>2. NextStage(call[k].mine, CallerOf[k]) = "admitted" => call[k].mine.by \in Formation
      BY <3>1, CandidateFields DEF NextStage, Names
    <3>3. NextStage(call[k].mine, CallerOf[k]) \in {"idle", "admitted", "revoking"}
      BY DEF NextStage
    <3>4. CallTypes'
      BY <2>12, <3>2, <3>3, CallGoes, CallEnds DEF FindSlot, Step
    <3> QED
      BY <2>12, <3>4 DEF StoreTypes, FindSlot
  <2>13. ASSUME NEW k \in Call, SetJoining(k)
        PROVE  StoreTypes' /\ CallTypes'
    <3>1. reg' \in [Caller -> Candidate]
      <4>1. CallerOf[k] \in Caller
        OBVIOUS
      <4>2. [reg EXCEPT ![CallerOf[k]].state = "joining"] \in [Caller -> Candidate]
        BY <4>1, CandidateMoves DEF StoreTypes
      <4> QED
        BY <2>13, <4>2 DEF StoreTypes, SetJoining
    <3>2. CallTypes'
      BY <2>13, CallGoes, CallEnds DEF SetJoining, CallTypes, CallsNameFormation, Step
    <3> QED
      BY <2>13, <3>1, <3>2 DEF StoreTypes, SetJoining
  <2>14. ASSUME NEW k \in Call, Join(k)
        PROVE  StoreTypes' /\ CallTypes'
    <3>1. CallerOf[k] \in Caller /\ call[k].mine.by \in Formation
      BY <2>14 DEF Join, CallTypes, CallsNameFormation
    <3>2. slot[call[k].mine.by] \in Slot
      BY <3>1 DEF StoreTypes
    <3>3. [slot[call[k].mine.by] EXCEPT !.run = CallerOf[k], !.status = "joined"] \in Slot
      BY <3>1, <3>2, SlotFields
    <3>4. slot' \in [Formation -> Slot] /\ seated' \in [Formation -> SUBSET Caller]
      BY <2>14, <3>1, <3>3 DEF StoreTypes, Join
    <3>5. CallTypes'
      BY <2>14, <3>1, CallGoes DEF Join, Step
    <3> QED
      BY <2>14, <3>4, <3>5 DEF StoreTypes, Join
  <2>15. ASSUME NEW k \in Call, JoinAgain(k)
        PROVE  StoreTypes' /\ CallTypes'
    <3>1. call[k].mine.by \in Formation
      BY <2>15 DEF JoinAgain, CallTypes, CallsNameFormation
    <3>2. CallTypes'
      BY <2>15, CallGoes DEF JoinAgain, Step
    <3> QED
      BY <2>15, <3>1, <3>2 DEF StoreTypes, JoinAgain, Stamp
  <2>16. ASSUME NEW k \in Call, JoinFails(k)
        PROVE  StoreTypes' /\ CallTypes'
    <3>1. CallTypes'
      BY <2>16, CallGoes, CallEnds DEF JoinFails, Step
    <3> QED
      BY <2>16, <3>1 DEF StoreTypes, JoinFails
  <2>17. ASSUME NEW k \in Call, StampRun(k)
        PROVE  StoreTypes' /\ CallTypes'
    <3>1. call[k].mine.by \in Formation
      BY <2>17 DEF StampRun, CallTypes, CallsNameFormation
    <3>2. CallTypes'
      BY <2>17, CallGoes DEF StampRun, Step
    <3> QED
      BY <2>17, <3>1, <3>2 DEF StoreTypes, StampRun, Stamp
  <2>18. ASSUME NEW k \in Call, Revalidate(k)
        PROVE  StoreTypes' /\ CallTypes'
    <3>1. CallTypes'
      BY <2>18, CallGoes DEF Revalidate, Step
    <3> QED
      BY <2>18, <3>1 DEF StoreTypes, Revalidate
  <2>19. ASSUME NEW k \in Call, EnrollReady(k)
        PROVE  StoreTypes' /\ CallTypes'
    <3>1. endpoint' \in [Caller -> SUBSET Formation]
      BY <2>19 DEF StoreTypes, EnrollReady
    <3>2. CallTypes'
      BY <2>19, CallGoes, CallEnds DEF EnrollReady, Step
    <3> QED
      BY <2>19, <3>1, <3>2 DEF StoreTypes, EnrollReady
  <2>20. ASSUME NEW k \in Call, Complete(k)
        PROVE  StoreTypes' /\ CallTypes'
    <3>1. reg' \in [Caller -> Candidate]
      BY <2>20, CandidateMoves DEF StoreTypes, Complete
    <3>2. CallTypes'
      BY <2>20, CallEnds DEF Complete
    <3> QED
      BY <2>20, <3>1, <3>2 DEF StoreTypes, Complete
  <2>21. ASSUME NEW k \in Call, RevokeStamp(k)
        PROVE  StoreTypes' /\ CallTypes'
    <3>1. CallTypes'
      BY <2>21, CallGoes DEF RevokeStamp, Step
    <3> QED
      BY <2>21, <3>1 DEF StoreTypes, RevokeStamp, Stamp
  <2>22. ASSUME NEW k \in Call, RevokeCandidate(k)
        PROVE  StoreTypes' /\ CallTypes'
    <3>1. reg' \in [Caller -> Candidate]
      BY <2>22, CandidateMoves DEF StoreTypes, RevokeCandidate
    <3>2. CallTypes'
      BY <2>22, CallEnds DEF RevokeCandidate
    <3> QED
      BY <2>22, <3>1, <3>2 DEF StoreTypes, RevokeCandidate
  <2>23. CASE UNCHANGED vars
    BY <2>23, CallRests DEF StoreTypes, vars
  <2> QED
    BY <2>1, <2>2, <2>3, <2>4, <2>5, <2>6, <2>7, <2>8, <2>9, <2>10, <2>11, <2>12, <2>13,
       <2>14, <2>15, <2>16, <2>17, <2>18, <2>19, <2>20, <2>21, <2>22, <2>23
    DEF Next, Orchestrate, Advance
<1> QED
  BY <1>1, <1>2, PTL DEF Spec

-----------------------------------------------------------------------------

\* A slot that has a run has the one it was granted to; a slot without names whom it is granted to.
SlotsAreGranted ==
    \A f \in Formation :
        IF slot[f].run # NoCaller THEN slot[f].run = granted[f] /\ slot[f].run \in seated[f]
        ELSE granted[f] = IF slot[f].cand = NoHandle THEN NoCaller ELSE slot[f].cand[1]

\* Endpoints, and the stamps about to be written, are those of runs that joined.
EndpointsSeated == \A c \in Caller : \A f \in endpoint[c] : c \in seated[f]
CallsSeated == \A k \in Call : call[k].at = "joined" => CallerOf[k] \in seated[call[k].mine.by]

SeatInv ==
    /\ SlotsAreGranted /\ RevisionsAreCurrent
    /\ EndpointsSeated /\ CallsSeated /\ StampsFollowSeats

\* What a revision may write keeps the run of the slot, or clears the slot.
LEMMA RevisionsKeepTheRun ==
    ASSUME StoreTypes, NEW f \in Formation, NEW new \in Revisions(f)
    PROVE  new.run = slot[f].run \/ new = Empty
<1>1. slot[f] \in Slot
  BY DEF StoreTypes
<1> QED
  BY <1>1 DEF Revisions, Slot

\* Each part of the invariant, where what it speaks of stays.
LEMMA SlotsRest == SlotsAreGranted /\ UNCHANGED <<slot, granted, seated>> => SlotsAreGranted'
  BY DEF SlotsAreGranted

LEMMA RevisionsRest == RevisionsAreCurrent /\ UNCHANGED <<slot, plan>> => RevisionsAreCurrent'
  BY DEF RevisionsAreCurrent, Locked, Revisions

LEMMA EndpointsRest == EndpointsSeated /\ UNCHANGED <<endpoint, seated>> => EndpointsSeated'
  BY DEF EndpointsSeated

LEMMA StampsRest == StampsFollowSeats /\ UNCHANGED <<stamp, seated>> => StampsFollowSeats'
  BY DEF StampsFollowSeats

LEMMA CallsRest == CallsSeated /\ UNCHANGED <<call, seated>> => CallsSeated'
  BY DEF CallsSeated

LEMMA CallsGo ==
    ASSUME CallTypes, CallsSeated, UNCHANGED seated, NEW k \in Call,
           NEW step, step # "joined", Goes(k, step) \/ Ends(k)
    PROVE  CallsSeated'
  BY DEF CallTypes, CallsSeated, Goes, Ends, Idle

\* A manifest that is unlocked, or unlocks, leaves the other revisions current.
LEMMA RevisionsOfOthers ==
    ASSUME StoreTypes, RevisionsAreCurrent, NEW f \in Formation, ~Locked(f)',
           \A g \in Formation \ {f} : slot'[g] = slot[g] /\ plan'[g] = plan[g]
    PROVE  RevisionsAreCurrent'
  BY DEF RevisionsAreCurrent, Locked, Revisions

\* One manifest's plan changes into a revision of the manifest, which stays.
LEMMA RevisionsOfOne ==
    ASSUME RevisionsAreCurrent, NEW f \in Formation, slot' = slot,
           \A g \in Formation \ {f} : plan'[g] = plan[g],
           plan'[f].at # "idle" => plan'[f].new \in Revisions(f)
    PROVE  RevisionsAreCurrent'
<1>1. \A g \in Formation : Revisions(g)' = Revisions(g)
  BY DEF Revisions
<1> QED
  BY <1>1 DEF RevisionsAreCurrent, Locked

\* Who is bound to a formation joined it.
LEMMA BoundIsSeated ==
    ASSUME SlotsAreGranted, NEW c \in Caller, NEW f \in Formation, slot[f].run = c
    PROVE  c \in seated[f]
  BY PickupAssumption DEF SlotsAreGranted

\* Nobody gets a slot, a stamp or an endpoint but along the grants of the manifest.
THEOREM PickupSeats == Spec => []SeatInv
<1>1. Init => SeatInv
  BY PickupAssumption DEF Init, SeatInv, SlotsAreGranted, RevisionsAreCurrent, EndpointsSeated, CallsSeated,
     StampsFollowSeats, Empty, Still, Idle, Locked
<1>2. TypeInv /\ SeatInv /\ [Next]_vars => SeatInv'
  <2> SUFFICES ASSUME StoreTypes, CallTypes, SeatInv, [Next]_vars
               PROVE  SeatInv'
    BY TypeParts
  <2> USE PickupAssumption DEF SeatInv
  <2>1. CASE Tick
    BY <2>1, SlotsRest, RevisionsRest, EndpointsRest, CallsRest, StampsRest DEF Tick
  <2>2. ASSUME NEW c \in Caller, Announce(c)
        PROVE  SeatInv'
    BY <2>2, SlotsRest, RevisionsRest, EndpointsRest, CallsRest, StampsRest DEF Announce
  <2>3. ASSUME NEW c \in Caller, Withdraw(c)
        PROVE  SeatInv'
    BY <2>3, SlotsRest, RevisionsRest, EndpointsRest, CallsRest, StampsRest DEF Withdraw
  <2>4. ASSUME NEW c \in Caller, EnrollMember(c)
        PROVE  SeatInv'
    <3>1. EndpointsSeated'
      BY <2>4, BoundIsSeated DEF EnrollMember, EndpointsSeated, Bound, StoreTypes
    <3> QED
      BY <2>4, <3>1, SlotsRest, RevisionsRest, CallsRest, StampsRest DEF EnrollMember
  <2>5. ASSUME NEW c \in Caller, ServerDies(c)
        PROVE  SeatInv'
    <3>1. CallsSeated'
      BY <2>5 DEF ServerDies, CallsSeated, CallTypes, Idle
    <3> QED
      BY <2>5, <3>1, SlotsRest, RevisionsRest, EndpointsRest, StampsRest DEF ServerDies
  <2>6. ASSUME NEW f \in Formation, NEW new \in Revisions(f), Revise(f, new)
        PROVE  SeatInv'
    <3>1. plan'[f].at # "idle" => plan'[f].new \in Revisions(f)
      BY <2>6 DEF Revise, RevisionsAreCurrent, Locked, StoreTypes
    <3>2. slot' = slot /\ \A g \in Formation \ {f} : plan'[g] = plan[g]
      BY <2>6 DEF Revise, StoreTypes
    <3>3. RevisionsAreCurrent'
      BY <3>1, <3>2, RevisionsOfOne
    <3> QED
      BY <2>6, <3>3, SlotsRest, EndpointsRest, CallsRest, StampsRest DEF Revise
  <2>7. ASSUME NEW f \in Formation, CommitAdmissions(f)
        PROVE  SeatInv'
    <3>1. plan'[f].at # "idle" => plan'[f].new \in Revisions(f)
      BY <2>7 DEF CommitAdmissions, RevisionsAreCurrent, Locked, StoreTypes
    <3>2. slot' = slot /\ \A g \in Formation \ {f} : plan'[g] = plan[g]
      BY <2>7 DEF CommitAdmissions, StoreTypes
    <3>3. RevisionsAreCurrent'
      BY <3>1, <3>2, RevisionsOfOne
    <3> QED
      BY <2>7, <3>3, SlotsRest, EndpointsRest, CallsRest, StampsRest DEF CommitAdmissions
  <2>8. ASSUME NEW f \in Formation, RefuseRevision(f)
        PROVE  SeatInv'
    <3>1. RevisionsAreCurrent'
      BY <2>8, RevisionsOfOthers DEF RefuseRevision, Locked, Still, StoreTypes
    <3> QED
      BY <2>8, <3>1, SlotsRest, EndpointsRest, CallsRest, StampsRest DEF RefuseRevision
  <2>9. ASSUME NEW f \in Formation, WriteManifest(f)
        PROVE  SeatInv'
    <3> DEFINE new == plan[f].new
    <3>1. new \in Revisions(f)
      BY <2>9 DEF RevisionsAreCurrent, Locked, WriteManifest
    <3>2. new.run = slot[f].run \/ new = Empty
      BY <3>1, RevisionsKeepTheRun
    <3>3. slot' = [slot EXCEPT ![f] = new] /\ plan' = [plan EXCEPT ![f] = Still]
      BY <2>9 DEF WriteManifest
    <3>4. SlotsAreGranted'
      <4>1. /\ granted' = [granted EXCEPT ![f] =
                   IF new.run # NoCaller THEN @
                   ELSE IF new.cand = NoHandle THEN NoCaller ELSE new.cand[1]]
            /\ seated' = seated
        BY <2>9 DEF WriteManifest
      <4> HIDE DEF new
      <4>2. ASSUME NEW g \in Formation, g # f
            PROVE  slot'[g] = slot[g] /\ granted'[g] = granted[g]
        BY <3>3, <4>1, <4>2 DEF StoreTypes
      <4>3. /\ slot'[f] = new
            /\ granted'[f] = IF new.run # NoCaller THEN granted[f]
                             ELSE IF new.cand = NoHandle THEN NoCaller ELSE new.cand[1]
        BY <3>3, <4>1 DEF StoreTypes
      <4> QED
        BY <3>2, <4>1, <4>2, <4>3 DEF SlotsAreGranted, Empty
    <3>5. RevisionsAreCurrent'
      BY <3>3, RevisionsOfOthers DEF Locked, Still, StoreTypes
    <3> QED
      BY <2>9, <3>4, <3>5, EndpointsRest, CallsRest, StampsRest DEF WriteManifest
  <2>10. ASSUME NEW f \in Formation, OrchestratorDies(f)
        PROVE  SeatInv'
    <3>1. RevisionsAreCurrent'
      BY <2>10, RevisionsOfOthers DEF OrchestratorDies, Locked, Still, StoreTypes
    <3> QED
      BY <2>10, <3>1, SlotsRest, EndpointsRest, CallsRest, StampsRest DEF OrchestratorDies
  <2>11. ASSUME NEW k \in Call, ReadCandidate(k)
        PROVE  SeatInv'
    <3>1. CallsSeated'
      BY <2>11 DEF ReadCandidate, CallsSeated, CallTypes
    <3> QED
      BY <2>11, <3>1, SlotsRest, RevisionsRest, EndpointsRest, StampsRest DEF ReadCandidate
  <2>12. ASSUME NEW k \in Call, FindSlot(k)
        PROVE  SeatInv'
    <3>1. CallsSeated'
      BY <2>12, CallsGo DEF FindSlot, NextStage
    <3> QED
      BY <2>12, <3>1, SlotsRest, RevisionsRest, EndpointsRest, StampsRest DEF FindSlot
  <2>13. ASSUME NEW k \in Call, SetJoining(k)
        PROVE  SeatInv'
    <3>1. CallsSeated'
      BY <2>13, CallsGo DEF SetJoining
    <3> QED
      BY <2>13, <3>1, SlotsRest, RevisionsRest, EndpointsRest, StampsRest DEF SetJoining
  <2>14. ASSUME NEW k \in Call, Join(k)
        PROVE  SeatInv'
    <3> DEFINE c == CallerOf[k]
                f == call[k].mine.by
    <3>1. f \in Formation /\ c \in Caller
      BY <2>14 DEF Join, CallTypes, CallsNameFormation
    <3>2. CASE Goes(k, "revoking") /\ UNCHANGED <<slot, seated>>
      <4>1. CallsSeated'
        BY <3>2, CallsGo
      <4> QED
        BY <2>14, <3>2, <4>1, SlotsRest, RevisionsRest, EndpointsRest, StampsRest DEF Join
    <3>3. CASE /\ JoinAdmitted(f, call[k].mine, c)
               /\ slot' = [slot EXCEPT ![f] = [@ EXCEPT !.run = c, !.status = "joined"]]
               /\ seated' = [seated EXCEPT ![f] = @ \cup {c}]
               /\ Goes(k, "joined")
      <4>a. /\ slot[f].run = NoCaller /\ ~Locked(f)
            /\ UNCHANGED <<plan, stamp, endpoint, granted>>
        BY <2>14 DEF Join
      <4>b. call' = [call EXCEPT ![k].at = "joined"]
        BY <3>3 DEF Goes
      <4> HIDE DEF c, f
      <4>1. slot[f].run = NoCaller /\ slot[f].cand = <<c, call[k].mine.n>>
        BY <3>3, <4>a DEF JoinAdmitted
      <4>2. call[k].mine.n \in 1..MaxHandles
        BY <3>1, <3>3 DEF JoinAdmitted, Live, StoreTypes, Candidate
      <4>3. slot[f].cand # NoHandle /\ slot[f].cand[1] = c
        BY <3>1, <4>1, <4>2
      <4>4. granted[f] = c
        BY <3>1, <4>1, <4>3 DEF SlotsAreGranted
      <4>5. /\ slot'[f].run = c
            /\ \A g \in Formation \ {f} : slot'[g] = slot[g]
        BY <3>1, <3>3 DEF StoreTypes, Slot
      <4>6. c \in seated'[f] /\ \A g \in Formation : seated[g] \subseteq seated'[g]
        BY <3>1, <3>3 DEF StoreTypes
      <4>7. SlotsAreGranted'
        BY <3>1, <4>a, <4>4, <4>5, <4>6 DEF SlotsAreGranted
      <4>8. RevisionsAreCurrent'
        BY <3>1, <4>a, <4>5, RevisionsOfOthers DEF Locked
      <4>9. EndpointsSeated' /\ StampsFollowSeats'
        BY <4>a, <4>6 DEF EndpointsSeated, StampsFollowSeats, StoreTypes
      <4>10. CallsSeated'
        <5> SUFFICES ASSUME NEW j \in Call, call'[j].at = "joined"
                     PROVE  CallerOf[j] \in seated'[call'[j].mine.by]
          BY DEF CallsSeated
        <5>1. call'[j].mine = call[j].mine /\ call[j].mine \in Candidate
          BY <4>b DEF CallTypes
        <5>2. CASE j = k
          BY <4>6, <5>1, <5>2 DEF c, f
        <5>3. CASE j # k
          <6>1. call[j].at = "joined"
            BY <4>b, <5>3 DEF CallTypes
          <6> QED
            BY <4>6, <5>1, <6>1 DEF CallsSeated, CallTypes, CallsNameFormation
        <5> QED
          BY <5>2, <5>3
      <4> QED
        BY <4>7, <4>8, <4>9, <4>10
    <3> QED
      BY <2>14, <3>2, <3>3 DEF Join
  <2>15. ASSUME NEW k \in Call, JoinAgain(k)
        PROVE  SeatInv'
    <3>1. call[k].mine.by \in Formation
      BY <2>15 DEF JoinAgain, CallTypes, CallsNameFormation
    <3>2. CallerOf[k] \in seated[call[k].mine.by]
      BY <2>15, <3>1, BoundIsSeated DEF JoinAgain
    <3>3. StampsFollowSeats'
      BY <2>15, <3>1, <3>2 DEF StampsFollowSeats, JoinAgain, StoreTypes, Stamp
    <3>4. CallsSeated'
      BY <2>15, CallsGo DEF JoinAgain
    <3> QED
      BY <2>15, <3>3, <3>4, SlotsRest, RevisionsRest, EndpointsRest DEF JoinAgain
  <2>16. ASSUME NEW k \in Call, JoinFails(k)
        PROVE  SeatInv'
    <3>1. CallsSeated'
      BY <2>16, CallsGo DEF JoinFails
    <3> QED
      BY <2>16, <3>1, SlotsRest, RevisionsRest, EndpointsRest, StampsRest DEF JoinFails
  <2>17. ASSUME NEW k \in Call, StampRun(k)
        PROVE  SeatInv'
    <3>1. CallerOf[k] \in seated[call[k].mine.by]
      BY <2>17 DEF CallsSeated, StampRun
    <3>2. StampsFollowSeats'
      BY <2>17, <3>1 DEF StampsFollowSeats, StampRun, StoreTypes, Stamp
    <3>3. CallsSeated'
      BY <2>17, CallsGo DEF StampRun
    <3> QED
      BY <2>17, <3>2, <3>3, SlotsRest, RevisionsRest, EndpointsRest DEF StampRun
  <2>18. ASSUME NEW k \in Call, Revalidate(k)
        PROVE  SeatInv'
    <3>1. CallsSeated'
      BY <2>18, CallsGo DEF Revalidate
    <3> QED
      BY <2>18, <3>1, SlotsRest, RevisionsRest, EndpointsRest, StampsRest DEF Revalidate
  <2>19. ASSUME NEW k \in Call, EnrollReady(k)
        PROVE  SeatInv'
    <3>1. EndpointsSeated'
      BY <2>19, BoundIsSeated DEF EnrollReady, EndpointsSeated, Bound, StoreTypes
    <3>2. CallsSeated'
      BY <2>19, CallsGo DEF EnrollReady
    <3> QED
      BY <2>19, <3>1, <3>2, SlotsRest, RevisionsRest, StampsRest DEF EnrollReady
  <2>20. ASSUME NEW k \in Call, Complete(k)
        PROVE  SeatInv'
    <3>1. CallsSeated'
      BY <2>20, CallsGo DEF Complete
    <3> QED
      BY <2>20, <3>1, SlotsRest, RevisionsRest, EndpointsRest, StampsRest DEF Complete
  <2>21. ASSUME NEW k \in Call, RevokeStamp(k)
        PROVE  SeatInv'
    <3>1. StampsFollowSeats'
      BY <2>21 DEF StampsFollowSeats, RevokeStamp, StoreTypes, Stamp
    <3>2. CallsSeated'
      BY <2>21, CallsGo DEF RevokeStamp
    <3> QED
      BY <2>21, <3>1, <3>2, SlotsRest, RevisionsRest, EndpointsRest DEF RevokeStamp
  <2>22. ASSUME NEW k \in Call, RevokeCandidate(k)
        PROVE  SeatInv'
    <3>1. CallsSeated'
      BY <2>22, CallsGo DEF RevokeCandidate
    <3> QED
      BY <2>22, <3>1, SlotsRest, RevisionsRest, EndpointsRest, StampsRest DEF RevokeCandidate
  <2>23. CASE UNCHANGED vars
    BY <2>23, SlotsRest, RevisionsRest, EndpointsRest, CallsRest, StampsRest DEF vars
  <2> QED
    BY <2>1, <2>2, <2>3, <2>4, <2>5, <2>6, <2>7, <2>8, <2>9, <2>10, <2>11, <2>12, <2>13,
       <2>14, <2>15, <2>16, <2>17, <2>18, <2>19, <2>20, <2>21, <2>22, <2>23
    DEF Next, Orchestrate, Advance
<1> QED
  BY PickupTyping, <1>1, <1>2, PTL DEF Spec

-----------------------------------------------------------------------------

\* Handles are drawn once: a record's is among those drawn, and so is one a revision names.
HandlesDrawn == \A c \in Caller : reg[c].n <= drawn[c]
Named(f) == Locked(f) /\ Admits(f, plan[f].new)
PlansDrawn == \A f \in Formation : Named(f) =>
    plan[f].new.cand \in Handle /\ plan[f].new.cand[2] <= drawn[plan[f].new.cand[1]]

\* The record of a transition that was committed is its admitter's, and no release can free it.
Held(f, r) == r.n = plan[f].new.cand[2] => r.by = f /\ r.state # "active"
CommitsHeld == \A f \in Formation : plan[f].at = "committed" /\ Admits(f, plan[f].new) =>
    Held(f, reg[plan[f].new.cand[1]])

AdmitInv == HandlesDrawn /\ PlansDrawn /\ CommitsHeld

\* A record that keeps its handle and admitter and is not active, or is new or gone, stays held.
RecordKept(c) ==
    \/ reg'[c] = reg[c]
    \/ reg'[c].n = reg[c].n /\ reg'[c].by = reg[c].by /\ reg'[c].state # "active"
    \/ reg'[c].n = 0
    \/ reg'[c].n > drawn[c]
    \/ reg'[c].n = reg[c].n /\ reg'[c].by = reg[c].by /\ reg'[c].state = reg[c].state

LEMMA HandlesRest ==
    ASSUME StoreTypes, HandlesDrawn, drawn' = drawn, \A c \in Caller : reg'[c].n \in {0, reg[c].n}
    PROVE  HandlesDrawn'
  BY DEF HandlesDrawn, StoreTypes

LEMMA PlansRest ==
    ASSUME StoreTypes, PlansDrawn, plan' = plan, \A f \in Formation : slot'[f].cand = slot[f].cand,
           drawn' \in [Caller -> Nat], \A c \in Caller : drawn[c] <= drawn'[c]
    PROVE  PlansDrawn'
<1>1. \A f \in Formation : Named(f)' <=> Named(f)
  BY DEF Named, Locked, Admits
<1>2. \A h \in Handle : h[1] \in Caller /\ h[2] \in Nat
  BY DEF Handle
<1> QED
  BY <1>1, <1>2, PickupAssumption DEF PlansDrawn, StoreTypes

LEMMA CommitsRest ==
    ASSUME StoreTypes, PlansDrawn, CommitsHeld, plan' = plan,
           \A f \in Formation : slot'[f].cand = slot[f].cand, \A c \in Caller : RecordKept(c)
    PROVE  CommitsHeld'
<1> SUFFICES ASSUME NEW f \in Formation, plan[f].at = "committed", Admits(f, plan[f].new)
             PROVE  Held(f, reg[plan[f].new.cand[1]])'
  BY DEF CommitsHeld, Admits
<1> DEFINE c == plan[f].new.cand[1]
           n == plan[f].new.cand[2]
<1>1. Held(f, reg[c])
  BY DEF CommitsHeld
<1>2. c \in Caller /\ n \in 1..MaxHandles /\ n <= drawn[c]
  BY DEF PlansDrawn, Named, Locked, Handle
<1>3. drawn[c] \in Nat /\ MaxHandles \in Nat
  BY <1>2, PickupAssumption DEF StoreTypes
<1>4. RecordKept(c)
  BY <1>2
<1>5. reg'[c].n = n => reg[c].n = n /\ reg'[c].by = reg[c].by
                       /\ (reg[c].state # "active" => reg'[c].state # "active")
  <2> HIDE DEF c, n
  <2>1. reg'[c].n # 0 \/ reg'[c].n # n
    BY <1>2
  <2>2. ~(reg'[c].n > drawn[c]) \/ reg'[c].n # n
    BY <1>2, <1>3
  <2> QED
    BY <1>4, <2>1, <2>2 DEF RecordKept
<1>6. plan'[f].new.cand = plan[f].new.cand
  OBVIOUS
<1> QED
  BY <1>1, <1>5, <1>6 DEF Held

\* Where the registry and the names of the slots stay, and one manifest's plan is dropped.
LEMMA PlanDropped ==
    ASSUME StoreTypes, AdmitInv, UNCHANGED <<reg, drawn>>, NEW f \in Formation, ~Locked(f)',
           \A g \in Formation \ {f} : plan'[g] = plan[g] /\ slot'[g] = slot[g]
    PROVE  AdmitInv'
<1>1. \A g \in Formation \ {f} : Admits(g, plan[g].new)' <=> Admits(g, plan[g].new)
  BY DEF Admits
<1> QED
  BY <1>1 DEF AdmitInv, HandlesDrawn, PlansDrawn, CommitsHeld, Named, Locked, Held

LEMMA RegistryRests ==
    ASSUME StoreTypes, AdmitInv, UNCHANGED <<reg, drawn, plan>>,
           \A f \in Formation : slot'[f].cand = slot[f].cand
    PROVE  AdmitInv'
<1>1. \A c \in Caller : RecordKept(c) /\ reg'[c].n \in {0, reg[c].n}
  BY DEF RecordKept
<1>2. drawn' \in [Caller -> Nat] /\ \A c \in Caller : drawn[c] <= drawn'[c]
  BY PickupAssumption DEF StoreTypes
<1> QED
  BY <1>1, <1>2, HandlesRest, PlansRest, CommitsRest DEF AdmitInv

\* One record moves to a state that is not active.
LEMMA RecordMoves ==
    ASSUME StoreTypes, AdmitInv, UNCHANGED <<drawn, plan, slot>>, NEW c \in Caller,
           NEW s \in CandidateState, s # "active",
           reg' = [reg EXCEPT ![c].state = s] \/ reg' = reg
    PROVE  AdmitInv'
<1>1. \A d \in Caller : RecordKept(d) /\ reg'[d].n \in {0, reg[d].n}
  <2>1. CASE reg' = reg
    BY <2>1 DEF RecordKept
  <2>2. CASE reg' = [reg EXCEPT ![c].state = s]
    <3>1. reg'[c].n = reg[c].n /\ reg'[c].by = reg[c].by /\ reg'[c].state = s
      BY <2>2 DEF StoreTypes, Candidate
    <3>2. \A d \in Caller \ {c} : reg'[d] = reg[d]
      BY <2>2 DEF StoreTypes
    <3> QED
      BY <3>1, <3>2 DEF RecordKept
  <2> QED
    BY <2>1, <2>2
<1>2. drawn' \in [Caller -> Nat] /\ \A d \in Caller : drawn[d] <= drawn'[d]
  BY PickupAssumption DEF StoreTypes
<1>3. \A f \in Formation : slot'[f].cand = slot[f].cand
  OBVIOUS
<1> QED
  BY <1>1, <1>2, <1>3, HandlesRest, PlansRest, CommitsRest DEF AdmitInv

\* From its transition to its manifest write an admission is nobody else's.
THEOREM PickupAdmissions == Spec => []AdmitInv
<1>1. Init => AdmitInv
  BY PickupAssumption DEF Init, AdmitInv, HandlesDrawn, PlansDrawn, CommitsHeld, Named, Locked, Still,
     NoCandidate
<1>2. TypeInv /\ AdmitInv /\ [Next]_vars => AdmitInv'
  <2> SUFFICES ASSUME StoreTypes, CallTypes, AdmitInv, [Next]_vars
               PROVE  AdmitInv'
    BY TypeParts
  <2> USE PickupAssumption
  <2>1. CASE Tick
    BY <2>1, RegistryRests DEF Tick
  <2>2. ASSUME NEW c \in Caller, Announce(c)
        PROVE  AdmitInv'
    <3>1. \A d \in Caller : Kept[d] = reg[d] \/ Kept[d].n = 0
      BY DEF Kept, NoCandidate
    <3>2. Kept \in [Caller -> Candidate] /\ now + Ttl \in 0..MaxTime
      BY <2>2, Blanks DEF StoreTypes, Announce, Kept
    <3>3. /\ drawn' \in [Caller -> Nat] /\ \A d \in Caller : drawn[d] <= drawn'[d]
          /\ UNCHANGED <<plan, slot>>
      BY <2>2 DEF Announce, StoreTypes
    <3>4. CASE reg' = [Kept EXCEPT ![c].expires = now + Ttl] /\ drawn' = drawn
      <4>1. \A d \in Caller : /\ reg'[d].n = Kept[d].n /\ reg'[d].by = Kept[d].by
                              /\ reg'[d].state = Kept[d].state
        BY <3>2, <3>4 DEF Candidate
      <4>2. \A d \in Caller : RecordKept(d) /\ reg'[d].n \in {0, reg[d].n}
        BY <3>1, <4>1 DEF RecordKept
      <4> QED
        BY <3>3, <3>4, <4>2, HandlesRest, PlansRest, CommitsRest DEF AdmitInv
    <3>5. CASE /\ reg' = [Kept EXCEPT ![c] = Fresh(c)] /\ drawn' = [drawn EXCEPT ![c] = @ + 1]
      <4>1. /\ \A d \in Caller \ {c} : reg'[d] = Kept[d] /\ drawn'[d] = drawn[d]
            /\ reg'[c].n = drawn[c] + 1 /\ drawn'[c] = drawn[c] + 1
        BY <3>2, <3>5 DEF Fresh, StoreTypes
      <4>2. \A d \in Caller : RecordKept(d)
        BY <3>1, <4>1 DEF RecordKept, StoreTypes
      <4>3. HandlesDrawn'
        BY <3>1, <4>1 DEF AdmitInv, HandlesDrawn, StoreTypes
      <4> QED
        BY <3>3, <4>2, <4>3, PlansRest, CommitsRest DEF AdmitInv
    <3> QED
      BY <2>2, <3>4, <3>5 DEF Announce
  <2>3. ASSUME NEW c \in Caller, Withdraw(c)
        PROVE  AdmitInv'
    BY <2>3, RecordMoves DEF Withdraw, CandidateState
  <2>4. ASSUME NEW c \in Caller, EnrollMember(c)
        PROVE  AdmitInv'
    BY <2>4, RegistryRests DEF EnrollMember
  <2>5. ASSUME NEW c \in Caller, ServerDies(c)
        PROVE  AdmitInv'
    BY <2>5, RegistryRests DEF ServerDies
  <2>6. ASSUME NEW f \in Formation, NEW new \in Revisions(f), Revise(f, new)
        PROVE  AdmitInv'
    <3>1. slot[f] \in Slot
      BY DEF StoreTypes
    <3>2. new \in Slot
      BY <3>1, Blanks, SlotFields DEF Revisions
    <3>3. /\ plan' = [plan EXCEPT ![f] = [at |-> "planned", new |-> new]]
          /\ UNCHANGED <<reg, drawn, slot>>
          /\ Admits(f, new) => Admissible(f, new.cand)
      BY <2>6 DEF Revise
    <3>4. Admits(f, new) => /\ new.cand \in Handle /\ new.cand[1] \in Caller
                            /\ reg[new.cand[1]].n = new.cand[2]
      BY <3>2, <3>3, SlotFields DEF Admits, Admissible, Handle
    <3>5. Admits(f, new) => new.cand[2] <= drawn[new.cand[1]]
      BY <3>4 DEF AdmitInv, HandlesDrawn
    <3>6. /\ plan'[f] = [at |-> "planned", new |-> new]
          /\ \A g \in Formation \ {f} : plan'[g] = plan[g]
      BY <3>3 DEF StoreTypes
    <3>7. \A g \in Formation, s \in Slot : Admits(g, s)' <=> Admits(g, s)
      BY <3>3 DEF Admits
    <3>8. PlansDrawn'
      BY <3>3, <3>4, <3>5, <3>6 DEF AdmitInv, PlansDrawn, Named, Locked, Admits
    <3>9. CommitsHeld'
      BY <3>3, <3>6 DEF AdmitInv, CommitsHeld, Held, Admits
    <3>10. HandlesDrawn'
      BY <3>3 DEF AdmitInv, HandlesDrawn
    <3> QED
      BY <3>8, <3>9, <3>10 DEF AdmitInv
  <2>7. ASSUME NEW f \in Formation, CommitAdmissions(f)
        PROVE  AdmitInv'
    <3> DEFINE new == plan[f].new
               freed(c) == Releases(f, new) /\ slot[f].cand = <<c, reg[c].n>> /\ reg[c].state = "admitted"
               taken(c) == Admits(f, new) /\ new.cand[1] = c
    <3>1. /\ plan[f].at = "planned" /\ Transitions(f, new)
          /\ reg' = [c \in Caller |->
                 IF taken(c) THEN [reg[c] EXCEPT !.state = "admitted", !.by = f]
                 ELSE IF freed(c) THEN [reg[c] EXCEPT !.state = "active", !.by = NoFormation]
                 ELSE reg[c]]
          /\ plan' = [plan EXCEPT ![f].at = "committed"]
          /\ UNCHANGED <<drawn, slot>>
      BY <2>7 DEF CommitAdmissions
    <3>2. \A c \in Caller : reg[c] \in Candidate
      BY DEF StoreTypes
    <3>3. ASSUME NEW c \in Caller
          PROVE  /\ reg'[c].n = reg[c].n
                 /\ taken(c) => reg'[c].by = f /\ reg'[c].state = "admitted"
                 /\ ~taken(c) /\ ~freed(c) => reg'[c] = reg[c]
      <4>1. reg'[c] = IF taken(c) THEN [reg[c] EXCEPT !.state = "admitted", !.by = f]
                      ELSE IF freed(c) THEN [reg[c] EXCEPT !.state = "active", !.by = NoFormation]
                      ELSE reg[c]
        BY <3>1
      <4> HIDE DEF taken, freed
      <4> QED
        BY <3>2, <4>1 DEF Candidate
    <3>4. ASSUME NEW c \in Caller, taken(c)
          PROVE  MayAdmit(f, reg[c])
      BY <3>1, <3>4 DEF Transitions
    <3>5. ASSUME NEW c \in Caller, freed(c)
          PROVE  reg[c].by = f
      <4>1. slot[f].cand[1] = c /\ slot[f].cand[2] = reg[c].n
        BY <3>5
      <4> QED
        BY <3>1, <3>5, <4>1 DEF Transitions, MayRelease
    <3>6. plan'[f].new = new /\ \A g \in Formation \ {f} : plan'[g] = plan[g]
      BY <3>1 DEF StoreTypes
    <3>7. HandlesDrawn'
      BY <3>1, <3>3 DEF AdmitInv, HandlesDrawn
    <3>8. PlansDrawn'
      <4>1. \A g \in Formation : Named(g)' => Named(g)
        BY <3>1, <3>6 DEF Named, Locked, Admits
      <4>2. \A g \in Formation : plan'[g].new = plan[g].new
        BY <3>6
      <4> QED
        BY <3>1, <4>1, <4>2 DEF AdmitInv, PlansDrawn
    <3>9. CommitsHeld'
      <4> SUFFICES ASSUME NEW g \in Formation, plan'[g].at = "committed", Admits(g, plan[g].new)
                   PROVE  Held(g, reg[plan[g].new.cand[1]])'
        BY <3>1, <3>6 DEF CommitsHeld, Admits
      <4> HIDE DEF taken, freed, new
      <4>1. plan'[g].new = plan[g].new
        BY <3>6 DEF new
      <4>2. CASE g = f
        <5>1. new.cand[1] \in Caller
          BY <3>1, <4>2 DEF AdmitInv, PlansDrawn, Named, Locked, Handle, new
        <5> QED
          BY <3>3, <4>1, <4>2, <5>1 DEF Held, taken, new
      <4>3. CASE g # f
        <5> DEFINE c == plan[g].new.cand[1]
        <5>1. plan[g].at = "committed" /\ Named(g)
          BY <3>6, <4>3 DEF Named, Locked
        <5>2. Held(g, reg[c]) /\ c \in Caller
          BY <5>1 DEF AdmitInv, CommitsHeld, PlansDrawn, Handle
        <5>3. reg[c].n = plan[g].new.cand[2] => ~taken(c) /\ ~freed(c)
          BY <3>4, <3>5, <4>3, <5>2 DEF Held, MayAdmit
        <5> QED
          BY <3>3, <4>1, <5>2, <5>3 DEF Held
      <4> QED
        BY <4>2, <4>3
    <3> QED
      BY <3>7, <3>8, <3>9 DEF AdmitInv
  <2>8. ASSUME NEW f \in Formation, RefuseRevision(f)
        PROVE  AdmitInv'
    <3>1. /\ UNCHANGED <<reg, drawn>> /\ ~Locked(f)'
          /\ \A g \in Formation \ {f} : plan'[g] = plan[g] /\ slot'[g] = slot[g]
      BY <2>8 DEF RefuseRevision, StoreTypes, Locked, Still
    <3> QED
      BY <3>1, PlanDropped
  <2>9. ASSUME NEW f \in Formation, WriteManifest(f)
        PROVE  AdmitInv'
    <3>1. /\ UNCHANGED <<reg, drawn>> /\ ~Locked(f)'
          /\ \A g \in Formation \ {f} : plan'[g] = plan[g] /\ slot'[g] = slot[g]
      BY <2>9 DEF WriteManifest, StoreTypes, Locked, Still
    <3> QED
      BY <3>1, PlanDropped
  <2>10. ASSUME NEW f \in Formation, OrchestratorDies(f)
        PROVE  AdmitInv'
    <3>1. /\ UNCHANGED <<reg, drawn>> /\ ~Locked(f)'
          /\ \A g \in Formation \ {f} : plan'[g] = plan[g] /\ slot'[g] = slot[g]
      BY <2>10 DEF OrchestratorDies, StoreTypes, Locked, Still
    <3> QED
      BY <3>1, PlanDropped
  <2>11. ASSUME NEW k \in Call, ReadCandidate(k)
        PROVE  AdmitInv'
    BY <2>11, RegistryRests DEF ReadCandidate
  <2>12. ASSUME NEW k \in Call, FindSlot(k)
        PROVE  AdmitInv'
    BY <2>12, RegistryRests DEF FindSlot
  <2>13. ASSUME NEW k \in Call, SetJoining(k)
        PROVE  AdmitInv'
    <3>1. /\ reg' = [reg EXCEPT ![CallerOf[k]].state = "joining"] \/ reg' = reg
          /\ UNCHANGED <<drawn, plan, slot>>
      BY <2>13 DEF SetJoining
    <3> QED
      BY <3>1, RecordMoves DEF LiveStates, CandidateState
  <2>14. ASSUME NEW k \in Call, Join(k)
        PROVE  AdmitInv'
    <3> DEFINE f == call[k].mine.by
    <3>1. slot' = slot \/ slot' = [slot EXCEPT ![f] = [@ EXCEPT !.run = CallerOf[k], !.status = "joined"]]
      BY <2>14 DEF Join
    <3>2. \A g \in Formation : slot'[g].cand = slot[g].cand
      <4>1. \A s \in Slot : [s EXCEPT !.run = CallerOf[k], !.status = "joined"].cand = s.cand
        BY DEF Slot
      <4>2. slot \in [Formation -> Slot]
        BY DEF StoreTypes
      <4> QED
        BY <3>1, <4>1, <4>2
    <3> QED
      BY <2>14, <3>2, RegistryRests DEF Join
  <2>15. ASSUME NEW k \in Call, JoinAgain(k)
        PROVE  AdmitInv'
    BY <2>15, RegistryRests DEF JoinAgain
  <2>16. ASSUME NEW k \in Call, JoinFails(k)
        PROVE  AdmitInv'
    BY <2>16, RegistryRests DEF JoinFails
  <2>17. ASSUME NEW k \in Call, StampRun(k)
        PROVE  AdmitInv'
    BY <2>17, RegistryRests DEF StampRun
  <2>18. ASSUME NEW k \in Call, Revalidate(k)
        PROVE  AdmitInv'
    BY <2>18, RegistryRests DEF Revalidate
  <2>19. ASSUME NEW k \in Call, EnrollReady(k)
        PROVE  AdmitInv'
    BY <2>19, RegistryRests DEF EnrollReady
  <2>20. ASSUME NEW k \in Call, Complete(k)
        PROVE  AdmitInv'
    <3>1. /\ reg' = [reg EXCEPT ![CallerOf[k]].state = "picked_up"] \/ reg' = reg
          /\ UNCHANGED <<drawn, plan, slot>>
      BY <2>20 DEF Complete
    <3> QED
      BY <3>1, RecordMoves DEF CandidateState
  <2>21. ASSUME NEW k \in Call, RevokeStamp(k)
        PROVE  AdmitInv'
    BY <2>21, RegistryRests DEF RevokeStamp
  <2>22. ASSUME NEW k \in Call, RevokeCandidate(k)
        PROVE  AdmitInv'
    <3>1. /\ reg' = [reg EXCEPT ![CallerOf[k]].state = "revoked"] \/ reg' = reg
          /\ UNCHANGED <<drawn, plan, slot>>
      BY <2>22 DEF RevokeCandidate
    <3> QED
      BY <3>1, RecordMoves DEF CandidateState
  <2>23. CASE UNCHANGED vars
    BY <2>23, RegistryRests DEF vars
  <2> QED
    BY <2>1, <2>2, <2>3, <2>4, <2>5, <2>6, <2>7, <2>8, <2>9, <2>10, <2>11, <2>12, <2>13,
       <2>14, <2>15, <2>16, <2>17, <2>18, <2>19, <2>20, <2>21, <2>22, <2>23
    DEF Next, Orchestrate, Advance
<1> QED
  BY PickupTyping, <1>1, <1>2, PTL DEF Spec

-----------------------------------------------------------------------------

\* The four stores, the calls and the revisions are well typed (PickupTypeOK).
THEOREM PickupTypes == Spec => []PickupTypeOK
<1>1. TypeInv => PickupTypeOK
  BY DEF TypeInv
<1> QED
  BY <1>1, PickupTyping, PTL

\* join and enroll only ever follow what an orchestrator granted (_admission.require_join_admitted).
THEOREM OnlyTheGrantedAreSeated == Spec => []OrchestratorAdmits
<1>1. SeatInv => OrchestratorAdmits
  BY DEF SeatInv, SlotsAreGranted, EndpointsSeated, OrchestratorAdmits
<1> QED
  BY <1>1, PickupSeats, PTL

\* A stamp is written after the manifest names the run (_join.join).
THEOREM StampsFollowTheManifest == Spec => []StampsFollowSeats
<1>1. SeatInv => StampsFollowSeats
  BY DEF SeatInv
<1> QED
  BY <1>1, PickupSeats, PTL

\* A revision is written over the manifest it was made from (_manifest.rewrite_manifest).
THEOREM RevisionsStayCurrent == Spec => []RevisionsAreCurrent
<1>1. SeatInv => RevisionsAreCurrent
  BY DEF SeatInv
<1> QED
  BY <1>1, PickupSeats, PTL

\* Two orchestrators that race for one handle: one wins (_candidates.set_states).
THEOREM OneOrchestratorWins == Spec => []OneAdmitter
<1>1. AdmitInv => OneAdmitter
  BY DEF AdmitInv, CommitsHeld, Held, OneAdmitter
<1> QED
  BY <1>1, PickupAdmissions, PTL
================================================================================
