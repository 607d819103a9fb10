---------------------------- MODULE EndpointsProofs ----------------------------
(***************************************************************************)
(* Proofs about Endpoints, for any number of members, processes, restarts  *)
(* and calls in flight.  The strengthening is about who drew a token: a    *)
(* process only ever knows tokens it drew itself since it started          *)
(* (OwnTokens), and no token is drawn twice (DistinctDraws).  When a       *)
(* process has at most one enrollment in flight it draws one token in its  *)
(* life (OneDraw), which is what makes fencing permanent.                  *)
(***************************************************************************)
EXTENDS Endpoints, FiniteSetTheorems, TLAPS

\* What a process remembers or is about to remember it drew itself, and never before
\* the draw was counted.
OwnTokens ==
    \A p \in Process :
        /\ drawn[p] \subseteq 1..minted
        /\ enrolling[p] \subseteq drawn[p]
        /\ mine[p] = NoInc \/ mine[p] \in drawn[p]

\* No two processes drew the same token.
DistinctDraws ==
    \A p, q \in Process : p # q => drawn[p] \cap drawn[q] = {}

TokenInv == EndpointTypeOK /\ OwnTokens /\ DistinctDraws

\* Typing of the endpoints module: every reachable table and memory is well formed.
THEOREM EndpointTyping == EndpointSpec => []EndpointTypeOK
<1>1. EndpointInit => EndpointTypeOK
  BY MemberOfAssumption DEF EndpointInit, EndpointTypeOK, NoInc
<1>2. EndpointTypeOK /\ [EndpointNext]_endpointVars => EndpointTypeOK'
  <2> SUFFICES ASSUME EndpointTypeOK, [EndpointNext]_endpointVars
               PROVE  EndpointTypeOK'
    OBVIOUS
  <2> USE MemberOfAssumption DEF EndpointTypeOK
  <2>1. ASSUME NEW p \in Process, Fence(p)
        PROVE  EndpointTypeOK'
    BY <2>1 DEF Fence
  <2>2. ASSUME NEW p \in Process, Enroll(p)
        PROVE  EndpointTypeOK'
    <3>1. EnrollInc(p) \in Nat /\ EnrollGen(p) \in Nat
      BY DEF EnrollInc, EnrollGen, Row
    <3> QED
      BY <2>2, <3>1 DEF Enroll
  <2>3. ASSUME NEW p \in Process, NEW inc \in enrolling[p], Confirm(p, inc)
        PROVE  EndpointTypeOK'
    BY <2>3 DEF Confirm
  <2>4. ASSUME NEW p \in Process, Restart(p)
        PROVE  EndpointTypeOK'
    BY <2>4 DEF Restart, NoInc
  <2>5. CASE UNCHANGED endpointVars
    BY <2>5 DEF endpointVars
  <2> QED
    BY <2>1, <2>2, <2>3, <2>4, <2>5 DEF EndpointNext, ConfirmAny
<1> QED
  BY <1>1, <1>2, PTL DEF EndpointSpec

\* Tokens are never shared: what a process knows it drew itself, whatever the number of
\* enrollments in flight (the draw is secrets.token_hex in enroll).
THEOREM TokensAreOwned == EndpointSpec => []TokenInv
<1>1. EndpointInit => TokenInv
  BY MemberOfAssumption DEF EndpointInit, EndpointTypeOK, NoInc, TokenInv, OwnTokens, DistinctDraws
<1>2. EndpointTypeOK /\ EndpointTypeOK' /\ TokenInv /\ [EndpointNext]_endpointVars => TokenInv'
  <2> SUFFICES ASSUME EndpointTypeOK, EndpointTypeOK', OwnTokens, DistinctDraws,
                      [EndpointNext]_endpointVars
               PROVE  OwnTokens' /\ DistinctDraws'
    BY DEF TokenInv
  <2>1. ASSUME NEW p \in Process, Fence(p)
        PROVE  OwnTokens' /\ DistinctDraws'
    BY <2>1 DEF Fence, OwnTokens, DistinctDraws
  <2>2. ASSUME NEW p \in Process, Enroll(p)
        PROVE  OwnTokens' /\ DistinctDraws'
    <3>1. CASE Renewing(p)
      <4>1. EnrollInc(p) \in drawn[p]
        BY <3>1 DEF EnrollInc, Renewing, OwnTokens
      <4>2. drawn' = drawn /\ minted' = minted
        BY <2>2, <3>1, <4>1 DEF Enroll, EndpointTypeOK
      <4> QED
        BY <2>2, <4>1, <4>2 DEF Enroll, OwnTokens, DistinctDraws, EndpointTypeOK
    <3>2. CASE ~Renewing(p)
      <4>1. EnrollInc(p) = minted + 1 /\ minted' = minted + 1
        BY <2>2, <3>2 DEF Enroll, EnrollInc
      <4>2. \A q \in Process : minted + 1 \notin drawn[q]
        BY DEF OwnTokens, EndpointTypeOK
      <4>3. OwnTokens'
        BY <2>2, <4>1 DEF Enroll, OwnTokens, EndpointTypeOK
      <4>4. DistinctDraws'
        BY <2>2, <4>1, <4>2 DEF Enroll, DistinctDraws, EndpointTypeOK
      <4> QED
        BY <4>3, <4>4
    <3> QED
      BY <3>1, <3>2
  <2>3. ASSUME NEW p \in Process, NEW inc \in enrolling[p], Confirm(p, inc)
        PROVE  OwnTokens' /\ DistinctDraws'
    BY <2>3 DEF Confirm, OwnTokens, DistinctDraws, EndpointTypeOK
  <2>4. ASSUME NEW p \in Process, Restart(p)
        PROVE  OwnTokens' /\ DistinctDraws'
    BY <2>4 DEF Restart, OwnTokens, DistinctDraws, EndpointTypeOK
  <2>5. CASE UNCHANGED endpointVars
    BY <2>5 DEF endpointVars, OwnTokens, DistinctDraws
  <2> QED
    BY <2>1, <2>2, <2>3, <2>4, <2>5 DEF EndpointNext, ConfirmAny
<1> QED
  BY <1>1, <1>2, EndpointTyping, PTL DEF EndpointSpec

\* Fencing: at most one process of a member passes the fence, for any number of
\* processes, restarts and calls in flight (_held).
THEOREM ConsumerIsUnique == EndpointSpec => []AtMostOneConsumer
<1>1. TokenInv => AtMostOneConsumer
  BY DEF TokenInv, EndpointTypeOK, OwnTokens, DistinctDraws, AtMostOneConsumer, Holds,
         IsDisplaced, HasRow, Row
<1> QED
  BY <1>1, TokensAreOwned, PTL

-----------------------------------------------------------------------------
(* One enrollment in flight per process *)

\* A process that serializes its enrollments draws one token in its life; once no call
\* is in flight it remembers it; and the row it wrote is still there.
OneDraw ==
    \A p \in Process :
        /\ IsFiniteSet(enrolling[p])
        /\ \A x, y \in drawn[p] : x = y
        /\ drawn[p] # {} /\ enrolling[p] = {} => mine[p] \in drawn[p]
        /\ drawn[p] # {} => HasRow(p)

SerialInv == TokenInv /\ OneDraw

\* With one call at most, an enrollment starts with none in flight.
LEMMA SerialEnroll ==
  ASSUME MaxCalls = 1, OneDraw, NEW p \in Process, Enroll(p)
  PROVE  enrolling[p] = {}
<1>1. IsFiniteSet(enrolling[p]) /\ Cardinality(enrolling[p]) < 1
  BY DEF OneDraw, Enroll
<1>2. Cardinality(enrolling[p]) \in Nat
  BY <1>1, FS_CardinalityType
<1> QED
  BY <1>1, <1>2, FS_EmptySet

\* So a process that drew its token before can only renew with it.
LEMMA SecondEnrollRenews ==
  ASSUME MaxCalls = 1, SerialInv, NEW p \in Process, Enroll(p), drawn[p] # {}
  PROVE  Renewing(p) /\ EnrollInc(p) \in drawn[p] /\ Row(p).inc \in drawn[p]
<1>1. enrolling[p] = {}
  BY SerialEnroll DEF SerialInv
<1>2. mine[p] \in drawn[p] /\ HasRow(p) /\ mine[p] # NoInc
  BY <1>1 DEF SerialInv, OneDraw, TokenInv, OwnTokens, EndpointTypeOK, NoInc
<1> QED
  BY <1>2 DEF Renewing, EnrollInc, Enroll, IsDisplaced

\* One call in flight, one draw: the invariant that makes fencing permanent.
THEOREM SerialProcessesDrawOnce ==
  ASSUME MaxCalls = 1
  PROVE  EndpointSpec => []SerialInv
<1>1. EndpointInit => OneDraw
  BY FS_EmptySet, MemberOfAssumption DEF EndpointInit, OneDraw
<1>2. TokenInv /\ TokenInv' /\ OneDraw /\ [EndpointNext]_endpointVars => OneDraw'
  <2> SUFFICES ASSUME TokenInv, TokenInv', OneDraw, [EndpointNext]_endpointVars
               PROVE  OneDraw'
    OBVIOUS
  <2> USE MemberOfAssumption
  <2>1. ASSUME NEW p \in Process, Fence(p)
        PROVE  OneDraw'
    BY <2>1 DEF Fence, OneDraw, HasRow, Row
  <2>2. ASSUME NEW p \in Process, Enroll(p)
        PROVE  OneDraw'
    <3>1. EnrollInc(p) # NoInc
      BY DEF EnrollInc, Renewing, TokenInv, EndpointTypeOK, NoInc
    <3>2. \A q \in Process : drawn'[q] # {} => HasRow(q)'
      <4>1. \A q \in Process : HasRow(q) => HasRow(q)'
        BY <2>2, <3>1 DEF Enroll, HasRow, Row, TokenInv, EndpointTypeOK
      <4>2. HasRow(p)'
        BY <2>2, <3>1 DEF Enroll, HasRow, Row, TokenInv, EndpointTypeOK
      <4>3. \A q \in Process : q # p => drawn'[q] = drawn[q]
        BY <2>2 DEF Enroll, TokenInv, EndpointTypeOK
      <4> QED
        BY <4>1, <4>2, <4>3 DEF OneDraw
    <3>3. \A q \in Process : IsFiniteSet(enrolling'[q])
      <4>1. IsFiniteSet(enrolling[p] \cup {EnrollInc(p)})
        BY FS_AddElement DEF OneDraw
      <4> QED
        BY <2>2, <4>1 DEF Enroll, OneDraw, TokenInv, EndpointTypeOK
    <3>4. \A x, y \in drawn'[p] : x = y
      <4>1. CASE drawn[p] # {}
        <5>1. EnrollInc(p) \in drawn[p]
          BY <2>2, <4>1, SecondEnrollRenews DEF SerialInv
        <5> QED
          BY <2>2, <5>1 DEF Enroll, OneDraw, TokenInv, EndpointTypeOK
      <4>2. CASE drawn[p] = {}
        BY <2>2, <4>2 DEF Enroll, TokenInv, EndpointTypeOK
      <4> QED
        BY <4>1, <4>2
    <3>5. \A q \in Process : q # p =>
             enrolling'[q] = enrolling[q] /\ drawn'[q] = drawn[q] /\ mine'[q] = mine[q]
      BY <2>2 DEF Enroll, TokenInv, EndpointTypeOK
    <3>6. enrolling'[p] # {}
      BY <2>2 DEF Enroll, TokenInv, EndpointTypeOK
    <3> QED
      BY <3>2, <3>3, <3>4, <3>5, <3>6 DEF OneDraw
  <2>3. ASSUME NEW p \in Process, NEW inc \in enrolling[p], Confirm(p, inc)
        PROVE  OneDraw'
    <3>1. IsFiniteSet(enrolling[p] \ {inc})
      BY FS_RemoveElement DEF OneDraw
    <3>2. inc \in drawn[p]
      BY <2>3 DEF TokenInv, OwnTokens
    <3> QED
      BY <2>3, <3>1, <3>2 DEF Confirm, OneDraw, TokenInv, EndpointTypeOK, HasRow, Row
  <2>4. ASSUME NEW p \in Process, Restart(p)
        PROVE  OneDraw'
    BY <2>4, FS_EmptySet DEF Restart, OneDraw, TokenInv, EndpointTypeOK, HasRow, Row
  <2>5. CASE UNCHANGED endpointVars
    BY <2>5 DEF endpointVars, OneDraw, HasRow, Row
  <2> QED
    BY <2>1, <2>2, <2>3, <2>4, <2>5 DEF EndpointNext, ConfirmAny
<1> QED
  BY <1>1, <1>2, TokensAreOwned, PTL DEF EndpointSpec, SerialInv

\* No ping-pong: a process that serializes its enrollments never takes its endpoint back
\* once another process took it over (_assert_not_displaced).
THEOREM FencingIsPermanent ==
  ASSUME MaxCalls = 1
  PROVE  EndpointSpec => NoPingPong
<1> DEFINE Stays == \A p \in Process :
              Overtaken(p) /\ drawn[p] \subseteq drawn'[p] => Overtaken(p)'
<1>1. SerialInv /\ SerialInv' /\ [EndpointNext]_endpointVars => [Stays]_endpointVars
  <2> SUFFICES ASSUME SerialInv, SerialInv', EndpointNext, NEW p \in Process,
                      Overtaken(p), drawn[p] \subseteq drawn'[p]
               PROVE  Overtaken(p)'
    OBVIOUS
  <2> USE MemberOfAssumption
  <2>1. ASSUME NEW q \in Process, Fence(q)
        PROVE  Overtaken(p)'
    BY <2>1 DEF Fence, Overtaken, Row
  <2>2. ASSUME NEW q \in Process, Enroll(q)
        PROVE  Overtaken(p)'
    <3>1. q # p
      BY <2>2, SecondEnrollRenews DEF Overtaken
    <3>2. drawn'[p] = drawn[p] /\ EnrollInc(q) \in drawn'[q]
      BY <2>2, <3>1 DEF Enroll, SerialInv, TokenInv, EndpointTypeOK
    <3>3. EnrollInc(q) \notin drawn'[p]
      BY <3>1, <3>2 DEF SerialInv, TokenInv, DistinctDraws
    <3>4. Row(p)'.inc = Row(p).inc \/ Row(p)'.inc = EnrollInc(q)
      BY <2>2 DEF Enroll, Row, SerialInv, TokenInv, EndpointTypeOK
    <3> QED
      BY <3>2, <3>3, <3>4 DEF Overtaken
  <2>3. ASSUME NEW q \in Process, NEW inc \in enrolling[q], Confirm(q, inc)
        PROVE  Overtaken(p)'
    BY <2>3 DEF Confirm, Overtaken, Row
  <2>4. ASSUME NEW q \in Process, Restart(q)
        PROVE  Overtaken(p)'
    BY <2>4 DEF Restart, Overtaken, Row, SerialInv, TokenInv, EndpointTypeOK
  <2> QED
    BY <2>1, <2>2, <2>3, <2>4 DEF EndpointNext, ConfirmAny
<1> QED
  BY <1>1, SerialProcessesDrawOnce, PTL DEF EndpointSpec, NoPingPong

\* A process that serializes its enrollments is fenced only after another process took
\* its endpoint over (the claim of the comment on _DISPLACED, under that condition).
THEOREM FencedByAnother ==
  ASSUME MaxCalls = 1
  PROVE  EndpointSpec => []DisplacedByAnother
<1>1. EndpointInit => DisplacedByAnother
  BY DEF EndpointInit, DisplacedByAnother
<1>2. SerialInv /\ SerialInv' /\ DisplacedByAnother /\ [EndpointNext]_endpointVars
        => DisplacedByAnother'
  <2> SUFFICES ASSUME SerialInv, SerialInv', DisplacedByAnother,
                      [EndpointNext]_endpointVars, NEW p \in displaced'
               PROVE  Row(p)'.inc \notin drawn'[p]
    BY DEF DisplacedByAnother
  <2> USE MemberOfAssumption
  <2>0. p \in Process
    BY DEF SerialInv, TokenInv, EndpointTypeOK
  <2>1. ASSUME NEW q \in Process, Fence(q)
        PROVE  Row(p)'.inc \notin drawn'[p]
    <3>1. CASE p \in displaced
      BY <2>1, <3>1 DEF Fence, DisplacedByAnother, Row
    <3>2. CASE p \notin displaced
      <4>1. p = q /\ mine[p] # NoInc /\ Row(p).inc # mine[p]
        BY <2>1, <3>2 DEF Fence, IsDisplaced
      <4>2. mine[p] \in drawn[p]
        BY <2>0, <4>1 DEF SerialInv, TokenInv, OwnTokens
      <4> QED
        BY <2>0, <2>1, <4>1, <4>2 DEF Fence, Row, SerialInv, OneDraw
    <3> QED
      BY <3>1, <3>2
  <2>2. ASSUME NEW q \in Process, Enroll(q)
        PROVE  Row(p)'.inc \notin drawn'[p]
    <3>1. q # p
      BY <2>2 DEF Enroll, IsDisplaced
    <3>2. drawn'[p] = drawn[p] /\ EnrollInc(q) \in drawn'[q]
      BY <2>0, <2>2, <3>1 DEF Enroll, SerialInv, TokenInv, EndpointTypeOK
    <3>3. EnrollInc(q) \notin drawn'[p]
      BY <2>0, <3>1, <3>2 DEF SerialInv, TokenInv, DistinctDraws
    <3>4. Row(p)'.inc = Row(p).inc \/ Row(p)'.inc = EnrollInc(q)
      BY <2>0, <2>2 DEF Enroll, Row, SerialInv, TokenInv, EndpointTypeOK
    <3>5. p \in displaced
      BY <2>2 DEF Enroll
    <3> QED
      BY <3>2, <3>3, <3>4, <3>5 DEF DisplacedByAnother
  <2>3. ASSUME NEW q \in Process, NEW inc \in enrolling[q], Confirm(q, inc)
        PROVE  Row(p)'.inc \notin drawn'[p]
    BY <2>3 DEF Confirm, DisplacedByAnother, Row
  <2>4. ASSUME NEW q \in Process, Restart(q)
        PROVE  Row(p)'.inc \notin drawn'[p]
    BY <2>0, <2>4 DEF Restart, DisplacedByAnother, Row, SerialInv, TokenInv, EndpointTypeOK
  <2>5. CASE UNCHANGED endpointVars
    BY <2>5 DEF endpointVars, DisplacedByAnother, Row
  <2> QED
    BY <2>1, <2>2, <2>3, <2>4, <2>5 DEF EndpointNext, ConfirmAny
<1> QED
  BY <1>1, <1>2, SerialProcessesDrawOnce, PTL DEF EndpointSpec

-----------------------------------------------------------------------------
(* Refinement *)

\* The holder of a member is the one process that drew the token of its row.
LEMMA HolderIsTheDrawer ==
  ASSUME TokenInv, NEW m \in Member, NEW p \in Process,
         MemberOf[p] = m, endpoint[m].inc \in drawn[p]
  PROVE  HolderOf(m) = p
<1>1. \A q \in Process : endpoint[m].inc \in drawn[q] => q = p
  BY DEF TokenInv, DistinctDraws
<1> QED
  BY <1>1 DEF HolderOf

\* A holder other than Nobody is a process of the member that drew the token.
LEMMA HolderDrew ==
  ASSUME NEW m \in Member, HolderOf(m) # Nobody
  PROVE  /\ HolderOf(m) \in Process
         /\ MemberOf[HolderOf(m)] = m
         /\ endpoint[m].inc \in drawn[HolderOf(m)]
BY DEF HolderOf

\* The endpoint table and the memories implement one exclusive consumer per member, for
\* processes that serialize their enrollments: an enrollment takes the member, a restart
\* resets its process, everything else is invisible.
THEOREM EndpointsImplementExclusiveConsumer ==
  ASSUME MaxCalls = 1
  PROVE  EndpointSpec => ImplementsExclusiveConsumer
<1>1. EndpointInit => Consumer!Init
  BY DEF EndpointInit, Consumer!Init, HolderOf, Overtaken
<1>2. SerialInv /\ SerialInv' /\ [EndpointNext]_endpointVars => [Consumer!Next]_(Consumer!vars)
  <2> SUFFICES ASSUME SerialInv, SerialInv', [EndpointNext]_endpointVars
               PROVE  [Consumer!Next]_(Consumer!vars)
    OBVIOUS
  <2> USE MemberOfAssumption, NobodyAssumption
  <2>a. TokenInv /\ TokenInv' /\ EndpointTypeOK
    BY DEF SerialInv, TokenInv
  <2>0. ASSUME endpoint' = endpoint, drawn' = drawn
        PROVE  UNCHANGED Consumer!vars
    BY <2>0 DEF Consumer!vars, HolderOf, Overtaken, Row
  <2>1. ASSUME NEW p \in Process, Fence(p)
        PROVE  UNCHANGED Consumer!vars
    BY <2>0, <2>1 DEF Fence
  <2>2. ASSUME NEW p \in Process, Enroll(p)
        PROVE  Consumer!Take(p)
    <3> DEFINE M == MemberOf[p]
    <3>1. /\ endpoint'[M].inc = EnrollInc(p)
          /\ EnrollInc(p) \in drawn'[p]
          /\ \A m \in Member : m # M => endpoint'[m] = endpoint[m]
          /\ \A q \in Process : q # p => drawn'[q] = drawn[q]
      BY <2>2, <2>a DEF Enroll, EndpointTypeOK
    <3>2. ~Overtaken(p)
      BY <2>2, SecondEnrollRenews DEF Overtaken
    <3>3. HolderOf(M)' = p
      BY <2>a, <3>1 DEF HolderOf, TokenInv, DistinctDraws
    <3>4. ASSUME NEW m \in Member, m # M
          PROVE  HolderOf(m)' = HolderOf(m)
      BY <3>1, <3>4 DEF HolderOf
    <3>5. \A q \in Process : Overtaken(q)' <=> Overtaken(q) \/ (q = HolderOf(M) /\ q # p)
      <4> SUFFICES ASSUME NEW q \in Process
                   PROVE  Overtaken(q)' <=> Overtaken(q) \/ (q = HolderOf(M) /\ q # p)
        OBVIOUS
      <4>1. CASE q = p
        BY <3>1, <3>2, <4>1 DEF Overtaken, Row
      <4>2. CASE q # p /\ MemberOf[q] = M
        <5>1. EnrollInc(p) \notin drawn'[q]
          BY <2>a, <3>1, <4>2 DEF TokenInv, DistinctDraws
        <5>2. Overtaken(q)' <=> drawn[q] # {}
          BY <3>1, <4>2, <5>1 DEF Overtaken, Row
        <5>3. q = HolderOf(M) <=> endpoint[M].inc \in drawn[q]
          BY <2>a, <4>2, HolderIsTheDrawer, HolderDrew
        <5>4. Overtaken(q) <=> drawn[q] # {} /\ endpoint[M].inc \notin drawn[q]
          BY <4>2 DEF Overtaken, Row
        <5> QED
          BY <4>2, <5>2, <5>3, <5>4
      <4>3. CASE q # p /\ MemberOf[q] # M
        <5>1. q # HolderOf(M)
          BY <4>3, HolderDrew
        <5>2. Overtaken(q)' <=> Overtaken(q)
          BY <3>1, <4>3 DEF Overtaken, Row
        <5> QED
          BY <5>1, <5>2
      <4> QED
        BY <4>1, <4>2, <4>3
    <3>6. HolderOf(M) = Nobody \/ HolderOf(M) \in Process
      BY HolderDrew
    <3> QED
      BY <3>2, <3>3, <3>4, <3>5, <3>6 DEF Consumer!Take
  <2>3. ASSUME NEW p \in Process, NEW inc \in enrolling[p], Confirm(p, inc)
        PROVE  UNCHANGED Consumer!vars
    BY <2>0, <2>3 DEF Confirm
  <2>4. ASSUME NEW p \in Process, Restart(p)
        PROVE  Consumer!Reset(p)
    <3>1. /\ endpoint' = endpoint
          /\ drawn'[p] = {}
          /\ \A q \in Process : q # p => drawn'[q] = drawn[q]
      BY <2>4, <2>a DEF Restart, EndpointTypeOK
    <3>2. ASSUME NEW m \in Member
          PROVE  HolderOf(m)' = IF HolderOf(m) = p THEN Nobody ELSE HolderOf(m)
      <4>1. CASE HolderOf(m) = p
        <5>1. \A q \in Process : endpoint[m].inc \in drawn[q] => q = p
          BY <2>a, <4>1, HolderDrew DEF TokenInv, DistinctDraws
        <5> QED
          BY <3>1, <4>1, <5>1 DEF HolderOf
      <4>2. CASE HolderOf(m) # p
        <5>1. ~(MemberOf[p] = m /\ endpoint[m].inc \in drawn[p])
          BY <2>a, <4>2, HolderIsTheDrawer
        <5> QED
          BY <3>1, <4>2, <5>1 DEF HolderOf
      <4> QED
        BY <4>1, <4>2
    <3>3. \A q \in Process : Overtaken(q)' <=> Overtaken(q) /\ q # p
      BY <3>1 DEF Overtaken, Row
    <3> QED
      BY <3>2, <3>3 DEF Consumer!Reset
  <2>5. CASE UNCHANGED endpointVars
    BY <2>0, <2>5 DEF endpointVars
  <2> QED
    BY <2>1, <2>2, <2>3, <2>4, <2>5 DEF EndpointNext, ConfirmAny, Consumer!Next
<1> QED
  BY <1>1, <1>2, SerialProcessesDrawOnce, PTL DEF EndpointSpec, Consumer!Spec, ImplementsExclusiveConsumer

================================================================================
