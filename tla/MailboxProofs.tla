----------------------------- MODULE MailboxProofs -----------------------------
(***************************************************************************)
(* Proofs about Mailbox, for any formation, processes, limits and clocks.  *)
(* First the composition: a mailbox behaves on the endpoint variables as   *)
(* Endpoints does, so what EndpointsProofs shows holds of it.  Then typing.*)
(* Then the row invariant: one predicate on a row, its facts and its       *)
(* pointer that the sweep preserves up to the new group clock and that     *)
(* every operation preserves message by message.                           *)
(***************************************************************************)
EXTENDS Mailbox, EndpointsProofs

-----------------------------------------------------------------------------
(* Composition *)

\* Every transaction is, for the endpoints, one of their operations or none.
LEMMA OperationOnEndpoints ==
  ASSUME NEW p \in Process, NEW s, Operation(p, s)
  PROVE  Fence(p) \/ Enroll(p) \/ UNCHANGED endpointVars
BY DEF Operation, Observe, FencedCall, EnrollCall, Send, Notify, Admit, Fetch, Ack, Accept, Report, Complete, Quiet

\* The composed mailbox drives the endpoints only through their own operations.
THEOREM MailboxUsesEndpoints == Spec => EndpointSpec
<1>1. Init => EndpointInit
  BY DEF Init
<1>2. [Next]_vars => [EndpointNext]_endpointVars
  <2> SUFFICES ASSUME [Next]_vars
               PROVE  [EndpointNext]_endpointVars
    OBVIOUS
  <2>1. ASSUME NEW p \in Process, ProcessStep(p)
        PROVE  EndpointNext
    BY <2>1 DEF ProcessStep, ConfirmCall, RestartCall, EndpointNext
  <2>2. ASSUME NEW p \in Process, NEW s \in seen[p], Operation(p, s)
        PROVE  [EndpointNext]_endpointVars
    BY <2>2, OperationOnEndpoints DEF EndpointNext
  <2>3. ASSUME Environment
        PROVE  UNCHANGED endpointVars
    BY <2>3 DEF Environment, Advance, Tick, StepBack
  <2>4. CASE UNCHANGED vars
    BY <2>4 DEF vars
  <2> QED
    BY <2>1, <2>2, <2>3, <2>4 DEF Next
<1> QED
  BY <1>1, <1>2, PTL DEF Spec, EndpointSpec

\* At most one process consumes a member's messages in the composed mailbox.
THEOREM MailboxConsumerIsUnique == Spec => []AtMostOneConsumer
BY MailboxUsesEndpoints, ConsumerIsUnique, PTL

-----------------------------------------------------------------------------
(* Admissions: a send and a notify both admit a batch *)

\* New messages of one request of p, each for one member and no two for the same; more
\* than one only when they are shards.
IsBatch(p, k, to) ==
    /\ DOMAIN to \in SUBSET Msg
    /\ IsFiniteSet(DOMAIN to)
    /\ \A m \in DOMAIN to :
          Request(m) = <<MemberOf[p], k>> /\ Sender(m) = MemberOf[p] /\ to[m] \in Member
    /\ \A m, n \in DOMAIN to : m # n => to[m] # to[n] /\ Shard(m) # Nobody

Admission(p, s) ==
    \E k \in Key, kind \in Kind : \E to : IsBatch(p, k, to) /\ Admit(p, s, k, to, kind)

LEMMA SendAdmits ==
  ASSUME NEW p \in Process, NEW s, NEW k \in Key, NEW to \in Member, NEW kind \in Kind,
         Send(p, s, k, to, kind)
  PROVE  Admission(p, s)
<1> DEFINE m == <<MemberOf[p], k, Nobody>>
           batch == [x \in {m} |-> to]
<1>1. m \in Msg /\ Request(m) = <<MemberOf[p], k>> /\ Sender(m) = MemberOf[p]
  BY DEF Msg, Send, Request, Sender
<1>2. IsBatch(p, k, batch)
  BY <1>1, FS_Singleton DEF IsBatch
<1>3. Admit(p, s, k, batch, kind)
  BY DEF Send
<1> QED
  BY <1>2, <1>3 DEF Admission

LEMMA NotifyAdmits ==
  ASSUME NEW p \in Process, NEW s, NEW k \in Key, NEW owners \in SUBSET Member,
         NEW kind \in Kind, Notify(p, s, k, owners, kind)
  PROVE  Admission(p, s)
<1> DEFINE shards == {<<MemberOf[p], k, o>> : o \in owners}
           batch == [x \in shards |-> Shard(x)]
<1>1. MemberOf[p] \in Senders /\ MemberOf[p] \notin owners /\ MaxRecipients > 0
  <2>1. Cardinality(owners) \in 1..MaxRecipients
    BY DEF Notify
  <2> QED
    BY <2>1, MailboxAssumption DEF Notify
<1>2. \A x \in shards : /\ x \in Msg
                        /\ Request(x) = <<MemberOf[p], k>>
                        /\ Sender(x) = MemberOf[p]
                        /\ Shard(x) \in owners
                        /\ x = <<MemberOf[p], k, Shard(x)>>
  BY <1>1 DEF Msg, Request, Sender, Shard
<1>3. IsFiniteSet(shards)
  <2>1. batch \in [shards -> Member]
    <3>1. \A x \in shards : Shard(x) \in Member
      BY <1>2
    <3> HIDE DEF shards
    <3> QED
      BY <3>1
  <2>2. \A x, y \in shards : batch[x] = batch[y] => x = y
    <3>1. \A x, y \in shards : Shard(x) = Shard(y) => x = y
      BY <1>2
    <3> HIDE DEF shards
    <3> QED
      BY <3>1
  <2>3. batch \in Injection(shards, Member)
    <3> HIDE DEF batch, shards
    <3> QED
      BY <2>1, <2>2 DEF Injection, IsInjective
  <2> QED
    BY <2>3, MailboxAssumption, FS_Injection
<1>4. \A x, y \in shards : x # y => Shard(x) # Shard(y) /\ Shard(x) # Nobody
  BY <1>2, MailboxAssumption
<1>5. IsBatch(p, k, batch)
  BY <1>2, <1>3, <1>4 DEF IsBatch
<1>6. Admit(p, s, k, batch, kind)
  BY DEF Notify
<1> QED
  BY <1>5, <1>6 DEF Admission

\* Every operation is an admission or one of the others.
LEMMA OperationKinds ==
  ASSUME NEW p \in Process, NEW s, Operation(p, s)
  PROVE  \/ Observe(p, s) \/ FencedCall(p, s) \/ EnrollCall(p, s)
         \/ Admission(p, s)
         \/ \E after, n : Fetch(p, s, after, n)
         \/ \E ids : Ack(p, s, ids) \/ Accept(p, s, ids) \/ Complete(p, s, ids)
         \/ \E m \in Msg, pointer \in Pointer : Report(p, s, m, pointer)
BY SendAdmits, NotifyAdmits DEF Operation

-----------------------------------------------------------------------------
(* Typing *)

LEMMA ClockType ==
  ASSUME MailboxTypeOK
  PROVE  Now \in Nat \ {0} /\ group.time <= Now /\ wall <= Now
BY DEF MailboxTypeOK, Now

LEMMA TouchedType ==
  ASSUME MailboxTypeOK, NEW s
  PROVE  /\ Touched(s) \in [time : Nat, closed : BOOLEAN, charge : Nat]
         /\ Touched(s).time = Now
         /\ Touched(s).closed <=> group.closed \/ AllTerminal(s)
         /\ Touched(s).charge = group.charge
<1>1. Now \in Nat
  BY ClockType
<1>2. AllTerminal(s) \in BOOLEAN
  BY DEF AllTerminal
<1> QED
  BY <1>1, <1>2 DEF MailboxTypeOK, Touched

LEMMA SweptType ==
  ASSUME MailboxTypeOK, NEW s
  PROVE  /\ Swept(s) \in [Msg -> Rows]
         /\ SweptFacts(s) \in [Msg -> [Fact -> Nat]]
<1>1. Now \in Nat
  BY ClockType
<1>2. \A m \in Msg : Expired(s, m) \in Rows
  BY DEF MailboxTypeOK, Expired, Rows
<1>3. \A m \in Msg : [Expired(s, m) EXCEPT !.body = FALSE] \in Rows
  BY <1>2 DEF Rows
<1>4. Swept(s) \in [Msg -> Rows]
  BY <1>2, <1>3 DEF Swept
<1>5. SweptFacts(s) \in [Msg -> [Fact -> Nat]]
  BY <1>1 DEF MailboxTypeOK, SweptFacts
<1> QED
  BY <1>4, <1>5

LEMMA RecordedType ==
  ASSUME MailboxTypeOK, NEW facts \in [Msg -> [Fact -> Nat]], NEW ids, NEW f
  PROVE  Recorded(facts, ids, f) \in [Msg -> [Fact -> Nat]]
BY ClockType DEF Recorded

LEMMA AckedType ==
  ASSUME MailboxTypeOK, NEW rows \in [Msg -> Rows],
         NEW facts \in [Msg -> [Fact -> Nat]], NEW ids
  PROVE  /\ Acked(rows, ids) \in [Msg -> Rows]
         /\ AckedFacts(rows, facts, ids) \in [Msg -> [Fact -> Nat]]
<1>1. Acked(rows, ids) \in [Msg -> Rows]
  BY DEF Acked, Rows
<1>2. AckedFacts(rows, facts, ids) \in [Msg -> [Fact -> Nat]]
  BY ClockType DEF AckedFacts
<1> QED
  BY <1>1, <1>2

LEMMA PreparedType ==
  ASSUME NEW row \in Rows, NEW inc \in Nat
  PROVE  Prepared(row, inc) \in Rows
<1>1. row.deliveries + 1 \in Nat
  BY DEF Rows
<1> QED
  BY <1>1 DEF Prepared, Rows

\* What a transaction leaves of the clock, the roster and the endpoints keeps its type.
LEMMA OutsideType ==
  ASSUME MailboxTypeOK, NEW p \in Process, NEW s, Operation(p, s), EndpointTypeOK'
  PROVE  /\ roster' \in Roster
         /\ seen' \in [Process -> SUBSET Roster]
         /\ wall' \in Nat \ {0}
<1>1. UNCHANGED <<roster, seen, wall>>
  BY DEF Operation, Observe, FencedCall, EnrollCall, Send, Notify, Admit, Fetch, Ack, Accept, Report, Complete, Quiet
<1> QED
  BY <1>1 DEF MailboxTypeOK

\* The tables of the mailbox keep their type over every transaction.
LEMMA TablesType ==
  ASSUME MailboxTypeOK, NEW p \in Process, NEW s \in Roster, Operation(p, s)
  PROVE  /\ group' \in [time : Nat, closed : BOOLEAN, charge : Nat]
         /\ admissions' \in [Msg -> Rows]
         /\ milestones' \in [Msg -> [Fact -> Nat]]
         /\ report' \in [Msg -> Pointer \cup {NoPointer}]
         /\ fetchers' \in [Msg -> SUBSET Nat]
<1> DEFINE Goal ==
       /\ group' \in [time : Nat, closed : BOOLEAN, charge : Nat]
       /\ admissions' \in [Msg -> Rows]
       /\ milestones' \in [Msg -> [Fact -> Nat]]
       /\ report' \in [Msg -> Pointer \cup {NoPointer}]
       /\ fetchers' \in [Msg -> SUBSET Nat]
<1>1. /\ Swept(s) \in [Msg -> Rows]
      /\ SweptFacts(s) \in [Msg -> [Fact -> Nat]]
      /\ Touched(s) \in [time : Nat, closed : BOOLEAN, charge : Nat]
      /\ report \in [Msg -> Pointer \cup {NoPointer}]
      /\ fetchers \in [Msg -> SUBSET Nat]
      /\ Now \in Nat
      /\ mine[p] \in Nat
      /\ group.charge \in Nat
  BY SweptType, TouchedType, ClockType DEF MailboxTypeOK, EndpointTypeOK
<1>2. ASSUME admissions' = Swept(s), milestones' = SweptFacts(s), group' = Touched(s),
             UNCHANGED <<report, fetchers>>
      PROVE  Goal
  BY <1>1, <1>2
<1>3. CASE Observe(p, s) \/ FencedCall(p, s) \/ EnrollCall(p, s)
  BY <1>2, <1>3 DEF Observe, FencedCall, EnrollCall
<1>4. ASSUME NEW k \in Key, NEW kind \in Kind, NEW to, IsBatch(p, k, to), Admit(p, s, k, to, kind)
      PROVE  Goal
  <2>1. \A m \in DOMAIN to : NewRow(to[m], kind, group.charge + 1) \in Rows
    BY <1>1, <1>4 DEF IsBatch, NewRow, Rows, NoInc
  <2>2. admissions' \in [Msg -> Rows]
    BY <1>1, <1>4, <2>1 DEF Admit
  <2>3. milestones' \in [Msg -> [Fact -> Nat]]
    BY <1>1, <1>4 DEF Admit
  <2>4. group' \in [time : Nat, closed : BOOLEAN, charge : Nat]
    <3>1. Cardinality(DOMAIN to) \in Nat
      BY <1>4, FS_CardinalityType DEF IsBatch
    <3> QED
      BY <1>1, <1>4, <3>1 DEF Admit
  <2> QED
    BY <1>1, <1>4, <2>2, <2>3, <2>4 DEF Admit
<1>5. ASSUME NEW after, NEW n, Fetch(p, s, after, n)
      PROVE  Goal
  <2>1. \A m \in Msg : Prepared(Swept(s)[m], mine[p]) \in Rows
    BY <1>1, PreparedType
  <2>2. admissions' \in [Msg -> Rows]
    BY <1>1, <1>5, <2>1 DEF Fetch
  <2>3. milestones' \in [Msg -> [Fact -> Nat]]
    BY <1>1, <1>5 DEF Fetch
  <2>4. fetchers' \in [Msg -> SUBSET Nat]
    BY <1>1, <1>5 DEF Fetch
  <2> QED
    BY <1>1, <1>5, <2>2, <2>3, <2>4 DEF Fetch
<1>6. ASSUME NEW ids, Ack(p, s, ids)
      PROVE  Goal
  BY <1>1, <1>6, AckedType DEF Ack
<1>7. ASSUME NEW ids, Accept(p, s, ids)
      PROVE  Goal
  BY <1>1, <1>7, AckedType, RecordedType DEF Accept
<1>8. ASSUME NEW ids, Complete(p, s, ids)
      PROVE  Goal
  BY <1>1, <1>8, RecordedType DEF Complete
<1>9. ASSUME NEW m \in Msg, NEW pointer \in Pointer, Report(p, s, m, pointer)
      PROVE  Goal
  BY <1>1, <1>9, RecordedType DEF Report
<1> QED
  BY <1>3, <1>4, <1>5, <1>6, <1>7, <1>8, <1>9, SendAdmits, NotifyAdmits DEF Operation, Admission

\* Typing of the composed mailbox: every reachable table, memory and clock is well formed.
THEOREM MailboxTyping == Spec => []MailboxTypeOK
<1>1. Init => MailboxTypeOK
  <2> SUFFICES ASSUME Init PROVE MailboxTypeOK
    OBVIOUS
  <2>1. EndpointTypeOK
    BY MemberOfAssumption DEF Init, EndpointInit, EndpointTypeOK, NoInc
  <2>2. Absent \in Rows
    BY DEF Absent, Rows, NoInc
  <2> QED
    BY <2>1, <2>2, MailboxAssumption DEF Init, MailboxTypeOK
<1>2. MailboxTypeOK /\ EndpointTypeOK' /\ [Next]_vars => MailboxTypeOK'
  <2> SUFFICES ASSUME MailboxTypeOK, EndpointTypeOK', [Next]_vars
               PROVE  MailboxTypeOK'
    OBVIOUS
  <2>1. ASSUME NEW p \in Process, ProcessStep(p)
        PROVE  MailboxTypeOK'
    <3>1. UNCHANGED <<roster, wall, group, admissions, milestones, report, fetchers>>
      BY <2>1 DEF ProcessStep, ConfirmCall, RestartCall, mailVars
    <3>2. CASE ConfirmCall(p)
      BY <3>1, <3>2 DEF ConfirmCall, MailboxTypeOK
    <3>3. CASE RestartCall(p)
      <4>1. seen' \in [Process -> SUBSET Roster]
        BY <3>3 DEF RestartCall, MailboxTypeOK
      <4> QED
        BY <3>1, <4>1 DEF MailboxTypeOK
    <3> QED
      BY <2>1, <3>2, <3>3 DEF ProcessStep
  <2>2. ASSUME NEW p \in Process, NEW s \in seen[p], Operation(p, s)
        PROVE  MailboxTypeOK'
    <3>1. s \in Roster
      BY DEF MailboxTypeOK
    <3> QED
      BY <2>2, <3>1, OutsideType, TablesType DEF MailboxTypeOK
  <2>3. ASSUME NEW m \in Member, NEW status \in Status, Advance(m, status)
        PROVE  MailboxTypeOK'
    <3>1. roster' \in Roster
      BY <2>3 DEF Advance, MailboxTypeOK, Roster
    <3>2. seen' \in [Process -> SUBSET Roster]
      BY <2>3, <3>1 DEF Advance, MailboxTypeOK
    <3>3. UNCHANGED <<wall, group, admissions, milestones, report, fetchers>>
      BY <2>3 DEF Advance, mailVars
    <3> QED
      BY <3>1, <3>2, <3>3 DEF MailboxTypeOK
  <2>4. CASE Tick
    BY <2>4 DEF Tick, MailboxTypeOK, mailVars
  <2>5. ASSUME NEW t \in 1..MaxTime, StepBack(t)
        PROVE  MailboxTypeOK'
    BY <2>5 DEF StepBack, MailboxTypeOK, mailVars
  <2>6. CASE UNCHANGED vars
    BY <2>6 DEF vars, MailboxTypeOK
  <2> QED
    BY <2>1, <2>2, <2>3, <2>4, <2>5, <2>6 DEF Next, Environment
<1>3. Spec => []EndpointTypeOK
  BY MailboxUsesEndpoints, EndpointTyping, PTL
<1> QED
  BY <1>1, <1>2, <1>3, PTL DEF Spec

-----------------------------------------------------------------------------
(* The row invariant *)

\* What _schema.verify demands of one row, its facts and its pointer at group time t.
AdmittedFirst(row, facts, t) ==
    /\ row.state # "absent" <=> facts["admitted"] # 0
    /\ \A f \in Fact : facts[f] # 0 =>
          row.state # "absent" /\ facts["admitted"] <= facts[f] /\ facts[f] <= t

SettledOnce(row, facts) ==
    \A f \in {"acked", "expired"} :
        /\ facts[f] # 0 <=> row.state = f
        /\ facts[f] # 0 => facts["fetch_prepared"] <= facts[f]

Follows(row, facts, f, g) ==
    facts[g] # 0 => row.kind = "request" /\ facts[f] # 0 /\ facts[f] <= facts[g]

HandedOver(row, facts, pointer) ==
    /\ Follows(row, facts, "acked", "accepted")
    /\ Follows(row, facts, "accepted", "reported")
    /\ Follows(row, facts, "reported", "completed")
    /\ pointer # NoPointer <=> facts["reported"] # 0

BodyKept(row, facts, t) ==
    row.state # "absent" /\ ~row.body =>
        row.state # "pending" /\ facts["admitted"] + Ttl + Grace <= t

Addressed(row) ==
    IF row.state = "absent" THEN row.kind = "none" ELSE row.to \in Member

RowOK(row, facts, pointer, t) ==
    /\ AdmittedFirst(row, facts, t)
    /\ SettledOnce(row, facts)
    /\ HandedOver(row, facts, pointer)
    /\ BodyKept(row, facts, t)
    /\ Addressed(row)

RowInv ==
    \A m \in Msg : RowOK(admissions[m], milestones[m], report[m], group.time)

\* A good row stays good as the group clock advances, and so does each change an
\* operation makes of it at the new time.
LEMMA RowLater ==
  ASSUME NEW row \in Rows, NEW facts \in [Fact -> Nat], NEW pointer,
         NEW t \in Nat, NEW u \in Nat, t <= u, RowOK(row, facts, pointer, t)
  PROVE  RowOK(row, facts, pointer, u)
BY MailboxAssumption
   DEF RowOK, AdmittedFirst, SettledOnce, HandedOver, Follows, BodyKept, Addressed, Fact, Rows

LEMMA RowSettles ==
  ASSUME NEW row \in Rows, NEW facts \in [Fact -> Nat], NEW pointer, NEW t \in Nat \ {0},
         RowOK(row, facts, pointer, t), row.state = "pending", NEW end \in {"acked", "expired"}
  PROVE  RowOK([row EXCEPT !.state = end], [facts EXCEPT ![end] = t], pointer, t)
BY MailboxAssumption
   DEF RowOK, AdmittedFirst, SettledOnce, HandedOver, Follows, BodyKept, Addressed, Fact, Rows

LEMMA RowForgetsBody ==
  ASSUME NEW row \in Rows, NEW facts \in [Fact -> Nat], NEW pointer, NEW t \in Nat,
         RowOK(row, facts, pointer, t), row.state # "pending",
         facts["admitted"] + Ttl + Grace <= t
  PROVE  RowOK([row EXCEPT !.body = FALSE], facts, pointer, t)
BY MailboxAssumption
   DEF RowOK, AdmittedFirst, SettledOnce, HandedOver, Follows, BodyKept, Addressed, Fact, Rows

LEMMA RowPrepares ==
  ASSUME NEW row \in Rows, NEW facts \in [Fact -> Nat], NEW pointer, NEW t \in Nat \ {0},
         RowOK(row, facts, pointer, t), row.state = "pending", NEW inc \in Nat
  PROVE  /\ RowOK(Prepared(row, inc), facts, pointer, t)
         /\ RowOK(Prepared(row, inc), [facts EXCEPT !["fetch_prepared"] = t], pointer, t)
BY MailboxAssumption
   DEF RowOK, AdmittedFirst, SettledOnce, HandedOver, Follows, BodyKept, Addressed, Fact, Rows,
       Prepared

LEMMA RowAccepts ==
  ASSUME NEW row \in Rows, NEW facts \in [Fact -> Nat], NEW pointer, NEW t \in Nat \ {0},
         RowOK(row, facts, pointer, t), row.kind = "request", row.state = "acked",
         facts["accepted"] = 0
  PROVE  RowOK(row, [facts EXCEPT !["accepted"] = t], pointer, t)
BY MailboxAssumption
   DEF RowOK, AdmittedFirst, SettledOnce, HandedOver, Follows, BodyKept, Addressed, Fact, Rows

LEMMA RowReports ==
  ASSUME NEW row \in Rows, NEW facts \in [Fact -> Nat], NEW pointer, NEW t \in Nat \ {0},
         RowOK(row, facts, pointer, t), row.kind = "request", facts["accepted"] # 0,
         facts["reported"] = 0, NEW answer, answer # NoPointer
  PROVE  RowOK(row, [facts EXCEPT !["reported"] = t], answer, t)
BY MailboxAssumption
   DEF RowOK, AdmittedFirst, SettledOnce, HandedOver, Follows, BodyKept, Addressed, Fact, Rows

LEMMA RowCompletes ==
  ASSUME NEW row \in Rows, NEW facts \in [Fact -> Nat], NEW pointer, NEW t \in Nat \ {0},
         RowOK(row, facts, pointer, t), row.kind = "request", facts["reported"] # 0,
         facts["completed"] = 0
  PROVE  RowOK(row, [facts EXCEPT !["completed"] = t], pointer, t)
BY MailboxAssumption
   DEF RowOK, AdmittedFirst, SettledOnce, HandedOver, Follows, BodyKept, Addressed, Fact, Rows

\* The sweep of a transaction brings every row to the new group time in good state.
LEMMA RowSwept ==
  ASSUME MailboxTypeOK, NEW s, NEW m \in Msg,
         RowOK(admissions[m], milestones[m], report[m], group.time)
  PROVE  RowOK(Swept(s)[m], SweptFacts(s)[m], report[m], Now)
<1>1. /\ admissions[m] \in Rows
      /\ milestones[m] \in [Fact -> Nat]
      /\ group.time \in Nat
      /\ Now \in Nat \ {0}
      /\ group.time <= Now
  BY ClockType DEF MailboxTypeOK
<1>2. RowOK(admissions[m], milestones[m], report[m], Now)
  BY <1>1, RowLater
<1>3. SweptFacts(s)[m]["admitted"] = milestones[m]["admitted"]
  BY <1>1 DEF SweptFacts, Fact
<1>4. RowOK(Expired(s, m), SweptFacts(s)[m], report[m], Now)
  <2>1. CASE Due(s, m)
    <3>1. RowOK([admissions[m] EXCEPT !.state = "expired"],
                [milestones[m] EXCEPT !["expired"] = Now], report[m], Now)
      BY <1>1, <1>2, <2>1, RowSettles DEF Due
    <3> QED
      BY <2>1, <3>1 DEF Expired, SweptFacts
  <2>2. CASE ~Due(s, m)
    BY <1>2, <2>2 DEF Expired, SweptFacts
  <2> QED
    BY <2>1, <2>2
<1>5. Expired(s, m) \in Rows
  BY <1>1 DEF Expired, Rows
<1>6. CASE Tombstoned(m, Expired(s, m))
  <2>1. Expired(s, m).state # "pending"
    BY <1>6 DEF Tombstoned
  <2>2. SweptFacts(s)[m]["admitted"] + Ttl + Grace <= Now
    BY <1>3, <1>6 DEF Tombstoned, ExpiresAt
  <2>3. SweptFacts(s)[m] \in [Fact -> Nat]
    BY SweptType
  <2>4. RowOK([Expired(s, m) EXCEPT !.body = FALSE], SweptFacts(s)[m], report[m], Now)
    BY <1>1, <1>4, <1>5, <2>1, <2>2, <2>3, RowForgetsBody
  <2> QED
    BY <1>6, <2>4 DEF Swept
<1>7. CASE ~Tombstoned(m, Expired(s, m))
  BY <1>4, <1>7 DEF Swept
<1> QED
  BY <1>6, <1>7

\* Acknowledging a batch keeps every row good, and the accepted batch is acked.
LEMMA RowAcked ==
  ASSUME MailboxTypeOK, NEW s, NEW ids, NEW m \in Msg,
         RowOK(Swept(s)[m], SweptFacts(s)[m], report[m], Now)
  PROVE  /\ RowOK(Acked(Swept(s), ids)[m],
                  AckedFacts(Swept(s), SweptFacts(s), ids)[m], report[m], Now)
         /\ Acked(Swept(s), ids)[m].kind = Swept(s)[m].kind
         /\ m \in ids /\ Swept(s)[m].state = "pending" => Acked(Swept(s), ids)[m].state = "acked"
         /\ Swept(s)[m].state # "pending" => Acked(Swept(s), ids)[m].state = Swept(s)[m].state
<1>1. Swept(s)[m] \in Rows /\ SweptFacts(s)[m] \in [Fact -> Nat] /\ Now \in Nat \ {0}
  BY SweptType, ClockType
<1>2. CASE m \in ids /\ Swept(s)[m].state = "pending"
  <2>1. RowOK([Swept(s)[m] EXCEPT !.state = "acked"],
              [SweptFacts(s)[m] EXCEPT !["acked"] = Now], report[m], Now)
    BY <1>1, <1>2, RowSettles
  <2> QED
    BY <1>1, <1>2, <2>1 DEF Acked, AckedFacts, Rows
<1>3. CASE ~(m \in ids /\ Swept(s)[m].state = "pending")
  BY <1>3 DEF Acked, AckedFacts
<1> QED
  BY <1>2, <1>3

\* Every transaction leaves every row in good state at the new group time.
LEMMA RowStep ==
  ASSUME MailboxTypeOK, RowInv, NEW p \in Process, NEW s \in Roster, Operation(p, s)
  PROVE  RowInv'
<1> SUFFICES ASSUME NEW m \in Msg
             PROVE  RowOK(admissions'[m], milestones'[m], report'[m], Now) /\ group'.time = Now
  BY DEF RowInv, RowOK, AdmittedFirst, SettledOnce, HandedOver, Follows, BodyKept, Addressed
<1> DEFINE Good == RowOK(admissions'[m], milestones'[m], report'[m], Now)
<1>1. RowOK(Swept(s)[m], SweptFacts(s)[m], report[m], Now)
  BY RowSwept DEF RowInv
<1>2. /\ Swept(s)[m] \in Rows
      /\ SweptFacts(s)[m] \in [Fact -> Nat]
      /\ Now \in Nat \ {0}
      /\ Touched(s).time = Now
      /\ Touched(s) \in [time : Nat, closed : BOOLEAN, charge : Nat]
      /\ MemberOf[p] \in Member
      /\ mine[p] \in Nat
      /\ report \in [Msg -> Pointer \cup {NoPointer}]
  BY SweptType, ClockType, TouchedType, MemberOfAssumption DEF MailboxTypeOK, EndpointTypeOK
<1>3. group'.time = Now
  <2>1. \E n : group' = Touched(s) \/ group' = [Touched(s) EXCEPT !.charge = @ + n]
    BY DEF Operation, Observe, FencedCall, EnrollCall, Send, Notify, Admit, Fetch, Ack, Accept, Report, Complete
  <2> QED
    BY <1>2, <2>1
<1>4. CASE Observe(p, s) \/ FencedCall(p, s) \/ EnrollCall(p, s)
  BY <1>1, <1>3, <1>4 DEF Observe, FencedCall, EnrollCall
<1>5. ASSUME NEW k \in Key, NEW kind \in Kind, NEW to, IsBatch(p, k, to), Admit(p, s, k, to, kind)
      PROVE  Good
  <2>1. CASE m \in DOMAIN to
    <3>1. /\ admissions'[m] = NewRow(to[m], kind, group.charge + 1)
          /\ milestones'[m] = [SweptFacts(s)[m] EXCEPT !["admitted"] = Now]
          /\ report'[m] = report[m]
          /\ Swept(s)[m].state = "absent"
          /\ to[m] \in Member
      BY <1>5, <2>1 DEF Admit, IsBatch, Unused
    <3>2. /\ \A f \in Fact : SweptFacts(s)[m][f] = 0
          /\ report[m] = NoPointer
      BY <1>1, <3>1 DEF RowOK, AdmittedFirst, HandedOver, Fact
    <3> QED
      BY <1>2, <3>1, <3>2
         DEF NewRow, RowOK, AdmittedFirst, SettledOnce, HandedOver, Follows, BodyKept, Addressed, Fact
  <2>2. CASE m \notin DOMAIN to
    BY <1>1, <1>5, <2>2 DEF Admit
  <2> QED
    BY <2>1, <2>2
<1>6. ASSUME NEW after, NEW n, Fetch(p, s, after, n)
      PROVE  Good
  <2>1. CASE m \in Page(p, s, after, n)
    <3>1. Swept(s)[m].state = "pending"
      BY <2>1 DEF Page, PendingTo
    <3>2. /\ RowOK(Prepared(Swept(s)[m], mine[p]), SweptFacts(s)[m], report[m], Now)
          /\ RowOK(Prepared(Swept(s)[m], mine[p]),
                   [SweptFacts(s)[m] EXCEPT !["fetch_prepared"] = Now], report[m], Now)
      BY <1>1, <1>2, <3>1, RowPrepares
    <3>3. /\ admissions'[m] = Prepared(Swept(s)[m], mine[p])
          /\ \/ milestones'[m] = [SweptFacts(s)[m] EXCEPT !["fetch_prepared"] = Now]
             \/ milestones'[m] = SweptFacts(s)[m]
          /\ report'[m] = report[m]
      BY <1>6, <2>1 DEF Fetch
    <3> QED
      BY <3>2, <3>3
  <2>2. CASE m \notin Page(p, s, after, n)
    BY <1>1, <1>6, <2>2 DEF Fetch
  <2> QED
    BY <2>1, <2>2
<1>7. ASSUME NEW ids, Ack(p, s, ids)
      PROVE  Good
  BY <1>1, <1>7, RowAcked DEF Ack
<1>8. ASSUME NEW ids, Accept(p, s, ids)
      PROVE  Good
  <2> DEFINE row == Acked(Swept(s), ids)[m]
             facts == AckedFacts(Swept(s), SweptFacts(s), ids)[m]
  <2>1. RowOK(row, facts, report[m], Now)
    BY <1>1, RowAcked
  <2>2. row \in Rows /\ facts \in [Fact -> Nat]
    BY AckedType, SweptType
  <2>3. /\ admissions'[m] = row
        /\ report'[m] = report[m]
        /\ milestones'[m] = IF m \in ids /\ facts["accepted"] = 0
                            THEN [facts EXCEPT !["accepted"] = Now] ELSE facts
    BY <1>8 DEF Accept, Recorded, Has
  <2>4. CASE m \in ids /\ facts["accepted"] = 0
    <3>1. Swept(s)[m].kind = "request" /\ Swept(s)[m].state # "expired"
      BY <1>8, <2>4 DEF Accept
    <3>2. Swept(s)[m].state \in {"pending", "acked"}
      BY <1>1, <1>2, <3>1 DEF RowOK, Addressed, Rows
    <3>3. row.kind = "request" /\ row.state = "acked"
      BY <1>1, <2>4, <3>1, <3>2, RowAcked
    <3> QED
      BY <1>2, <2>1, <2>2, <2>3, <2>4, <3>3, RowAccepts
  <2>5. CASE ~(m \in ids /\ facts["accepted"] = 0)
    BY <2>1, <2>3, <2>5
  <2> QED
    BY <2>4, <2>5
<1>9. ASSUME NEW ids, Complete(p, s, ids)
      PROVE  Good
  <2>1. CASE m \in ids /\ SweptFacts(s)[m]["completed"] = 0
    <3>1. /\ admissions'[m] = Swept(s)[m]
          /\ milestones'[m] = [SweptFacts(s)[m] EXCEPT !["completed"] = Now]
          /\ report'[m] = report[m]
          /\ Swept(s)[m].kind = "request"
          /\ SweptFacts(s)[m]["reported"] # 0
      BY <1>9, <2>1 DEF Complete, Recorded, Has
    <3> QED
      BY <1>1, <1>2, <2>1, <3>1, RowCompletes
  <2>2. CASE ~(m \in ids /\ SweptFacts(s)[m]["completed"] = 0)
    BY <1>1, <1>9, <2>2 DEF Complete, Recorded, Has
  <2> QED
    BY <2>1, <2>2
<1>10. ASSUME NEW x \in Msg, NEW pointer \in Pointer, Report(p, s, x, pointer)
       PROVE  Good
  <2>1. CASE m = x
    <3>1. /\ admissions'[m] = Swept(s)[m]
          /\ milestones'[m] = [SweptFacts(s)[m] EXCEPT !["reported"] = Now]
          /\ report'[m] = pointer
          /\ Swept(s)[m].kind = "request"
          /\ SweptFacts(s)[m]["accepted"] # 0
          /\ SweptFacts(s)[m]["reported"] = 0
      BY <1>2, <1>10, <2>1 DEF Report, Recorded, Has
    <3>2. pointer # NoPointer
      BY MailboxAssumption
    <3> QED
      BY <1>1, <1>2, <3>1, <3>2, RowReports
  <2>2. CASE m # x
    BY <1>1, <1>2, <1>10, <2>2 DEF Report, Recorded
  <2> QED
    BY <2>1, <2>2
<1> QED
  BY <1>3, <1>4, <1>5, <1>6, <1>7, <1>8, <1>9, <1>10, SendAdmits, NotifyAdmits DEF Operation, Admission

\* Every row, its facts and its pointer stay as the verifier demands, for any clock that
\* steps back, any stale snapshot and any number of processes (_schema.verify).
THEOREM RowsStayGood == Spec => []RowInv
<1>1. Init => RowInv
  BY MailboxAssumption
     DEF Init, RowInv, RowOK, AdmittedFirst, SettledOnce, HandedOver, Follows, BodyKept,
         Addressed, Absent, Fact
<1>2. MailboxTypeOK /\ RowInv /\ [Next]_vars => RowInv'
  <2> SUFFICES ASSUME MailboxTypeOK, RowInv, [Next]_vars
               PROVE  RowInv'
    OBVIOUS
  <2>1. ASSUME UNCHANGED mailVars
        PROVE  RowInv'
    BY <2>1 DEF mailVars, RowInv, RowOK, AdmittedFirst, SettledOnce, HandedOver, Follows,
                BodyKept, Addressed
  <2>2. ASSUME NEW p \in Process, NEW s \in seen[p], Operation(p, s)
        PROVE  RowInv'
    <3>1. s \in Roster
      BY DEF MailboxTypeOK
    <3> QED
      BY <2>2, <3>1, RowStep
  <2>3. (\E p \in Process : ProcessStep(p)) \/ Environment => UNCHANGED mailVars
    BY DEF ProcessStep, ConfirmCall, RestartCall, Environment, Advance, Tick, StepBack, mailVars
  <2>4. UNCHANGED vars => UNCHANGED mailVars
    BY DEF vars, mailVars
  <2> QED
    BY <2>1, <2>2, <2>3, <2>4 DEF Next
<1> QED
  BY <1>1, <1>2, MailboxTyping, PTL DEF Spec

\* verify/_milestones: facts belong to rows and lie between the admission and the
\* persisted group clock, however the wall clock steps.
THEOREM FactsStayWithinClock == Spec => []FactsWithinClock
<1>1. RowInv => FactsWithinClock
  BY DEF RowInv, RowOK, AdmittedFirst, FactsWithinClock, IsRow, Has
<1> QED
  BY <1>1, RowsStayGood, PTL

\* verify/_milestones: the terminal facts of a message are its terminal state.
THEOREM TerminalFactsStayTrue == Spec => []TerminalFactsAgree
<1>1. RowInv => TerminalFactsAgree
  BY DEF RowInv, RowOK, SettledOnce, TerminalFactsAgree, Has
<1> QED
  BY <1>1, RowsStayGood, PTL

\* verify/_handoffs: acknowledged, accepted, reported, completed, in that order.
THEOREM HandoffsStayInOrder == Spec => []HandoffChain
<1>1. RowInv => HandoffChain
  BY DEF RowInv, RowOK, HandedOver, Follows, HandoffChain, Has
<1> QED
  BY <1>1, RowsStayGood, PTL

\* tombstone_due: no body goes before its message is terminal and the grace has passed.
THEOREM BodiesOutliveGrace == Spec => []BodyOutlivesGrace
<1>1. RowInv => BodyOutlivesGrace
  BY DEF RowInv, RowOK, BodyKept, BodyOutlivesGrace, IsRow, ExpiresAt
<1> QED
  BY <1>1, RowsStayGood, PTL

-----------------------------------------------------------------------------
(* Closure *)

\* In a drained group the sweep changes no state and records no fact.
LEMMA SweptDrained ==
  ASSUME MailboxTypeOK, NEW s, \A m \in Msg : admissions[m].state # "pending"
  PROVE  /\ \A m \in Msg : Swept(s)[m].state # "pending"
         /\ SweptFacts(s) = milestones
<1>1. \A m \in Msg : ~Due(s, m)
  BY DEF Due
<1>2. \A m \in Msg : Swept(s)[m].state = admissions[m].state
  BY <1>1 DEF Swept, Expired, MailboxTypeOK, Rows
<1>3. SweptFacts(s) = [m \in Msg |-> milestones[m]]
  BY <1>1 DEF SweptFacts
<1> QED
  BY <1>2, <1>3 DEF MailboxTypeOK

\* Under an all-terminal snapshot the sweep leaves nothing pending.
LEMMA SweptClosing ==
  ASSUME MailboxTypeOK, RowInv, NEW s, AllTerminal(s), NEW m \in Msg
  PROVE  Swept(s)[m].state # "pending"
<1>1. admissions[m].state = "pending" => s[admissions[m].to] = "terminal"
  BY DEF RowInv, RowOK, Addressed, AllTerminal
<1>2. Expired(s, m).state # "pending"
  BY <1>1 DEF Expired, Due, MailboxTypeOK, Rows
<1>3. admissions[m] \in Rows
  BY DEF MailboxTypeOK
<1>4. Expired(s, m) \in Rows
  BY <1>3 DEF Expired, Rows
<1> QED
  BY <1>2, <1>4 DEF Swept, Rows

\* Only these transactions run once the group is closed or the snapshot is terminal, and
\* each of them commits the sweep and nothing else.
LEMMA ClosedOperation ==
  ASSUME NEW p \in Process, NEW s, Operation(p, s), ~Open(s)
  PROVE  /\ admissions' = Swept(s)
         /\ milestones' = SweptFacts(s)
         /\ UNCHANGED <<report, fetchers>>
BY DEF Operation, Observe, FencedCall, EnrollCall, Send, Notify, Admit, Fetch, Ack, Accept, Report, Complete,
       Receiver

\* A transaction closes the group exactly when it was closed or its snapshot is terminal.
LEMMA ClosingOperation ==
  ASSUME MailboxTypeOK, NEW p \in Process, NEW s, Operation(p, s)
  PROVE  group'.closed <=> group.closed \/ AllTerminal(s)
<1>1. \E n : group' = Touched(s) \/ group' = [Touched(s) EXCEPT !.charge = @ + n]
  BY DEF Operation, Observe, FencedCall, EnrollCall, Send, Notify, Admit, Fetch, Ack, Accept, Report, Complete
<1> QED
  BY <1>1, TouchedType

\* Closing strands no pending message, whatever snapshots are still in flight.
THEOREM ClosureDrains == Spec => []ClosedGroupIsDrained
<1>1. Init => ClosedGroupIsDrained
  BY DEF Init, ClosedGroupIsDrained
<1>2. MailboxTypeOK /\ RowInv /\ ClosedGroupIsDrained /\ [Next]_vars => ClosedGroupIsDrained'
  <2> SUFFICES ASSUME MailboxTypeOK, RowInv, ClosedGroupIsDrained, [Next]_vars
               PROVE  ClosedGroupIsDrained'
    OBVIOUS
  <2>1. ASSUME NEW p \in Process, NEW s \in seen[p], Operation(p, s)
        PROVE  ClosedGroupIsDrained'
    <3> SUFFICES ASSUME group'.closed, NEW m \in Msg
                 PROVE  admissions'[m].state # "pending"
      BY DEF ClosedGroupIsDrained
    <3>1. group.closed \/ AllTerminal(s)
      BY <2>1, ClosingOperation
    <3>2. admissions' = Swept(s)
      BY <2>1, <3>1, ClosedOperation DEF Open
    <3> QED
      BY <3>1, <3>2, SweptDrained, SweptClosing DEF ClosedGroupIsDrained
  <2>2. (\E p \in Process : ProcessStep(p)) \/ Environment \/ UNCHANGED vars
           => UNCHANGED <<group, admissions>>
    BY DEF ProcessStep, ConfirmCall, RestartCall, Environment, Advance, Tick, StepBack, mailVars, vars
  <2>3. UNCHANGED <<group, admissions>> => ClosedGroupIsDrained'
    BY DEF ClosedGroupIsDrained
  <2> QED
    BY <2>1, <2>2, <2>3 DEF Next
<1> QED
  BY <1>1, <1>2, MailboxTyping, RowsStayGood, PTL DEF Spec

\* After closure nothing is recorded, delivered or reported any more.
THEOREM ClosureFreezes == Spec => ClosedGroupIsFrozen
<1>1. MailboxTypeOK /\ ClosedGroupIsDrained /\ [Next]_vars
        => [group.closed => UNCHANGED <<milestones, report, fetchers>>]_vars
  <2> SUFFICES ASSUME MailboxTypeOK, ClosedGroupIsDrained, [Next]_vars, group.closed
               PROVE  UNCHANGED <<milestones, report, fetchers>>
    OBVIOUS
  <2>1. ASSUME NEW p \in Process, NEW s \in seen[p], Operation(p, s)
        PROVE  UNCHANGED <<milestones, report, fetchers>>
    <3>1. ~Open(s)
      BY DEF Open
    <3> QED
      BY <2>1, <3>1, ClosedOperation, SweptDrained DEF ClosedGroupIsDrained
  <2>2. (\E p \in Process : ProcessStep(p)) \/ Environment \/ UNCHANGED vars
           => UNCHANGED <<milestones, report, fetchers>>
    BY DEF ProcessStep, ConfirmCall, RestartCall, Environment, Advance, Tick, StepBack, mailVars, vars
  <2> QED
    BY <2>1, <2>2 DEF Next
<1> QED
  BY <1>1, MailboxTyping, ClosureDrains, PTL DEF Spec, ClosedGroupIsFrozen

================================================================================
