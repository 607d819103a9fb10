------------------------- MODULE MailboxCountingProofs -------------------------
(***************************************************************************)
(* Proofs about what Mailbox counts and about the promise it implements,   *)
(* for any formation, processes, limits and clocks.  Deliveries first: the *)
(* incarnation in an endpoint row only grows, which makes the fence of     *)
(* prepare_fetch an order.  Then the limits: every operation but an        *)
(* admission only lessens what is counted, and an admission adds its batch *)
(* to each count it checked.  Then the request keys, and last the          *)
(* refinement of MessageLifecycle, message by message over the row         *)
(* invariant of MailboxProofs.                                             *)
(***************************************************************************)
EXTENDS MailboxProofs

-----------------------------------------------------------------------------
(* What the sweep leaves of a row *)

\* The sweep settles a pending row and frees a body; it changes nothing else of a row,
\* nor the time of its admission.
LEMMA SweptKeeps ==
  ASSUME MailboxTypeOK, NEW s, NEW m \in Msg
  PROVE  /\ Swept(s)[m] \in Rows
         /\ Swept(s)[m].state = "absent" <=> admissions[m].state = "absent"
         /\ Swept(s)[m].state = "pending" => admissions[m].state = "pending"
         /\ Swept(s)[m].body => admissions[m].body
         /\ Swept(s)[m].to = admissions[m].to
         /\ Swept(s)[m].kind = admissions[m].kind
         /\ Swept(s)[m].preparer = admissions[m].preparer
         /\ Swept(s)[m].deliveries = admissions[m].deliveries
         /\ SweptFacts(s)[m]["admitted"] = milestones[m]["admitted"]
<1>1. admissions[m] \in Rows /\ milestones[m] \in [Fact -> Nat]
  BY DEF MailboxTypeOK
<1>2. /\ Expired(s, m) \in Rows
      /\ Expired(s, m).state = "absent" <=> admissions[m].state = "absent"
      /\ Expired(s, m).state = "pending" => admissions[m].state = "pending"
      /\ Expired(s, m).body = admissions[m].body
      /\ Expired(s, m).to = admissions[m].to
      /\ Expired(s, m).kind = admissions[m].kind
      /\ Expired(s, m).preparer = admissions[m].preparer
      /\ Expired(s, m).deliveries = admissions[m].deliveries
  BY <1>1 DEF Expired, Due, Rows
<1>3. SweptFacts(s)[m]["admitted"] = milestones[m]["admitted"]
  BY <1>1 DEF SweptFacts, Fact
<1> QED
  BY <1>2, <1>3 DEF Swept, Rows

-----------------------------------------------------------------------------
(* Deliveries *)

\* No row of the endpoints table is ahead of the tokens drawn so far.
RowsBehind == \A e \in Member : endpoint[e].inc <= minted

\* An enrollment keeps the incarnation of its row or writes a fresher one.
LEMMA IncarnationsGrow ==
  ASSUME EndpointTypeOK, RowsBehind, NEW p \in Process, Enroll(p)
  PROVE  /\ RowsBehind'
         /\ \A e \in Member : endpoint[e].inc <= endpoint'[e].inc
<1>1. MemberOf[p] \in Member
  BY MemberOfAssumption
<1>2. CASE Renewing(p)
  <2>1. EnrollInc(p) = Row(p).inc
    BY <1>2 DEF Enroll, IsDisplaced, Renewing, EnrollInc
  <2>2. \A e \in Member : endpoint'[e].inc = endpoint[e].inc
    BY <1>1, <2>1 DEF Enroll, Row, EndpointTypeOK
  <2> QED
    BY <1>2, <2>2 DEF Enroll, RowsBehind, EndpointTypeOK
<1>3. CASE ~Renewing(p)
  <2>1. EnrollInc(p) = minted + 1 /\ minted' = minted + 1
    BY <1>3 DEF Enroll, EnrollInc
  <2>2. \A e \in Member : endpoint'[e].inc = (IF e = MemberOf[p] THEN minted + 1
                                              ELSE endpoint[e].inc)
    BY <1>1, <2>1 DEF Enroll, EndpointTypeOK
  <2> QED
    BY <2>1, <2>2 DEF RowsBehind, EndpointTypeOK
<1> QED
  BY <1>2, <1>3

\* The incarnations a row was given to: as many as it counts, the last preparer is the
\* newest of them, and the endpoint of the recipient shows that one or a newer.
Delivered(row, given, table) ==
    /\ IsFiniteSet(given)
    /\ row.deliveries = Cardinality(given)
    /\ row.preparer # NoInc => row.preparer \in given
    /\ \A i \in given : i # NoInc /\ i <= row.preparer
    /\ IF row.state = "absent" THEN row.preparer = NoInc
       ELSE row.preparer <= table[row.to].inc

DeliveryInv ==
    /\ RowsBehind
    /\ \A m \in Msg : Delivered(admissions[m], fetchers[m], endpoint)

\* A row keeps its deliveries while its endpoint moves on.
LEMMA DeliveredLater ==
  ASSUME NEW row \in Rows, NEW next \in Rows, NEW given \in SUBSET Nat,
         NEW table \in [Member -> [inc : Nat, gen : Nat]],
         NEW later \in [Member -> [inc : Nat, gen : Nat]],
         Delivered(row, given, table), Addressed(row),
         \A e \in Member : table[e].inc <= later[e].inc,
         next.state = "absent" <=> row.state = "absent",
         next.to = row.to, next.preparer = row.preparer, next.deliveries = row.deliveries
  PROVE  Delivered(next, given, later)
BY DEF Delivered, Addressed, Rows

\* A page of the holder: every message of it is still waiting, is addressed to the member
\* of the holder, and was last given to this incarnation or an older one.
LEMMA PageIsBehind ==
  ASSUME MailboxTypeOK, RowInv, DeliveryInv, NEW p \in Process, NEW s,
         NEW after, NEW n, Fetch(p, s, after, n), NEW m \in Page(p, s, after, n)
  PROVE  /\ m \in Msg
         /\ Swept(s)[m].state = "pending"
         /\ Swept(s)[m].to = MemberOf[p]
         /\ mine[p] = endpoint[MemberOf[p]].inc
         /\ mine[p] # NoInc
         /\ Swept(s)[m].preparer <= mine[p]
<1>1. m \in Msg /\ Swept(s)[m].state = "pending" /\ Swept(s)[m].to = MemberOf[p]
  BY DEF Page, PendingTo
<1>2. mine[p] = endpoint[MemberOf[p]].inc /\ mine[p] # NoInc
  BY DEF Fetch, Receiver, Holds, IsDisplaced, HasRow, Row
<1>3. admissions[m].state # "absent" /\ admissions[m].to = MemberOf[p]
      /\ admissions[m].preparer = Swept(s)[m].preparer
  BY <1>1, SweptKeeps
<1> QED
  BY <1>1, <1>2, <1>3 DEF DeliveryInv, Delivered

\* A page of the holder gives each of its messages to the incarnation of the holder, once.
LEMMA PageDelivers ==
  ASSUME MailboxTypeOK, RowInv, DeliveryInv, NEW p \in Process, NEW s,
         NEW after, NEW n, Fetch(p, s, after, n), NEW m \in Page(p, s, after, n)
  PROVE  /\ Delivered(Prepared(Swept(s)[m], mine[p]), fetchers[m] \cup {mine[p]}, endpoint)
         /\ \A old \in fetchers[m] : mine[p] \notin fetchers[m] => old < mine[p]
<1> DEFINE row == Swept(s)[m]
           given == fetchers[m]
<1>1. /\ m \in Msg
      /\ row.state = "pending"
      /\ row.to = MemberOf[p]
      /\ mine[p] = endpoint[MemberOf[p]].inc
      /\ mine[p] # NoInc
      /\ row.preparer <= mine[p]
  BY PageIsBehind
<1>2. row \in Rows /\ given \in SUBSET Nat /\ mine[p] \in Nat
  BY <1>1, SweptKeeps DEF MailboxTypeOK, EndpointTypeOK
<1>3. /\ IsFiniteSet(given)
      /\ row.deliveries = Cardinality(given)
      /\ row.preparer # NoInc => row.preparer \in given
      /\ \A i \in given : i # NoInc /\ i <= row.preparer
  BY <1>1, SweptKeeps DEF DeliveryInv, Delivered
<1>4. \A old \in given : old <= mine[p]
  BY <1>1, <1>2, <1>3 DEF Rows
<1>5. mine[p] \in given <=> row.preparer = mine[p]
  BY <1>1, <1>2, <1>3 DEF Rows
<1>6. /\ IsFiniteSet(given \cup {mine[p]})
      /\ Cardinality(given \cup {mine[p]}) =
            IF mine[p] \in given THEN Cardinality(given) ELSE Cardinality(given) + 1
  BY <1>3, FS_AddElement
<1>7. /\ Prepared(row, mine[p]).state = "pending"
      /\ Prepared(row, mine[p]).to = MemberOf[p]
      /\ Prepared(row, mine[p]).preparer = mine[p]
      /\ Prepared(row, mine[p]).deliveries = Cardinality(given \cup {mine[p]})
  BY <1>1, <1>2, <1>3, <1>5, <1>6 DEF Prepared, Rows
<1>8. Delivered(Prepared(row, mine[p]), given \cup {mine[p]}, endpoint)
  BY <1>1, <1>2, <1>3, <1>4, <1>6, <1>7 DEF Delivered
<1> QED
  BY <1>2, <1>4, <1>8

\* What a transaction makes of a row, as far as deliveries go: a new row, a row of a page,
\* or a row with the deliveries it had.
LEMMA RowsOfOperation ==
  ASSUME MailboxTypeOK, NEW p \in Process, NEW s \in Roster, Operation(p, s), NEW m \in Msg
  PROVE  \/ /\ \E to \in Member, kind \in Kind, id \in Nat : admissions'[m] = NewRow(to, kind, id)
            /\ Swept(s)[m].state = "absent"
            /\ fetchers'[m] = fetchers[m]
            /\ UNCHANGED endpointVars
         \/ \E after, n :
               /\ Fetch(p, s, after, n)
               /\ m \in Page(p, s, after, n)
         \/ /\ admissions'[m].state = "absent" <=> Swept(s)[m].state = "absent"
            /\ admissions'[m].to = Swept(s)[m].to
            /\ admissions'[m].preparer = Swept(s)[m].preparer
            /\ admissions'[m].deliveries = Swept(s)[m].deliveries
            /\ fetchers'[m] = fetchers[m]
<1> DEFINE Kept ==
        /\ admissions'[m].state = "absent" <=> Swept(s)[m].state = "absent"
        /\ admissions'[m].to = Swept(s)[m].to
        /\ admissions'[m].preparer = Swept(s)[m].preparer
        /\ admissions'[m].deliveries = Swept(s)[m].deliveries
        /\ fetchers'[m] = fetchers[m]
<1>1. Swept(s) \in [Msg -> Rows]
  BY SweptType
<1>2. CASE Observe(p, s) \/ FencedCall(p, s) \/ EnrollCall(p, s)
  <2>1. Kept
    BY <1>2 DEF Observe, FencedCall, EnrollCall
  <2> QED
    BY <2>1
<1>3. ASSUME NEW k \in Key, NEW kind \in Kind, NEW to, IsBatch(p, k, to), Admit(p, s, k, to, kind)
      PROVE  \/ /\ \E e \in Member, id \in Nat : admissions'[m] = NewRow(e, kind, id)
                /\ Swept(s)[m].state = "absent"
                /\ fetchers'[m] = fetchers[m]
                /\ UNCHANGED endpointVars
             \/ Kept
  <2>1. CASE m \in DOMAIN to
    <3>1. group.charge + 1 \in Nat
      BY DEF MailboxTypeOK
    <3>2. admissions'[m] = NewRow(to[m], kind, group.charge + 1) /\ to[m] \in Member
      BY <1>3, <2>1 DEF Admit, IsBatch
    <3> QED
      BY <1>3, <2>1, <3>1, <3>2 DEF Admit, IsBatch, Unused, Quiet
  <2>2. CASE m \notin DOMAIN to
    BY <1>3, <2>2 DEF Admit
  <2> QED
    BY <2>1, <2>2
<1>4. ASSUME NEW after, NEW n, Fetch(p, s, after, n), m \notin Page(p, s, after, n)
      PROVE  Kept
  BY <1>4 DEF Fetch
<1>5. ASSUME NEW ids, Ack(p, s, ids) \/ Accept(p, s, ids) \/ Complete(p, s, ids)
      PROVE  Kept
  <2>1. \/ admissions'[m] = Swept(s)[m]
        \/ /\ Swept(s)[m].state = "pending"
           /\ admissions'[m] = [Swept(s)[m] EXCEPT !.state = "acked"]
    BY <1>5 DEF Ack, Accept, Complete, Acked
  <2>2. fetchers'[m] = fetchers[m]
    BY <1>5 DEF Ack, Accept, Complete
  <2> QED
    BY <1>1, <2>1, <2>2 DEF Rows
<1>6. ASSUME NEW x \in Msg, NEW pointer \in Pointer, Report(p, s, x, pointer)
      PROVE  Kept
  BY <1>6 DEF Report
<1>7. Admission(p, s) =>
        \/ /\ \E e \in Member, kind \in Kind, id \in Nat : admissions'[m] = NewRow(e, kind, id)
           /\ Swept(s)[m].state = "absent"
           /\ fetchers'[m] = fetchers[m]
           /\ UNCHANGED endpointVars
        \/ Kept
  BY <1>3 DEF Admission
<1> QED
  BY <1>2, <1>4, <1>5, <1>6, <1>7, SendAdmits, NotifyAdmits DEF Operation

\* One transaction keeps the deliveries of every message in order, and gives a message
\* only to an incarnation newer than all it was given to.
LEMMA DeliveryOperation ==
  ASSUME MailboxTypeOK, MailboxTypeOK', RowInv, DeliveryInv, NEW p \in Process,
         NEW s \in Roster, Operation(p, s)
  PROVE  /\ DeliveryInv'
         /\ \A m \in Msg : \A old \in fetchers[m], new \in fetchers'[m] \ fetchers[m] : old < new
<1>1. /\ RowsBehind'
      /\ \A e \in Member : endpoint[e].inc <= endpoint'[e].inc
  <2>1. CASE Enroll(p)
    BY <2>1, IncarnationsGrow DEF MailboxTypeOK, DeliveryInv
  <2>2. CASE Fence(p) \/ UNCHANGED endpointVars
    BY <2>2 DEF Fence, endpointVars, DeliveryInv, RowsBehind, MailboxTypeOK, EndpointTypeOK
  <2> QED
    BY <2>1, <2>2, OperationOnEndpoints
<1>2. ASSUME NEW m \in Msg
      PROVE  /\ Delivered(admissions'[m], fetchers'[m], endpoint')
             /\ \A old \in fetchers[m], new \in fetchers'[m] \ fetchers[m] : old < new
  <2>1. /\ Delivered(admissions[m], fetchers[m], endpoint)
        /\ Addressed(admissions[m])
        /\ admissions[m] \in Rows
        /\ admissions'[m] \in Rows
        /\ fetchers[m] \in SUBSET Nat
        /\ endpoint \in [Member -> [inc : Nat, gen : Nat]]
        /\ endpoint' \in [Member -> [inc : Nat, gen : Nat]]
    BY DEF DeliveryInv, RowInv, RowOK, MailboxTypeOK, EndpointTypeOK
  <2>2. ASSUME NEW to \in Member, NEW kind \in Kind, NEW id,
               admissions'[m] = NewRow(to, kind, id), Swept(s)[m].state = "absent",
               fetchers'[m] = fetchers[m]
        PROVE  Delivered(admissions'[m], fetchers'[m], endpoint')
    <3>1. admissions[m].preparer = NoInc
      BY <2>1, <2>2, SweptKeeps DEF Delivered
    <3>2. fetchers[m] = {}
      BY <2>1, <3>1 DEF Delivered, NoInc
    <3> QED
      BY <2>1, <2>2, <3>2, FS_EmptySet DEF NewRow, Delivered, NoInc, EndpointTypeOK
  <2>3. ASSUME NEW after, NEW n, Fetch(p, s, after, n), m \in Page(p, s, after, n)
        PROVE  /\ Delivered(admissions'[m], fetchers'[m], endpoint')
               /\ \A old \in fetchers[m], new \in fetchers'[m] \ fetchers[m] : old < new
    <3>1. /\ admissions'[m] = Prepared(Swept(s)[m], mine[p])
          /\ fetchers'[m] = fetchers[m] \cup {mine[p]}
          /\ endpoint' = endpoint
      BY <2>3 DEF Fetch, Quiet, endpointVars
    <3> QED
      BY <2>3, <3>1, PageDelivers
  <2>4. ASSUME admissions'[m].state = "absent" <=> Swept(s)[m].state = "absent",
               admissions'[m].to = Swept(s)[m].to,
               admissions'[m].preparer = Swept(s)[m].preparer,
               admissions'[m].deliveries = Swept(s)[m].deliveries,
               fetchers'[m] = fetchers[m]
        PROVE  Delivered(admissions'[m], fetchers'[m], endpoint')
    <3>1. /\ admissions'[m].state = "absent" <=> admissions[m].state = "absent"
          /\ admissions'[m].to = admissions[m].to
          /\ admissions'[m].preparer = admissions[m].preparer
          /\ admissions'[m].deliveries = admissions[m].deliveries
      BY <2>4, SweptKeeps
    <3> QED
      BY <1>1, <2>1, <2>4, <3>1, DeliveredLater
  <2> QED
    BY <2>2, <2>3, <2>4, RowsOfOperation
<1> QED
  BY <1>1, <1>2 DEF DeliveryInv

\* A process that restarts or confirms leaves its member's row alone.
LEMMA DeliveryElsewhere ==
  ASSUME MailboxTypeOK, DeliveryInv,
         (\E p \in Process : ProcessStep(p)) \/ Environment \/ UNCHANGED vars
  PROVE  DeliveryInv' /\ UNCHANGED fetchers
<1>1. UNCHANGED <<endpoint, minted, admissions, fetchers>>
  BY DEF ProcessStep, ConfirmCall, ConfirmAny, Confirm, RestartCall, Restart, Environment,
         Advance, Tick, StepBack, mailVars, endpointVars, vars
<1> QED
  BY <1>1 DEF DeliveryInv, RowsBehind, Delivered

\* Deliveries stay in order: the last preparer of a message is the newest incarnation it
\* was given to and never newer than its endpoint (prepare_fetch, _held).
THEOREM DeliveriesStayInOrder == Spec => []DeliveryInv
<1>1. Init => DeliveryInv
  BY FS_EmptySet
     DEF Init, EndpointInit, DeliveryInv, RowsBehind, Delivered, Absent, NoInc
<1>2. MailboxTypeOK /\ MailboxTypeOK' /\ RowInv /\ DeliveryInv /\ [Next]_vars => DeliveryInv'
  <2> SUFFICES ASSUME MailboxTypeOK, MailboxTypeOK', RowInv, DeliveryInv, [Next]_vars
               PROVE  DeliveryInv'
    OBVIOUS
  <2>1. ASSUME NEW p \in Process, NEW s \in seen[p], Operation(p, s)
        PROVE  DeliveryInv'
    <3>1. s \in Roster
      BY DEF MailboxTypeOK
    <3> QED
      BY <2>1, <3>1, DeliveryOperation
  <2> QED
    BY <2>1, DeliveryElsewhere DEF Next
<1> QED
  BY <1>1, <1>2, MailboxTyping, RowsStayGood, PTL DEF Spec

\* delivery_count is the number of distinct incarnations that were given the message, for
\* any number of processes, take-overs and restarts.
THEOREM DeliveriesAreCounted == Spec => []DeliveriesCountIncarnations
<1>1. DeliveryInv => DeliveriesCountIncarnations
  BY DEF DeliveryInv, Delivered, DeliveriesCountIncarnations
<1> QED
  BY <1>1, DeliveriesStayInOrder, PTL

\* A displaced incarnation is never given a message its successor was given (FR12).
THEOREM RedeliveryIsForward == Spec => RedeliveryMovesForward
<1>1. MailboxTypeOK /\ MailboxTypeOK' /\ RowInv /\ DeliveryInv /\ [Next]_vars
        => [\A m \in Msg : \A old \in fetchers[m], new \in fetchers'[m] \ fetchers[m] : old < new]_vars
  <2> SUFFICES ASSUME MailboxTypeOK, MailboxTypeOK', RowInv, DeliveryInv, [Next]_vars
               PROVE  \A m \in Msg :
                        \A old \in fetchers[m], new \in fetchers'[m] \ fetchers[m] : old < new
    OBVIOUS
  <2>1. ASSUME NEW p \in Process, NEW s \in seen[p], Operation(p, s)
        PROVE  \A m \in Msg :
                 \A old \in fetchers[m], new \in fetchers'[m] \ fetchers[m] : old < new
    <3>1. s \in Roster
      BY DEF MailboxTypeOK
    <3> QED
      BY <2>1, <3>1, DeliveryOperation
  <2> QED
    BY <2>1, DeliveryElsewhere DEF Next
<1> QED
  BY <1>1, MailboxTyping, RowsStayGood, DeliveriesStayInOrder, PTL DEF Spec, RedeliveryMovesForward

-----------------------------------------------------------------------------
(* Limits *)

RowSet(rows) == {m \in Msg : rows[m].state # "absent"}
BodySet(rows) == {m \in Msg : rows[m].body}

\* The admissions of the sender of m that share a rate window with m and precede it.
Window(rows, facts, m) ==
    {x \in RowSet(rows) : /\ Sender(x) = Sender(m)
                          /\ facts[x]["admitted"] <= facts[m]["admitted"]
                          /\ facts[m]["admitted"] < facts[x]["admitted"] + RateWindow}

\* The admissions of a sender that are still in its rate window at time t.
Recent(rows, facts, from, t) ==
    {x \in RowSet(rows) : /\ Sender(x) = from
                          /\ facts[x]["admitted"] <= t
                          /\ t < facts[x]["admitted"] + RateWindow}

\* The tables with a batch admitted at time t.
WithRows(rows, to, kind, id) ==
    [m \in Msg |-> IF m \in DOMAIN to THEN NewRow(to[m], kind, id) ELSE rows[m]]

WithFacts(facts, to, t) ==
    [m \in Msg |-> IF m \in DOMAIN to THEN [facts[m] EXCEPT !["admitted"] = t] ELSE facts[m]]

\* What the limits demand of the tables at a charge.
CountsHold(rows, facts, charge) ==
    /\ IsFiniteSet(RowSet(rows))
    /\ BodySet(rows) \subseteq RowSet(rows)
    /\ charge = Cardinality(RowSet(rows))
    /\ charge <= GroupLimit
    /\ \A to \in Member : Cardinality(PendingTo(rows, to)) <= OutstandingLimit
    /\ Cardinality(BodySet(rows)) <= BodyBudget
    /\ \A m \in RowSet(rows) : Cardinality(Window(rows, facts, m)) <= RateLimit

CountInv == CountsHold(admissions, milestones, group.charge)

LEMMA CardinalityOfPart ==
  ASSUME NEW S, IsFiniteSet(S), NEW T \in SUBSET S
  PROVE  /\ IsFiniteSet(T)
         /\ Cardinality(T) \in Nat
         /\ Cardinality(S) \in Nat
         /\ Cardinality(T) <= Cardinality(S)
BY FS_Subset, FS_CardinalityType

LEMMA CardinalityOfBoth ==
  ASSUME NEW S, IsFiniteSet(S), NEW D, IsFiniteSet(D), NEW T \in SUBSET (S \cup D)
  PROVE  Cardinality(T) <= Cardinality(S) + Cardinality(D)
<1>1. Cardinality(S) \in Nat /\ Cardinality(D) \in Nat
  BY FS_CardinalityType
<1>2. IsFiniteSet(S \cup D) /\ Cardinality(S \cap D) \in Nat
  <2>1. IsFiniteSet(S \cap D)
    BY FS_Intersection
  <2> QED
    BY <2>1, FS_Union, FS_CardinalityType
<1>3. Cardinality(S \cup D) = Cardinality(S) + Cardinality(D) - Cardinality(S \cap D)
  BY FS_Union
<1>4. Cardinality(T) \in Nat /\ Cardinality(T) <= Cardinality(S \cup D)
  BY <1>2, CardinalityOfPart
<1> QED
  BY <1>1, <1>2, <1>3, <1>4

\* Tables that keep the rows and their admission times, and only settle rows and free
\* bodies, stay within the limits.
LEMMA CountsLessen ==
  ASSUME NEW rows, NEW facts, NEW charge, CountsHold(rows, facts, charge),
         NEW less, NEW later,
         \A m \in Msg : /\ less[m].state = "absent" <=> rows[m].state = "absent"
                        /\ less[m].state = "pending" => rows[m].state = "pending"
                        /\ less[m].to = rows[m].to
                        /\ less[m].body => rows[m].body
                        /\ later[m]["admitted"] = facts[m]["admitted"]
  PROVE  CountsHold(less, later, charge)
<1>1. RowSet(less) = RowSet(rows) /\ IsFiniteSet(RowSet(rows))
  BY DEF RowSet, CountsHold
<1>2. BodySet(less) \subseteq BodySet(rows) /\ BodySet(rows) \subseteq RowSet(rows)
  BY DEF BodySet, CountsHold
<1>3. Cardinality(BodySet(less)) <= BodyBudget
  <2>1. IsFiniteSet(BodySet(rows))
    BY <1>1, <1>2, CardinalityOfPart
  <2>2. /\ Cardinality(BodySet(less)) <= Cardinality(BodySet(rows))
        /\ Cardinality(BodySet(less)) \in Nat
        /\ Cardinality(BodySet(rows)) \in Nat
    BY <1>2, <2>1, CardinalityOfPart
  <2> QED
    BY <2>2, MailboxAssumption DEF CountsHold
<1>4. ASSUME NEW to \in Member
      PROVE  Cardinality(PendingTo(less, to)) <= OutstandingLimit
  <2>1. /\ PendingTo(less, to) \subseteq PendingTo(rows, to)
        /\ PendingTo(rows, to) \subseteq RowSet(rows)
    BY DEF PendingTo, RowSet
  <2>2. IsFiniteSet(PendingTo(rows, to))
    BY <1>1, <2>1, CardinalityOfPart
  <2>3. /\ Cardinality(PendingTo(less, to)) <= Cardinality(PendingTo(rows, to))
        /\ Cardinality(PendingTo(less, to)) \in Nat
        /\ Cardinality(PendingTo(rows, to)) \in Nat
    BY <2>1, <2>2, CardinalityOfPart
  <2> QED
    BY <2>3, MailboxAssumption DEF CountsHold
<1>5. ASSUME NEW m \in RowSet(rows)
      PROVE  Window(less, later, m) = Window(rows, facts, m)
  BY <1>1 DEF Window, RowSet
<1> QED
  BY <1>1, <1>2, <1>3, <1>4, <1>5 DEF CountsHold

LEMMA CountsSwept ==
  ASSUME MailboxTypeOK, CountInv, NEW s
  PROVE  CountsHold(Swept(s), SweptFacts(s), group.charge)
<1>1. \A m \in Msg : /\ Swept(s)[m].state = "absent" <=> admissions[m].state = "absent"
                     /\ Swept(s)[m].state = "pending" => admissions[m].state = "pending"
                     /\ Swept(s)[m].to = admissions[m].to
                     /\ Swept(s)[m].body => admissions[m].body
                     /\ SweptFacts(s)[m]["admitted"] = milestones[m]["admitted"]
  BY SweptKeeps
<1> QED
  BY <1>1, CountsLessen DEF CountInv

\* A batch that passed check_limits: its n messages are n more of everything that was
\* counted, and one more for each of its recipients.
LEMMA CountsAdmitted ==
  ASSUME NEW rows \in [Msg -> Rows], NEW facts \in [Msg -> [Fact -> Nat]], NEW t \in Nat,
         CountsHold(rows, facts, group.charge), group.charge \in Nat,
         NEW to, DOMAIN to \in SUBSET Msg, IsFiniteSet(DOMAIN to), NEW from, NEW kind \in Kind,
         \A m \in DOMAIN to : rows[m].state = "absent" /\ Sender(m) = from /\ to[m] \in Member,
         \A m, n \in DOMAIN to : m # n => to[m] # to[n],
         \A x \in RowSet(rows) : facts[x]["admitted"] <= t,
         WithinGroupLimit(Cardinality(DOMAIN to)),
         WithinBodyBudget(rows, Cardinality(DOMAIN to)),
         \A m \in DOMAIN to : WithinOutstanding(rows, to[m]),
         Cardinality(Recent(rows, facts, from, t)) + Cardinality(DOMAIN to) <= RateLimit
  PROVE  CountsHold(WithRows(rows, to, kind, group.charge + 1), WithFacts(facts, to, t),
                    group.charge + Cardinality(DOMAIN to))
<1> DEFINE batch == DOMAIN to
           more == WithRows(rows, to, kind, group.charge + 1)
           later == WithFacts(facts, to, t)
           count == Cardinality(batch)
           recent == Recent(rows, facts, from, t)
<1>1. /\ \A x \in batch : more[x] = NewRow(to[x], kind, group.charge + 1)
      /\ \A x \in Msg \ batch : more[x] = rows[x]
      /\ \A x \in Msg : later[x]["admitted"] = IF x \in batch THEN t ELSE facts[x]["admitted"]
      /\ \A x \in Msg : facts[x]["admitted"] \in Nat
  BY DEF Fact, WithRows, WithFacts
<1>2. count \in Nat /\ count = Cardinality(batch)
  BY FS_CardinalityType
<1> HIDE DEF more, later, count
<1>3. \A x \in batch : more[x].state = "pending" /\ more[x].to = to[x]
  <2>1. \A e, id : NewRow(e, kind, id).state = "pending" /\ NewRow(e, kind, id).to = e
    BY DEF NewRow
  <2> QED
    BY <1>1, <2>1
<1>4. /\ RowSet(more) = RowSet(rows) \cup batch
      /\ RowSet(rows) \cap batch = {}
      /\ IsFiniteSet(RowSet(rows))
      /\ group.charge = Cardinality(RowSet(rows))
      /\ RowSet(rows) \subseteq Msg
  <2>1. RowSet(rows) \cap batch = {} /\ RowSet(rows) \subseteq Msg
    BY DEF RowSet
  <2>2. RowSet(more) = RowSet(rows) \cup batch
    BY <1>1, <1>3 DEF RowSet
  <2> QED
    BY <2>1, <2>2 DEF CountsHold
<1>5. /\ IsFiniteSet(RowSet(more))
      /\ Cardinality(RowSet(more)) = group.charge + count
  <2>1. Cardinality(RowSet(rows) \cap batch) = 0
    BY <1>4, FS_EmptySet
  <2>2. /\ IsFiniteSet(RowSet(rows) \cup batch)
        /\ Cardinality(RowSet(rows) \cup batch) =
              Cardinality(RowSet(rows)) + Cardinality(batch) - Cardinality(RowSet(rows) \cap batch)
    BY <1>4, FS_Union
  <2> QED
    BY <1>2, <1>4, <2>1, <2>2
<1>6. group.charge + count <= GroupLimit
  BY <1>2 DEF WithinGroupLimit
<1>7. BodySet(more) \subseteq BodySet(rows) \cup batch /\ BodySet(more) \subseteq RowSet(more)
  BY <1>1, <1>4 DEF BodySet, NewRow, CountsHold
<1>8. Cardinality(BodySet(more)) <= BodyBudget
  <2>1. IsFiniteSet(BodySet(rows)) /\ Cardinality(BodySet(rows)) \in Nat
    BY <1>4, CardinalityOfPart DEF CountsHold
  <2>2. /\ Cardinality(BodySet(more)) <= Cardinality(BodySet(rows)) + count
        /\ Cardinality(BodySet(more)) \in Nat
    BY <1>2, <1>5, <1>7, <2>1, CardinalityOfBoth, CardinalityOfPart
  <2>3. Cardinality(BodySet(rows)) + count <= BodyBudget
    BY <1>2 DEF WithinBodyBudget, BodySet
  <2> QED
    BY <1>2, <2>1, <2>2, <2>3, MailboxAssumption
<1>9. ASSUME NEW e \in Member
      PROVE  Cardinality(PendingTo(more, e)) <= OutstandingLimit
  <2>1. /\ IsFiniteSet(PendingTo(rows, e)) /\ Cardinality(PendingTo(rows, e)) \in Nat
        /\ IsFiniteSet(PendingTo(more, e)) /\ Cardinality(PendingTo(more, e)) \in Nat
    <3>1. PendingTo(rows, e) \subseteq RowSet(rows) /\ PendingTo(more, e) \subseteq RowSet(more)
      BY DEF PendingTo, RowSet
    <3> QED
      BY <1>4, <1>5, <3>1, CardinalityOfPart
  <2>2. ASSUME NEW m \in batch, to[m] = e
        PROVE  Cardinality(PendingTo(more, e)) <= OutstandingLimit
    <3>1. PendingTo(more, e) \subseteq PendingTo(rows, e) \cup {m}
      BY <1>1, <1>3, <2>2 DEF PendingTo
    <3>2. Cardinality(PendingTo(more, e)) <= Cardinality(PendingTo(rows, e)) + 1
      BY <2>1, <3>1, CardinalityOfBoth, FS_Singleton
    <3>3. Cardinality(PendingTo(rows, e)) < OutstandingLimit
      BY <2>2 DEF WithinOutstanding
    <3> QED
      BY <2>1, <3>2, <3>3, MailboxAssumption
  <2>3. ASSUME \A m \in batch : to[m] # e
        PROVE  Cardinality(PendingTo(more, e)) <= OutstandingLimit
    <3>1. PendingTo(more, e) = PendingTo(rows, e)
      <4>1. \A x \in Msg : x \in PendingTo(more, e) <=> x \in PendingTo(rows, e)
        BY <1>1, <1>4, <1>3, <2>3 DEF PendingTo, RowSet
      <4> QED
        BY <4>1 DEF PendingTo
    <3> QED
      BY <3>1 DEF CountsHold
  <2> QED
    BY <2>2, <2>3
<1>10. ASSUME NEW y \in RowSet(more)
      PROVE  Cardinality(Window(more, later, y)) <= RateLimit
  <2>1. y \in Msg /\ (y \in batch \/ y \in RowSet(rows))
    BY <1>4
  <2>2. ASSUME NEW m \in batch, m \in Window(more, later, y)
        PROVE  Cardinality(Window(more, later, y)) <= RateLimit
    <3>1. Sender(y) = from /\ later[y]["admitted"] = t
      <4>1. t <= later[y]["admitted"] /\ Sender(y) = Sender(m)
        BY <1>1, <2>2 DEF Window
      <4>2. later[y]["admitted"] <= t
        BY <1>1, <2>1
      <4>3. later[y]["admitted"] \in Nat
        BY <1>1, <2>1 DEF Fact
      <4>4. \A d \in Nat : t <= d /\ d <= t => d = t
        OBVIOUS
      <4> QED
        BY <4>1, <4>2, <4>3, <4>4
    <3>2. Window(more, later, y) \subseteq recent \cup batch
      BY <1>1, <1>4, <3>1 DEF Window, Recent
    <3>3. IsFiniteSet(recent) /\ Cardinality(recent) \in Nat
      BY <1>4, CardinalityOfPart DEF Recent
    <3>4. /\ Cardinality(Window(more, later, y)) <= Cardinality(recent) + count
          /\ Cardinality(Window(more, later, y)) \in Nat
      <4>1. Window(more, later, y) \subseteq RowSet(more)
        BY DEF Window
      <4> QED
        BY <1>2, <1>5, <3>2, <3>3, <4>1, CardinalityOfBoth, CardinalityOfPart
    <3> QED
      BY <1>2, <3>3, <3>4, MailboxAssumption
  <2>3. ASSUME \A m \in batch : m \notin Window(more, later, y)
        PROVE  Cardinality(Window(more, later, y)) <= RateLimit
    <3>1. y \notin batch
      <4>1. SUFFICES ASSUME y \in batch PROVE y \in Window(more, later, y)
        BY <2>3
      <4> QED
        BY <1>1, <1>4, <4>1, MailboxAssumption DEF Window
    <3>2. Window(more, later, y) = Window(rows, facts, y) /\ y \in RowSet(rows)
      BY <1>1, <1>4, <2>1, <2>3, <3>1 DEF Window
    <3> QED
      BY <3>2 DEF CountsHold
  <2> QED
    BY <2>2, <2>3
<1>11. CountsHold(more, later, group.charge + count)
  BY <1>5, <1>6, <1>7, <1>8, <1>9, <1>10 DEF CountsHold
<1> QED
  BY <1>11 DEF more, later, count

\* An admission counts its batch on the tables the sweep left.
LEMMA CountsAfterAdmission ==
  ASSUME MailboxTypeOK, RowInv, CountInv, NEW p \in Process, NEW s, Admission(p, s)
  PROVE  CountInv'
<1>0. PICK k \in Key, kind \in Kind : \E to : IsBatch(p, k, to) /\ Admit(p, s, k, to, kind)
  BY DEF Admission
<1>1. PICK to : IsBatch(p, k, to) /\ Admit(p, s, k, to, kind)
  BY <1>0
<1> DEFINE rows == Swept(s)
           facts == SweptFacts(s)
           count == Cardinality(DOMAIN to)
<1>2. /\ DOMAIN to \in SUBSET Msg
      /\ IsFiniteSet(DOMAIN to)
      /\ \A m \in DOMAIN to : rows[m].state = "absent" /\ Sender(m) = MemberOf[p] /\ to[m] \in Member
      /\ \A m, n \in DOMAIN to : m # n => to[m] # to[n]
  BY <1>1 DEF IsBatch, Admit, Unused
<1>3. /\ rows \in [Msg -> Rows]
      /\ facts \in [Msg -> [Fact -> Nat]]
      /\ Now \in Nat
      /\ group.charge \in Nat
  BY SweptType, ClockType DEF MailboxTypeOK
<1>4. CountsHold(rows, facts, group.charge)
  BY CountsSwept
<1>5. \A x \in RowSet(rows) : facts[x]["admitted"] <= Now
  BY RowSwept DEF RowInv, RowOK, AdmittedFirst, RowSet, Fact
<1>6. /\ WithinGroupLimit(count)
      /\ WithinBodyBudget(rows, count)
      /\ \A m \in DOMAIN to : WithinOutstanding(rows, to[m])
      /\ WithinRate(rows, MemberOf[p], count)
      /\ admissions' = WithRows(rows, to, kind, group.charge + 1)
      /\ milestones' = WithFacts(facts, to, Now)
  BY <1>1 DEF Admit, WithRows, WithFacts
<1>7. group'.charge = group.charge + count
  BY <1>1, TouchedType DEF Admit
<1>8. Cardinality(Recent(rows, facts, MemberOf[p], Now)) + count <= RateLimit
  <2>1. \A x \in Msg : facts[x]["admitted"] = milestones[x]["admitted"]
    BY SweptKeeps
  <2> HIDE DEF rows, facts, count
  <2>2. RecentFrom(rows, MemberOf[p]) = Recent(rows, facts, MemberOf[p], Now)
    BY <2>1 DEF RecentFrom, Recent, RowSet
  <2> QED
    BY <1>6, <2>2 DEF WithinRate
<1> HIDE DEF rows, facts
<1>9. CountsHold(WithRows(rows, to, kind, group.charge + 1), WithFacts(facts, to, Now),
                 group.charge + count)
  BY <1>2, <1>3, <1>4, <1>5, <1>6, <1>8, CountsAdmitted
<1> QED
  BY <1>6, <1>7, <1>9 DEF CountInv, CountsHold, RowSet, BodySet, PendingTo, Window

\* Every other transaction only settles rows and frees bodies.
LEMMA OthersKeep ==
  ASSUME MailboxTypeOK, NEW p \in Process, NEW s, Operation(p, s), ~Admission(p, s),
         NEW x \in Msg
  PROVE  /\ admissions'[x].state = "absent" <=> Swept(s)[x].state = "absent"
         /\ admissions'[x].state = "pending" => Swept(s)[x].state = "pending"
         /\ admissions'[x].to = Swept(s)[x].to
         /\ admissions'[x].kind = Swept(s)[x].kind
         /\ admissions'[x].body => Swept(s)[x].body
         /\ milestones'[x]["admitted"] = SweptFacts(s)[x]["admitted"]
<1>1. /\ Swept(s) \in [Msg -> Rows]
      /\ SweptFacts(s) \in [Msg -> [Fact -> Nat]]
  BY SweptType
<1>3. /\ admissions'[x].state = "absent" <=> Swept(s)[x].state = "absent"
      /\ admissions'[x].state = "pending" => Swept(s)[x].state = "pending"
      /\ admissions'[x].to = Swept(s)[x].to
      /\ admissions'[x].kind = Swept(s)[x].kind
      /\ admissions'[x].body => Swept(s)[x].body
  <2>1. \/ admissions'[x] = Swept(s)[x]
        \/ admissions'[x] = Prepared(Swept(s)[x], mine[p])
        \/ /\ Swept(s)[x].state = "pending"
           /\ admissions'[x] = [Swept(s)[x] EXCEPT !.state = "acked"]
    BY SendAdmits, NotifyAdmits
       DEF Operation, Observe, FencedCall, EnrollCall, Fetch, Ack, Accept, Report, Complete, Acked
  <2> QED
    BY <1>1, <2>1 DEF Prepared, Rows
<1>4. milestones'[x]["admitted"] = SweptFacts(s)[x]["admitted"]
  <2> DEFINE Same(facts) ==
         facts[x] \in [Fact -> Nat] /\ facts[x]["admitted"] = SweptFacts(s)[x]["admitted"]
  <2>1. Same(SweptFacts(s)) /\ Now \in Nat
    BY <1>1, ClockType
  <2>2. ASSUME NEW ids
        PROVE  /\ Same(AckedFacts(Swept(s), SweptFacts(s), ids))
               /\ Same(Recorded(SweptFacts(s), ids, "reported"))
               /\ Same(Recorded(SweptFacts(s), ids, "completed"))
               /\ Same(Recorded(AckedFacts(Swept(s), SweptFacts(s), ids), ids, "accepted"))
    BY <2>1 DEF AckedFacts, Recorded, Fact
  <2>3. ASSUME NEW after, NEW n, Fetch(p, s, after, n)
        PROVE  Same(milestones')
    BY <2>1, <2>3 DEF Fetch, Fact
  <2>4. CASE Observe(p, s) \/ FencedCall(p, s) \/ EnrollCall(p, s)
    BY <2>1, <2>4 DEF Observe, FencedCall, EnrollCall
  <2>5. ASSUME NEW ids, Ack(p, s, ids) \/ Accept(p, s, ids) \/ Complete(p, s, ids)
        PROVE  Same(milestones')
    BY <2>2, <2>5 DEF Ack, Accept, Complete
  <2>6. ASSUME NEW y \in Msg, NEW pointer \in Pointer, Report(p, s, y, pointer)
        PROVE  Same(milestones')
    BY <2>2, <2>6 DEF Report
  <2> QED
    BY <2>3, <2>4, <2>5, <2>6, SendAdmits, NotifyAdmits DEF Operation
<1> QED
  BY <1>3, <1>4

LEMMA CountsAfterOthers ==
  ASSUME MailboxTypeOK, CountInv, NEW p \in Process, NEW s, Operation(p, s), ~Admission(p, s)
  PROVE  CountInv'
<1>1. CountsHold(Swept(s), SweptFacts(s), group.charge)
  BY CountsSwept
<1>2. \A x \in Msg : /\ admissions'[x].state = "absent" <=> Swept(s)[x].state = "absent"
                     /\ admissions'[x].state = "pending" => Swept(s)[x].state = "pending"
                     /\ admissions'[x].to = Swept(s)[x].to
                     /\ admissions'[x].body => Swept(s)[x].body
                     /\ milestones'[x]["admitted"] = SweptFacts(s)[x]["admitted"]
  BY OthersKeep
<1>3. group'.charge = group.charge
  <2>1. group' = Touched(s)
    BY SendAdmits, NotifyAdmits
       DEF Operation, Observe, FencedCall, EnrollCall, Fetch, Ack, Accept, Report, Complete
  <2> QED
    BY <2>1, TouchedType
<1> DEFINE next == admissions'
           nextFacts == milestones'
<1>4. CountsHold(next, nextFacts, group.charge)
  BY <1>1, <1>2, CountsLessen
<1> QED
  BY <1>3, <1>4 DEF CountInv, CountsHold, RowSet, BodySet, PendingTo, Window

\* The limits hold at every step: check_limits on the swept tables is enough, with a clock
\* that steps back, stale snapshots and any number of processes.
THEOREM CountsStay == Spec => []CountInv
<1>1. Init => CountInv
  <2> SUFFICES ASSUME Init PROVE CountInv
    OBVIOUS
  <2>1. /\ RowSet(admissions) = {}
        /\ BodySet(admissions) = {}
        /\ \A to : PendingTo(admissions, to) = {}
        /\ group.charge = 0
    BY DEF Init, RowSet, BodySet, PendingTo, Absent
  <2>2. GroupLimit >= 0 /\ OutstandingLimit >= 0 /\ BodyBudget >= 0
    BY MailboxAssumption
  <2>3. IsFiniteSet({}) /\ Cardinality({}) = 0
    BY FS_EmptySet
  <2> QED
    BY <2>1, <2>2, <2>3 DEF CountInv, CountsHold
<1>2. MailboxTypeOK /\ RowInv /\ CountInv /\ [Next]_vars => CountInv'
  <2> SUFFICES ASSUME MailboxTypeOK, RowInv, CountInv, [Next]_vars
               PROVE  CountInv'
    OBVIOUS
  <2>1. ASSUME NEW p \in Process, NEW s \in seen[p], Operation(p, s)
        PROVE  CountInv'
    <3>1. CASE Admission(p, s)
      BY <3>1, CountsAfterAdmission
    <3>2. CASE ~Admission(p, s)
      BY <2>1, <3>2, CountsAfterOthers
    <3> QED
      BY <3>1, <3>2
  <2>2. (\E p \in Process : ProcessStep(p)) \/ Environment \/ UNCHANGED vars
           => UNCHANGED <<group, admissions, milestones>>
    BY DEF ProcessStep, ConfirmCall, RestartCall, Environment, Advance, Tick, StepBack, mailVars, vars
  <2>3. UNCHANGED <<group, admissions, milestones>> => CountInv'
    BY DEF CountInv, CountsHold, RowSet, BodySet, PendingTo, Window
  <2> QED
    BY <2>1, <2>2, <2>3 DEF Next
<1> QED
  BY <1>1, <1>2, MailboxTyping, RowsStayGood, PTL DEF Spec

\* verify/_admissions and FR15: the charge counts the rows, and it, the pending messages of
\* a recipient and the bodies stored stay within the limits the group was born with, also
\* when one notify admits to several members at once.
THEOREM AccountingStays == Spec => []AccountingHolds
<1>1. CountInv => AccountingHolds
  BY DEF CountInv, CountsHold, RowSet, BodySet, AccountingHolds, IsRow
<1> QED
  BY <1>1, CountsStay, PTL

\* verify/_admissions: no sender ever exceeds its rate over a window that ends at one of
\* its admissions, also when the wall clock stepped back in between.
THEOREM SenderRateStays == Spec => []SenderRateHolds
<1>1. ASSUME NEW m \in Msg
      PROVE  Window(admissions, milestones, m) =
               {x \in Msg : /\ IsRow(x)
                            /\ Sender(x) = Sender(m)
                            /\ milestones[x]["admitted"] <= milestones[m]["admitted"]
                            /\ milestones[m]["admitted"] < milestones[x]["admitted"] + RateWindow}
  BY DEF Window, RowSet, IsRow
<1>2. CountInv => SenderRateHolds
  BY <1>1 DEF CountInv, CountsHold, RowSet, SenderRateHolds, IsRow
<1> QED
  BY <1>2, CountsStay, PTL

-----------------------------------------------------------------------------
(* Request keys *)

\* A request key names one message of its sender for good, a direct one or the shards of
\* one notify, whatever retries, restarts and changes of the formation come between.
THEOREM KeysStayUnique == Spec => []KeyNamesOneMessage
<1>1. Init => KeyNamesOneMessage
  BY DEF Init, KeyNamesOneMessage, IsRow, Absent
<1>2. MailboxTypeOK /\ KeyNamesOneMessage /\ [Next]_vars => KeyNamesOneMessage'
  <2> SUFFICES ASSUME MailboxTypeOK, KeyNamesOneMessage, [Next]_vars
               PROVE  KeyNamesOneMessage'
    OBVIOUS
  <2>1. ASSUME NEW p \in Process, NEW s, Operation(p, s), NEW m \in Msg, NEW n \in Msg,
               IsRow(m)', IsRow(n)', m # n, Request(m) = Request(n)
        PROVE  /\ Nobody \notin {Shard(m), Shard(n)}
               /\ admissions'[m].kind = admissions'[n].kind
               /\ milestones'[m]["admitted"] = milestones'[n]["admitted"]
    <3> DEFINE Stays(x) ==
            /\ IsRow(x)
            /\ admissions'[x].kind = admissions[x].kind
            /\ milestones'[x]["admitted"] = milestones[x]["admitted"]
    <3>1. ASSUME Stays(m), Stays(n)
          PROVE  /\ Nobody \notin {Shard(m), Shard(n)}
                 /\ admissions'[m].kind = admissions'[n].kind
                 /\ milestones'[m]["admitted"] = milestones'[n]["admitted"]
      BY <2>1, <3>1 DEF KeyNamesOneMessage
    <3>2. CASE ~Admission(p, s)
      <4>1. \A x \in {m, n} : Stays(x)
        BY <2>1, <3>2, OthersKeep, SweptKeeps DEF IsRow
      <4> QED
        BY <3>1, <4>1
    <3>3. ASSUME NEW k \in Key, NEW kind \in Kind, NEW to,
                 IsBatch(p, k, to), Admit(p, s, k, to, kind)
          PROVE  /\ Nobody \notin {Shard(m), Shard(n)}
                 /\ admissions'[m].kind = admissions'[n].kind
                 /\ milestones'[m]["admitted"] = milestones'[n]["admitted"]
      <4>1. \A x \in {m, n} : x \notin DOMAIN to =>
              admissions'[x] = Swept(s)[x] /\ milestones'[x] = SweptFacts(s)[x]
        BY <3>3 DEF Admit
      <4>2. \A x \in {m, n} : x \notin DOMAIN to => Stays(x)
        BY <2>1, <4>1, SweptKeeps DEF IsRow
      <4>3. ASSUME NEW x \in {m, n}, NEW y \in {m, n}, x \in DOMAIN to, y \notin DOMAIN to
            PROVE  FALSE
        <5>1. Request(y) = <<MemberOf[p], k>>
          BY <2>1, <3>3, <4>3 DEF IsBatch
        <5>2. Swept(s)[y].state = "absent"
          BY <3>3, <5>1 DEF Admit, Unused
        <5> QED
          BY <2>1, <4>1, <4>3, <5>2 DEF IsRow
      <4>4. CASE m \in DOMAIN to /\ n \in DOMAIN to
        <5>1. Nobody \notin {Shard(m), Shard(n)}
          BY <2>1, <3>3, <4>4 DEF IsBatch
        <5>2. admissions'[m].kind = kind /\ admissions'[n].kind = kind
          BY <3>3, <4>4 DEF Admit, NewRow
        <5>3. /\ SweptFacts(s)[m] \in [Fact -> Nat]
              /\ SweptFacts(s)[n] \in [Fact -> Nat]
          BY SweptType
        <5>4. milestones'[m]["admitted"] = Now /\ milestones'[n]["admitted"] = Now
          BY <3>3, <4>4, <5>3 DEF Admit, Fact
        <5> QED
          BY <5>1, <5>2, <5>4
      <4> QED
        BY <3>1, <4>2, <4>3, <4>4
    <3> QED
      BY <3>2, <3>3 DEF Admission
  <2>2. (\E p \in Process : ProcessStep(p)) \/ Environment \/ UNCHANGED vars
           => UNCHANGED <<admissions, milestones>>
    BY DEF ProcessStep, ConfirmCall, RestartCall, Environment, Advance, Tick, StepBack, mailVars, vars
  <2>3. UNCHANGED <<admissions, milestones>> => KeyNamesOneMessage'
    BY DEF KeyNamesOneMessage, IsRow
  <2>4. ASSUME NEW p \in Process, NEW s, Operation(p, s)
        PROVE  KeyNamesOneMessage'
    BY <2>1, <2>4 DEF KeyNamesOneMessage
  <2> QED
    BY <2>2, <2>3, <2>4 DEF Next
<1> QED
  BY <1>1, <1>2, MailboxTyping, PTL DEF Spec

-----------------------------------------------------------------------------
(* The life of a message: Mailbox implements MessageLifecycle *)

\* derive_handoff on one row and its facts.
PhaseIn(row, facts) ==
    IF facts["completed"] # 0 THEN "completed"
    ELSE IF facts["reported"] # 0 THEN "reported"
    ELSE IF facts["accepted"] # 0 THEN "accepted"
    ELSE row.state

\* What an operation adds after its sweep; the sweep itself only expires.
OwnMoves == Lifecycle!Moves \ {<<"pending", "expired">>}

\* In a good row only an acknowledged request is past its state.
LEMMA PhaseOfGoodRow ==
  ASSUME NEW row \in Rows, NEW facts \in [Fact -> Nat], NEW pointer, NEW t,
         RowOK(row, facts, pointer, t)
  PROVE  /\ PhaseIn(row, facts) \in Lifecycle!Phase
         /\ row.state # "acked" =>
               /\ PhaseIn(row, facts) = row.state
               /\ facts["accepted"] = 0 /\ facts["reported"] = 0 /\ facts["completed"] = 0
         /\ facts["accepted"] = 0 => facts["reported"] = 0
         /\ facts["reported"] = 0 => facts["completed"] = 0
BY DEF RowOK, SettledOnce, HandedOver, Follows, PhaseIn, Rows, Fact, Lifecycle!Phase

\* The sweep expires a pending message or leaves its phase; under an all-terminal snapshot
\* it expires every pending one.
LEMMA SweptPhase ==
  ASSUME MailboxTypeOK, RowInv, NEW s, NEW m \in Msg
  PROVE  LET mid == PhaseIn(Swept(s)[m], SweptFacts(s)[m])
         IN  /\ mid = PhaseOf(m) \/ (PhaseOf(m) = "pending" /\ mid = "expired")
             /\ AllTerminal(s) =>
                   mid = IF PhaseOf(m) = "pending" THEN "expired" ELSE PhaseOf(m)
<1> DEFINE row == Swept(s)[m]
           facts == SweptFacts(s)[m]
<1>1. /\ admissions[m] \in Rows
      /\ milestones[m] \in [Fact -> Nat]
      /\ RowOK(admissions[m], milestones[m], report[m], group.time)
      /\ PhaseOf(m) = PhaseIn(admissions[m], milestones[m])
  BY DEF MailboxTypeOK, RowInv, PhaseOf, PhaseIn, Has
<1>2. /\ row \in Rows
      /\ facts \in [Fact -> Nat]
      /\ RowOK(row, facts, report[m], Now)
  BY <1>1, SweptType, RowSwept
<1>3. /\ row.state = IF Due(s, m) THEN "expired" ELSE admissions[m].state
      /\ \A f \in Fact \ {"expired"} : facts[f] = milestones[m][f]
  BY <1>1 DEF Swept, Expired, SweptFacts, Rows
<1>4. CASE Due(s, m)
  <2>1. admissions[m].state = "pending" /\ row.state = "expired"
    BY <1>3, <1>4 DEF Due
  <2>2. PhaseOf(m) = "pending" /\ PhaseIn(row, facts) = "expired"
    BY <1>1, <1>2, <2>1, PhaseOfGoodRow
  <2> QED
    BY <2>2
<1>5. CASE ~Due(s, m)
  <2>1. PhaseIn(row, facts) = PhaseOf(m)
    BY <1>1, <1>3, <1>5 DEF PhaseIn, Fact
  <2>2. AllTerminal(s) => PhaseOf(m) # "pending"
    <3>1. AllTerminal(s) => row.state # "pending"
      BY SweptClosing
    <3>2. row.state # "pending" => PhaseIn(row, facts) # "pending"
      BY <1>2, PhaseOfGoodRow DEF PhaseIn
    <3> QED
      BY <2>1, <3>1, <3>2
  <2> QED
    BY <2>1, <2>2
<1> QED
  BY <1>4, <1>5

\* Acknowledging moves a pending message of the batch and nothing else.
LEMMA AckedPhase ==
  ASSUME MailboxTypeOK, RowInv, NEW s, NEW ids, NEW m \in Msg
  PROVE  LET mid == PhaseIn(Swept(s)[m], SweptFacts(s)[m])
             row == Acked(Swept(s), ids)[m]
             facts == AckedFacts(Swept(s), SweptFacts(s), ids)[m]
         IN  /\ row \in Rows /\ facts \in [Fact -> Nat]
             /\ RowOK(row, facts, report[m], Now)
             /\ PhaseIn(row, facts) = IF m \in ids /\ mid = "pending" THEN "acked" ELSE mid
             /\ facts["accepted"] = SweptFacts(s)[m]["accepted"]
<1> DEFINE old == Swept(s)[m]
           was == SweptFacts(s)[m]
           row == Acked(Swept(s), ids)[m]
           facts == AckedFacts(Swept(s), SweptFacts(s), ids)[m]
<1>1. /\ old \in Rows
      /\ was \in [Fact -> Nat]
      /\ RowOK(old, was, report[m], Now)
  BY SweptType, RowSwept DEF RowInv
<1>2. /\ row \in Rows
      /\ facts \in [Fact -> Nat]
      /\ RowOK(row, facts, report[m], Now)
  BY <1>1, SweptType, AckedType, RowAcked
<1>3. \A f \in Fact \ {"acked"} : facts[f] = was[f]
  BY <1>1 DEF AckedFacts
<1>4. row.state = IF m \in ids /\ old.state = "pending" THEN "acked" ELSE old.state
  BY <1>1 DEF Acked, Rows
<1>5. PhaseIn(old, was) = "pending" <=> old.state = "pending"
  BY <1>1, PhaseOfGoodRow DEF PhaseIn
<1>6. old.state = "pending" => was["accepted"] = 0 /\ was["reported"] = 0 /\ was["completed"] = 0
  BY <1>1, PhaseOfGoodRow
<1> QED
  BY <1>2, <1>3, <1>4, <1>5, <1>6 DEF PhaseIn, Fact

\* Each transaction moves a message from the phase the sweep left along the lifecycle or
\* leaves it there, and only an admission gives a message its first phase.
AdmittedHere(p, s, m) ==
    \E k \in Key, kind \in Kind :
        \E to : IsBatch(p, k, to) /\ Admit(p, s, k, to, kind) /\ m \in DOMAIN to

LEMMA OperationPhase ==
  ASSUME MailboxTypeOK, RowInv, NEW p \in Process, NEW s \in Roster, Operation(p, s),
         NEW m \in Msg
  PROVE  LET mid == PhaseIn(Swept(s)[m], SweptFacts(s)[m])
             next == PhaseIn(admissions'[m], milestones'[m])
         IN  /\ next # mid => <<mid, next>> \in OwnMoves
             /\ next # mid /\ mid = "absent" =>
                   AdmittedHere(p, s, m)
<1> DEFINE row == Swept(s)[m]
           facts == SweptFacts(s)[m]
           mid == PhaseIn(row, facts)
           next == PhaseIn(admissions'[m], milestones'[m])
           Moved == next # mid => <<mid, next>> \in OwnMoves /\ mid # "absent"
<1>1. /\ row \in Rows
      /\ facts \in [Fact -> Nat]
      /\ RowOK(row, facts, report[m], Now)
      /\ Now \in Nat \ {0}
      /\ Swept(s) \in [Msg -> Rows]
      /\ SweptFacts(s) \in [Msg -> [Fact -> Nat]]
  BY SweptType, RowSwept, ClockType DEF RowInv
<1>2. /\ row.state # "acked" =>
            /\ mid = row.state
            /\ facts["accepted"] = 0 /\ facts["reported"] = 0 /\ facts["completed"] = 0
      /\ facts["accepted"] = 0 => facts["reported"] = 0
      /\ facts["reported"] = 0 => facts["completed"] = 0
  BY <1>1, PhaseOfGoodRow
<1>3. ASSUME Observe(p, s) \/ FencedCall(p, s) \/ EnrollCall(p, s)
      PROVE  next = mid
  BY <1>3 DEF Observe, FencedCall, EnrollCall
<1>4. ASSUME NEW k \in Key, NEW kind \in Kind, NEW to, IsBatch(p, k, to), Admit(p, s, k, to, kind)
      PROVE  /\ next # mid => <<mid, next>> \in OwnMoves
             /\ next # mid => m \in DOMAIN to
  <2>1. CASE m \in DOMAIN to
    <3>1. /\ admissions'[m].state = "pending"
          /\ \A f \in Fact \ {"admitted"} : milestones'[m][f] = facts[f]
          /\ row.state = "absent"
      BY <1>1, <1>4, <2>1 DEF Admit, NewRow, IsBatch, Unused
    <3>2. mid = "absent" /\ next = "pending"
      BY <1>2, <3>1 DEF PhaseIn, Fact
    <3> QED
      BY <2>1, <3>2 DEF OwnMoves, Lifecycle!Moves
  <2>2. CASE m \notin DOMAIN to
    BY <1>1, <1>4, <2>2 DEF Admit
  <2> QED
    BY <2>1, <2>2
<1>5. ASSUME NEW after, NEW n, Fetch(p, s, after, n)
      PROVE  next = mid
  <2>1. admissions'[m].state = row.state
    BY <1>1, <1>5 DEF Fetch, Prepared, Rows
  <2>2. \A f \in Fact \ {"fetch_prepared"} : milestones'[m][f] = facts[f]
    BY <1>1, <1>5 DEF Fetch
  <2> QED
    BY <2>1, <2>2 DEF PhaseIn, Fact
<1>6. ASSUME NEW ids, Ack(p, s, ids)
      PROVE  Moved
  <2>1. next = IF m \in ids /\ mid = "pending" THEN "acked" ELSE mid
    BY <1>6, AckedPhase DEF Ack
  <2> QED
    BY <2>1 DEF OwnMoves, Lifecycle!Moves
<1>7. ASSUME NEW ids, Accept(p, s, ids)
      PROVE  Moved
  <2> DEFINE ackedRow == Acked(Swept(s), ids)[m]
             ackedFacts == AckedFacts(Swept(s), SweptFacts(s), ids)[m]
  <2>1. /\ ackedFacts \in [Fact -> Nat]
        /\ ackedRow \in Rows
        /\ RowOK(ackedRow, ackedFacts, report[m], Now)
        /\ PhaseIn(ackedRow, ackedFacts) = IF m \in ids /\ mid = "pending" THEN "acked" ELSE mid
        /\ ackedFacts["accepted"] = facts["accepted"]
    BY AckedPhase
  <2>2. /\ admissions'[m] = ackedRow
        /\ milestones'[m] = IF m \in ids /\ ackedFacts["accepted"] = 0
                            THEN [ackedFacts EXCEPT !["accepted"] = Now] ELSE ackedFacts
    BY <1>7 DEF Accept, Recorded, Has
  <2>3. CASE m \in ids /\ ackedFacts["accepted"] = 0
    <3>1. row.kind = "request" /\ row.state # "expired"
      BY <1>7, <2>3 DEF Accept
    <3>2. row.state \in {"pending", "acked"} /\ facts["accepted"] = 0
      BY <1>1, <2>1, <2>3, <3>1 DEF RowOK, Addressed, Rows
    <3>3. mid \in {"pending", "acked"}
      BY <1>2, <3>2 DEF PhaseIn
    <3>4. ackedFacts["reported"] = 0 /\ ackedFacts["completed"] = 0
      BY <2>1, <2>3, PhaseOfGoodRow
    <3>5. next = "accepted"
      BY <1>1, <2>1, <2>2, <2>3, <3>4 DEF PhaseIn, Fact
    <3> QED
      BY <3>3, <3>5 DEF OwnMoves, Lifecycle!Moves
  <2>4. CASE m \in ids /\ ackedFacts["accepted"] # 0
    <3>1. mid # "pending"
      BY <1>2, <2>1, <2>4 DEF PhaseIn
    <3> QED
      BY <2>1, <2>2, <2>4, <3>1
  <2>5. CASE m \notin ids
    BY <2>1, <2>2, <2>5
  <2> QED
    BY <2>3, <2>4, <2>5
<1>8. ASSUME NEW ids, Complete(p, s, ids)
      PROVE  Moved
  <2>1. CASE m \in ids /\ facts["completed"] = 0
    <3>1. /\ admissions'[m] = row
          /\ milestones'[m] = [facts EXCEPT !["completed"] = Now]
          /\ facts["reported"] # 0
      BY <1>8, <2>1 DEF Complete, Recorded, Has
    <3>2. mid = "reported" /\ next = "completed"
      BY <1>1, <2>1, <3>1 DEF PhaseIn, Fact
    <3> QED
      BY <3>2 DEF OwnMoves, Lifecycle!Moves
  <2>2. CASE ~(m \in ids /\ facts["completed"] = 0)
    BY <1>8, <2>2 DEF Complete, Recorded, Has
  <2> QED
    BY <2>1, <2>2
<1>9. ASSUME NEW x \in Msg, NEW pointer \in Pointer, Report(p, s, x, pointer)
      PROVE  Moved
  <2>1. CASE m = x
    <3>1. /\ admissions'[m] = row
          /\ milestones'[m] = [facts EXCEPT !["reported"] = Now]
          /\ facts["accepted"] # 0
          /\ facts["reported"] = 0
      BY <1>1, <1>9, <2>1 DEF Report, Recorded, Has
    <3>2. mid = "accepted" /\ next = "reported"
      BY <1>1, <1>2, <3>1 DEF PhaseIn, Fact
    <3> QED
      BY <3>2 DEF OwnMoves, Lifecycle!Moves
  <2>2. CASE m # x
    BY <1>1, <1>9, <2>2 DEF Report, Recorded
  <2> QED
    BY <2>1, <2>2
<1> HIDE DEF mid, next
<1>10. /\ next # mid => <<mid, next>> \in OwnMoves
       /\ next # mid /\ mid = "absent" =>
             AdmittedHere(p, s, m)
  <2>1. CASE next = mid
    BY <2>1
  <2>2. CASE Moved
    BY <2>2
  <2>3. CASE Admission(p, s)
    BY <1>4, <2>3 DEF Admission, AdmittedHere
  <2>4. next = mid \/ Moved \/ Admission(p, s)
    BY <1>3, <1>5, <1>6, <1>7, <1>8, <1>9, OperationKinds
  <2> QED
    BY <2>1, <2>2, <2>3, <2>4
<1> QED
  BY <1>10 DEF mid, next

\* A transaction in an open group is one step of work: each message moves along the
\* lifecycle or stays, and those admitted are of one request.
LEMMA OpenOperationWorks ==
  ASSUME MailboxTypeOK, RowInv, MailboxTypeOK', RowInv', NEW p \in Process,
         NEW s \in Roster, Operation(p, s), Open(s)
  PROVE  Lifecycle!Work
<1>1. ~group.closed /\ ~group'.closed
  <2>1. group'.closed <=> group.closed \/ AllTerminal(s)
    BY ClosingOperation
  <2> QED
    BY <2>1 DEF Open
<1>2. ASSUME NEW m \in Msg
      PROVE  /\ PhaseOf(m)' \in Lifecycle!Phase
             /\ PhaseOf(m)' = PhaseIn(admissions'[m], milestones'[m])
             /\ PhaseOf(m)' # PhaseOf(m) => <<PhaseOf(m), PhaseOf(m)'>> \in Lifecycle!Moves
             /\ PhaseOf(m)' # PhaseOf(m) /\ PhaseOf(m) = "absent" => AdmittedHere(p, s, m)
  <2> DEFINE mid == PhaseIn(Swept(s)[m], SweptFacts(s)[m])
             next == PhaseIn(admissions'[m], milestones'[m])
  <2>1. PhaseOf(m)' = next
    BY DEF PhaseOf, PhaseIn, Has
  <2>2. next \in Lifecycle!Phase
    <3>1. /\ admissions'[m] \in Rows
          /\ milestones'[m] \in [Fact -> Nat]
          /\ RowOK(admissions'[m], milestones'[m], report'[m], group'.time)
      BY DEF MailboxTypeOK, RowInv, RowOK, AdmittedFirst, SettledOnce, HandedOver, Follows,
             BodyKept, Addressed
    <3> QED
      BY <3>1, PhaseOfGoodRow
  <2>3. mid = PhaseOf(m) \/ (PhaseOf(m) = "pending" /\ mid = "expired")
    BY SweptPhase
  <2>4. /\ next # mid => <<mid, next>> \in OwnMoves
        /\ next # mid /\ mid = "absent" => AdmittedHere(p, s, m)
    BY OperationPhase
  <2> HIDE DEF mid, next
  <2>5. mid = "expired" => next = mid
    BY <2>4 DEF OwnMoves, Lifecycle!Moves
  <2>6. next # PhaseOf(m) => <<PhaseOf(m), next>> \in Lifecycle!Moves
    BY <2>3, <2>4, <2>5 DEF OwnMoves, Lifecycle!Moves
  <2>7. next # PhaseOf(m) /\ PhaseOf(m) = "absent" => AdmittedHere(p, s, m)
    BY <2>3, <2>4
  <2> QED
    BY <2>1, <2>2, <2>6, <2>7 DEF next
<1>3. ASSUME NEW m \in Msg, NEW x \in Msg,
             PhaseOf(m)' # PhaseOf(m), PhaseOf(m) = "absent",
             PhaseOf(x)' # PhaseOf(x), PhaseOf(x) = "absent"
      PROVE  Request(m) = Request(x)
  <2>0. PICK k \in Key, kind \in Kind :
           \E to : IsBatch(p, k, to) /\ Admit(p, s, k, to, kind) /\ m \in DOMAIN to
    BY <1>2, <1>3 DEF AdmittedHere
  <2>1. PICK to : IsBatch(p, k, to) /\ Admit(p, s, k, to, kind) /\ m \in DOMAIN to
    BY <2>0
  <2>2. x \in DOMAIN to
    <3>1. SUFFICES ASSUME x \notin DOMAIN to PROVE FALSE
      OBVIOUS
    <3>2. Swept(s)[x] = admissions'[x] /\ SweptFacts(s)[x] = milestones'[x]
      BY <2>1, <3>1 DEF Admit
    <3>3. PhaseOf(x)' = PhaseIn(Swept(s)[x], SweptFacts(s)[x])
      BY <1>2, <3>2
    <3> QED
      BY <1>3, <3>3, SweptPhase
  <2> QED
    BY <2>1, <2>2 DEF IsBatch
<1> QED
  BY <1>1, <1>2, <1>3 DEF Lifecycle!Work, Lifecycle!MovesOnly

\* The transaction that closes the group expires what is pending and nothing else; once it
\* is closed no transaction moves anything.
LEMMA ClosedOperationCloses ==
  ASSUME MailboxTypeOK, RowInv, ClosedGroupIsDrained, NEW p \in Process, NEW s \in Roster,
         Operation(p, s), ~Open(s)
  PROVE  Lifecycle!Close \/ UNCHANGED Lifecycle!vars
<1>1. /\ admissions' = Swept(s)
      /\ milestones' = SweptFacts(s)
      /\ group'.closed
  BY ClosedOperation, ClosingOperation DEF Open
<1>2. \A m \in Msg : PhaseOf(m)' = PhaseIn(Swept(s)[m], SweptFacts(s)[m])
  BY <1>1 DEF PhaseOf, PhaseIn, Has
<1>3. CASE group.closed
  <2>1. \A m \in Msg : PhaseOf(m) # "pending"
    BY <1>3 DEF ClosedGroupIsDrained, PhaseOf
  <2>2. \A m \in Msg : PhaseOf(m)' = PhaseOf(m)
    BY <1>2, <2>1, SweptPhase
  <2> QED
    BY <1>1, <1>3, <2>2 DEF Lifecycle!vars
<1>4. CASE ~group.closed
  <2>1. AllTerminal(s)
    BY <1>4 DEF Open
  <2>2. \A m \in Msg : PhaseOf(m)' = IF PhaseOf(m) = "pending" THEN "expired" ELSE PhaseOf(m)
    BY <1>2, <2>1, SweptPhase
  <2> QED
    BY <1>1, <1>4, <2>2 DEF Lifecycle!Close
<1> QED
  BY <1>3, <1>4

\* The mailbox implements the lifecycle that derive_handoff shows to a reader, for any
\* clock, any stale snapshot and any number of messages and processes.
THEOREM MailboxImplementsLifecycle == Spec => ImplementsLifecycle
<1>1. Init => Lifecycle!Init
  BY DEF Init, Lifecycle!Init, PhaseOf, Has, Absent, Fact
<1>2. MailboxTypeOK /\ MailboxTypeOK' /\ RowInv /\ RowInv' /\ ClosedGroupIsDrained /\ [Next]_vars
        => [Lifecycle!Next]_(Lifecycle!vars)
  <2> SUFFICES ASSUME MailboxTypeOK, MailboxTypeOK', RowInv, RowInv', ClosedGroupIsDrained,
                      [Next]_vars
               PROVE  [Lifecycle!Next]_(Lifecycle!vars)
    OBVIOUS
  <2>1. ASSUME NEW p \in Process, NEW s \in seen[p], Operation(p, s)
        PROVE  [Lifecycle!Next]_(Lifecycle!vars)
    <3>1. s \in Roster
      BY DEF MailboxTypeOK
    <3>2. CASE Open(s)
      BY <2>1, <3>1, <3>2, OpenOperationWorks DEF Lifecycle!Next
    <3>3. CASE ~Open(s)
      BY <2>1, <3>1, <3>3, ClosedOperationCloses DEF Lifecycle!Next
    <3> QED
      BY <3>2, <3>3
  <2>2. (\E p \in Process : ProcessStep(p)) \/ Environment \/ UNCHANGED vars
           => UNCHANGED <<group, admissions, milestones>>
    BY DEF ProcessStep, ConfirmCall, RestartCall, Environment, Advance, Tick, StepBack, mailVars, vars
  <2>3. UNCHANGED <<group, admissions, milestones>> => UNCHANGED Lifecycle!vars
    BY DEF Lifecycle!vars, PhaseOf, Has
  <2> QED
    BY <2>1, <2>2, <2>3 DEF Next
<1> QED
  BY <1>1, <1>2, MailboxTyping, RowsStayGood, ClosureDrains, PTL
     DEF Spec, ImplementsLifecycle, Lifecycle!Spec

================================================================================
