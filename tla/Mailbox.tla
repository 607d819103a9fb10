-------------------------------- MODULE Mailbox --------------------------------
(***************************************************************************)
(* The peer mailbox of one formation (src/trw_mcp/comms): one SQLite file, *)
(* opened by the serving processes of all the members.  Every operation is *)
(* one BEGIN IMMEDIATE transaction (_store.immediate), so one action here  *)
(* is one whole transaction: the group clock advances, due messages expire,*)
(* old bodies are dropped, an all-terminal formation closes the group, and *)
(* then the operation itself runs on what the sweep left.  A refused       *)
(* operation rolls back to a savepoint that keeps the sweep: it is Observe *)
(* (or FencedCall when the refusal marks its process displaced).           *)
(*                                                                         *)
(* What runs outside the transaction is what makes the mailbox hard: the   *)
(* membership snapshot is read before it (so it may be stale inside), the  *)
(* wall clock may step back, enrollment is published in memory after it    *)
(* (Endpoints), and processes restart.                                     *)
(*                                                                         *)
(* Left out: bodies are all of one size, the digest of a message is its    *)
(* recipient and kind, refusal counters only inform, a lease only lets a   *)
(* notify skip its owner, and the expiry time of a row is its admission    *)
(* time plus the (constant) TTL.                                           *)
(***************************************************************************)
EXTENDS Endpoints

CONSTANTS
    Key,              \* request keys a sender names its messages with
    Kind,             \* bound: kinds sent, of request and note (reply or status)
    Pointer,          \* next-read pointers of a handoff report
    NoPointer,        \* no report
    Ttl,              \* comms_message_ttl_seconds
    Grace,            \* comms_retry_grace_seconds: a body outlives its message by this
    GroupLimit,       \* admissions a group may ever hold
    OutstandingLimit, \* pending messages a recipient may have
    BodyBudget,       \* bodies a group may store at once
    RateWindow,       \* the sender rate window: 60 seconds in the code
    RateLimit,        \* admissions of one sender within the window
    FetchMax,         \* messages of one page
    MaxRecipients,    \* comms_scope_max_recipients; 0 (bound) leaves scoped notify out
    InitRoster,       \* membership when the first process starts
    Senders,          \* bound: the members that send
    Receivers,        \* bound: the members that enroll
    Changing,         \* bound: the members whose status may still change
    Revivable,        \* bound: those the orchestrator may also take back from terminal
    MaxTime,          \* bound: the last instant of the wall clock
    ClockSteps        \* whether the wall clock may step back

\* A message: its sender, its request key and its shard.  A direct message has none
\* (Nobody); a scoped notify is stored as one shard for each owner it reached.
Msg == {m \in Senders \X Key \X (Member \cup {Nobody}) :
            m[3] = Nobody \/ (m[3] # m[1] /\ MaxRecipients > 0)}
Status == {"waiting", "eligible", "terminal"}
Roster == [Member -> Status]
Fact == {"admitted", "fetch_prepared", "acked", "expired", "accepted", "reported", "completed"}

ASSUME MailboxAssumption ==
    /\ {Ttl, Grace, GroupLimit, OutstandingLimit, BodyBudget} \subseteq Nat
    /\ {RateWindow, RateLimit, FetchMax, MaxTime} \subseteq Nat \ {0}
    /\ MaxRecipients \in Nat
    /\ IsFiniteSet(Member)
    /\ Nobody \notin Member
    /\ Senders \in SUBSET Member
    /\ Receivers \in SUBSET Member
    /\ NoPointer \notin Pointer
    /\ Kind \in SUBSET {"request", "note"}
    /\ InitRoster \in Roster
    /\ Changing \in SUBSET Member
    /\ Revivable \in SUBSET Member
    /\ ClockSteps \in BOOLEAN

VARIABLES
    roster,       \* the formation manifest: status of each member (external)
    seen,         \* [Process -> rosters a call of the process may have read]
    wall,         \* the wall clock, from 1 on
    group,        \* the groups row: [time, closed, charge]; time 0 before its birth
    admissions,   \* [Msg -> row]: the admissions table
    milestones,   \* [Msg -> [Fact -> time]]: the milestones table, 0 when not recorded
    report,       \* [Msg -> pointer]: the handoff_reports table
    fetchers      \* history: [Msg -> the incarnations the message was given to]

mailVars == <<group, admissions, milestones, report, fetchers>>
outside == <<roster, seen, wall>>
vars == <<endpointVars, roster, seen, wall, group, admissions, milestones, report, fetchers>>

-----------------------------------------------------------------------------
(* Rows *)

Sender(m) == m[1]
Shard(m) == m[3]

\* What a sender names with one key: a direct message or the shards of one notify.
Request(m) == <<m[1], m[2]>>

Absent == [state |-> "absent", to |-> Nobody, kind |-> "none", id |-> 0,
           body |-> FALSE, preparer |-> NoInc, deliveries |-> 0]

\* insert_admission: a pending row that no incarnation has prepared (NEVER_PREPARED).
NewRow(to, kind, id) ==
    [state |-> "pending", to |-> to, kind |-> kind, id |-> id,
     body |-> TRUE, preparer |-> NoInc, deliveries |-> 0]

Has(facts, m, f) == facts[m][f] # 0

ExpiresAt(m) == milestones[m]["admitted"] + Ttl

-----------------------------------------------------------------------------
(* What every transaction does first: _operation *)

\* Seeded fault of Now: the persisted group time is ignored.
Now_Wall == wall

\* effective_time: the wall clock, but never before the last persisted group time.
Now == IF wall > group.time THEN wall ELSE group.time

AllTerminal(s) == \A m \in Member : s[m] = "terminal"

\* Seeded fault of Due: a settled row may expire as well.
Due_Settled(s, m) ==
    \/ ExpiresAt(m) <= group.time
    \/ admissions[m].state = "pending" /\ s[admissions[m].to] = "terminal"

\* Seeded fault of Due: a terminal recipient does not end its messages.
Due_ByDeadline(s, m) == admissions[m].state = "pending" /\ ExpiresAt(m) <= Now

\* expire_due: pending rows past their deadline, or addressed to a terminal member.
Due(s, m) ==
    /\ admissions[m].state = "pending"
    /\ ExpiresAt(m) <= Now \/ s[admissions[m].to] = "terminal"

Expired(s, m) ==
    IF Due(s, m) THEN [admissions[m] EXCEPT !.state = "expired"] ELSE admissions[m]

\* Seeded fault of Tombstoned: only acknowledged messages lose their body.
Tombstoned_AckedOnly(m, row) == row.state = "acked" /\ ExpiresAt(m) + Grace <= Now

\* tombstone_due: the body goes once the row is terminal and the grace has passed.
Tombstoned(m, row) ==
    row.state # "pending" /\ ExpiresAt(m) + Grace <= Now

\* The admissions and milestones tables after the sweep under snapshot s.
Swept(s) ==
    [m \in Msg |-> IF Tombstoned(m, Expired(s, m))
                   THEN [Expired(s, m) EXCEPT !.body = FALSE]
                   ELSE Expired(s, m)]

\* Seeded fault of SweptFacts: expiry records no fact.
SweptFacts_Silent(s) == milestones

SweptFacts(s) ==
    [m \in Msg |-> IF Due(s, m) THEN [milestones[m] EXCEPT !["expired"] = Now]
                   ELSE milestones[m]]

\* ensure_group, touch_group_time and the irreversible closure of the group.
Touched(s) == [group EXCEPT !.time = Now, !.closed = @ \/ AllTerminal(s)]

\* Seeded fault of Open: closure is read off the snapshot of the call alone.
Open_BySnapshot(s) == ~AllTerminal(s)

Open(s) == ~group.closed /\ ~AllTerminal(s)

\* A call of process p under the snapshot s it read: its member may operate, or the
\* formation is over and the call may only observe that.
Caller(p, s) ==
    /\ s \in seen[p]
    /\ s[MemberOf[p]] = "eligible" \/ AllTerminal(s)

-----------------------------------------------------------------------------
(* The operations of the mailbox *)

\* What a transaction of process p under s leaves alone besides its own effect.
Quiet == UNCHANGED <<endpointVars, roster, seen, wall>>

\* A read (status, list, heartbeat), an exact retry or a refused operation: the sweep
\* is committed all the same.
Observe(p, s) ==
    /\ Caller(p, s)
    /\ admissions' = Swept(s)
    /\ milestones' = SweptFacts(s)
    /\ group' = Touched(s)
    /\ UNCHANGED <<report, fetchers>>
    /\ Quiet

\* An owning operation of a displaced process: refused, the sweep committed.
FencedCall(p, s) ==
    /\ Caller(p, s)
    /\ ~AllTerminal(s)
    /\ Fence(p)
    /\ admissions' = Swept(s)
    /\ milestones' = SweptFacts(s)
    /\ group' = Touched(s)
    /\ UNCHANGED <<report, fetchers, roster, seen, wall>>

\* peers(enroll): the transaction that writes the endpoint row.
EnrollCall(p, s) ==
    /\ Caller(p, s)
    /\ Open(s)
    /\ MemberOf[p] \in Receivers
    /\ Enroll(p)
    /\ admissions' = Swept(s)
    /\ milestones' = SweptFacts(s)
    /\ group' = Touched(s)
    /\ UNCHANGED <<report, fetchers, roster, seen, wall>>

ConfirmCall(p) == ConfirmAny(p) /\ UNCHANGED <<roster, seen, wall, mailVars>>

\* A restarted process holds no call, so no old snapshot either.
RestartCall(p) ==
    /\ Restart(p)
    /\ seen' = [seen EXCEPT ![p] = {roster}]
    /\ UNCHANGED <<roster, wall, mailVars>>

\* check_limits, on the tables the sweep left, for a batch of n messages.  The code checks
\* and inserts one after the other, so each is counted against the ones before it.
WithinGroupLimit(n) == group.charge + n <= GroupLimit

\* Seeded fault of WithinBodyBudget: the bodies of settled messages are not counted.
WithinBodyBudget_Pending(adm, n) ==
    Cardinality({m \in Msg : adm[m].body /\ adm[m].state = "pending"}) + n <= BodyBudget

WithinBodyBudget(adm, n) == Cardinality({m \in Msg : adm[m].body}) + n <= BodyBudget

PendingTo(adm, to) == {m \in Msg : adm[m].state = "pending" /\ adm[m].to = to}

WithinOutstanding(adm, to) == Cardinality(PendingTo(adm, to)) < OutstandingLimit

RecentFrom(adm, from) ==
    {m \in Msg : /\ adm[m].state # "absent"
                 /\ Sender(m) = from
                 /\ milestones[m]["admitted"] <= Now
                 /\ Now < milestones[m]["admitted"] + RateWindow}

\* Seeded fault of WithinRate: a notify is checked once, as if it were one message.
WithinRate_Once(adm, from, n) == Cardinality(RecentFrom(adm, from)) < RateLimit

WithinRate(adm, from, n) == Cardinality(RecentFrom(adm, from)) + n <= RateLimit

\* Seeded fault of Unused: a direct send does not ask whether a notify has its key.
Unused_RawKey(s, from, k) == Swept(s)[<<from, k, Nobody>>].state = "absent"

\* The sender used the key for nothing yet, neither directly nor for a notify.
Unused(s, from, k) ==
    LET rows == Swept(s)
    IN  \A m \in Msg : Request(m) = <<from, k>> => rows[m].state = "absent"

\* admit, for a batch of new messages under one key: to says whom each is for.  All of
\* them are admitted or, when a limit refuses one, none.
\* MaxTime bounds the admissions so that every deadline is within the clock.
Admit(p, s, k, to, kind) ==
    LET from == MemberOf[p]
        rows == Swept(s)
        facts == SweptFacts(s)
        batch == DOMAIN to
        n == Cardinality(batch)
    IN  /\ Caller(p, s)
        /\ Open(s)
        /\ ~IsDisplaced(p)
        /\ Unused(s, from, k)
        /\ WithinGroupLimit(n)
        /\ WithinBodyBudget(rows, n)
        /\ \A m \in batch : WithinOutstanding(rows, to[m])
        /\ WithinRate(rows, from, n)
        /\ Now + Ttl + Grace <= MaxTime
        /\ admissions' = [m \in Msg |-> IF m \in batch THEN NewRow(to[m], kind, group.charge + 1)
                                        ELSE rows[m]]
        /\ milestones' = [m \in Msg |-> IF m \in batch THEN [facts[m] EXCEPT !["admitted"] = Now]
                                        ELSE facts[m]]
        /\ group' = [Touched(s) EXCEPT !.charge = @ + n]
        /\ UNCHANGED <<report, fetchers>>
        /\ Quiet

\* send: one message to an eligible member of the snapshot; a handoff is never addressed
\* to its sender.  A key its sender already used admits nothing: an exact retry returns
\* the same receipt, another content is refused (Observe).
Send(p, s, k, to, kind) ==
    LET from == MemberOf[p]
    IN  /\ from \in Senders
        /\ s[to] = "eligible"
        /\ ~(kind = "request" /\ to = from)
        /\ Admit(p, s, k, [m \in {<<from, k, Nobody>>} |-> to], kind)

\* notify: one shard for each owner of the scope that listens.  Owners that are not
\* eligible or have no live endpoint are skipped, so owners are any enrolled members: what
\* they own and their leases are left out.  A retry admits nothing, to whomever the scope
\* reaches by then.  The shards share one position: no two have the same recipient.
Notify(p, s, k, owners, kind) ==
    LET from == MemberOf[p]
    IN  /\ from \in Senders \ owners
        /\ Cardinality(owners) \in 1..MaxRecipients
        /\ \A o \in owners : s[o] = "eligible" /\ endpoint[o].inc # NoInc
        /\ Admit(p, s, k, [m \in {<<from, k, o>> : o \in owners} |-> Shard(m)], kind)

\* A receiver operation of p: fenced by its incarnation, in an open group.
Receiver(p, s) == Caller(p, s) /\ Open(s) /\ Holds(p)

\* Positions a cursor of p may name: rows an earlier page gave to this incarnation.
Cursors(p) == {0} \cup {admissions[m].id : m \in {x \in Msg : mine[p] \in fetchers[x]}}

\* The n oldest pending messages for the member of p after the cursor.
Page(p, s, after, n) ==
    LET rows == Swept(s)
        waiting == {m \in PendingTo(rows, MemberOf[p]) : rows[m].id > after}
    IN  {m \in waiting : Cardinality({x \in waiting : rows[x].id < rows[m].id}) < n}

\* Seeded fault of Prepared: the count goes down.
Prepared_CountsDown(row, inc) ==
    IF row.preparer = inc THEN row
    ELSE [row EXCEPT !.preparer = inc, !.deliveries = @ - 1]

\* Seeded fault of Prepared: every page counts, also for the same incarnation.
Prepared_EveryPage(row, inc) == [row EXCEPT !.preparer = inc, !.deliveries = @ + 1]

\* prepare_fetch: a new preparer counts one more delivery.
Prepared(row, inc) ==
    IF row.preparer = inc THEN row
    ELSE [row EXCEPT !.preparer = inc, !.deliveries = @ + 1]

\* fetch: the byte bound cuts the page at n of at most FetchMax messages.
Fetch(p, s, after, n) ==
    LET rows == Swept(s)
        facts == SweptFacts(s)
        page == Page(p, s, after, n)
    IN  /\ Receiver(p, s)
        /\ page # {}
        /\ admissions' = [m \in Msg |-> IF m \in page THEN Prepared(rows[m], mine[p]) ELSE rows[m]]
        /\ milestones' = [m \in Msg |->
                IF m \in page /\ ~Has(facts, m, "fetch_prepared")
                THEN [facts[m] EXCEPT !["fetch_prepared"] = Now]
                ELSE facts[m]]
        /\ fetchers' = [m \in Msg |-> IF m \in page THEN fetchers[m] \cup {mine[p]} ELSE fetchers[m]]
        /\ group' = Touched(s)
        /\ UNCHANGED report
        /\ Quiet

\* acknowledge: the pending rows among ids become acked, with their fact.
Acked(rows, ids) ==
    [m \in Msg |-> IF m \in ids /\ rows[m].state = "pending"
                   THEN [rows[m] EXCEPT !.state = "acked"] ELSE rows[m]]

\* Seeded fault of AckedFacts: the acknowledgement records no fact.
AckedFacts_Silent(rows, facts, ids) == facts

AckedFacts(rows, facts, ids) ==
    [m \in Msg |-> IF m \in ids /\ rows[m].state = "pending"
                   THEN [facts[m] EXCEPT !["acked"] = Now] ELSE facts[m]]

\* The fact f recorded now on every message of ids that lacks it.
Recorded(facts, ids, f) ==
    [m \in Msg |-> IF m \in ids /\ ~Has(facts, m, f)
                   THEN [facts[m] EXCEPT ![f] = Now] ELSE facts[m]]

\* The stored messages one call may name (comms_fetch_max_items).
Batches == {ids \in SUBSET {m \in Msg : admissions[m].state # "absent"} :
               ids # {} /\ Cardinality(ids) <= FetchMax}

\* ack: the whole batch is authorized first (validate_ack).
Ack(p, s, ids) ==
    /\ Receiver(p, s)
    /\ \A m \in ids : /\ Swept(s)[m].to = MemberOf[p]
                      /\ Swept(s)[m].state \in {"pending", "acked"}
    /\ admissions' = Acked(Swept(s), ids)
    /\ milestones' = AckedFacts(Swept(s), SweptFacts(s), ids)
    /\ group' = Touched(s)
    /\ UNCHANGED <<report, fetchers>>
    /\ Quiet

\* accept: the recipient of requests that have not expired; a pending one is acked first.
Accept(p, s, ids) ==
    /\ Receiver(p, s)
    /\ \A m \in ids : /\ Swept(s)[m].to = MemberOf[p]
                      /\ Swept(s)[m].kind = "request"
                      /\ Swept(s)[m].state # "expired"
    /\ admissions' = Acked(Swept(s), ids)
    /\ milestones' = Recorded(AckedFacts(Swept(s), SweptFacts(s), ids), ids, "accepted")
    /\ group' = Touched(s)
    /\ UNCHANGED <<report, fetchers>>
    /\ Quiet

\* report: once, with its pointer; another pointer is refused, the same one is a retry.
Report(p, s, m, pointer) ==
    /\ Receiver(p, s)
    /\ Swept(s)[m].to = MemberOf[p]
    /\ Swept(s)[m].kind = "request"
    /\ Has(SweptFacts(s), m, "accepted")
    /\ ~Has(SweptFacts(s), m, "reported")
    /\ admissions' = Swept(s)
    /\ milestones' = Recorded(SweptFacts(s), {m}, "reported")
    /\ report' = [report EXCEPT ![m] = pointer]
    /\ group' = Touched(s)
    /\ UNCHANGED fetchers
    /\ Quiet

\* complete: the sender of reported requests it did not address to itself; fenced as a send.
Complete(p, s, ids) ==
    /\ Caller(p, s)
    /\ Open(s)
    /\ ~IsDisplaced(p)
    /\ \A m \in ids : /\ Swept(s)[m].state # "absent"
                      /\ Sender(m) = MemberOf[p]
                      /\ Swept(s)[m].to # MemberOf[p]
                      /\ Swept(s)[m].kind = "request"
                      /\ Has(SweptFacts(s), m, "reported")
    /\ admissions' = Swept(s)
    /\ milestones' = Recorded(SweptFacts(s), ids, "completed")
    /\ group' = Touched(s)
    /\ UNCHANGED <<report, fetchers>>
    /\ Quiet

-----------------------------------------------------------------------------
(* The formation and the clock, outside the mailbox *)

\* The manifest changes: a declared member joins, the orchestrator or its own delivery
\* ends a member, and a revision may take a verdict back.  Calls in flight may still hold
\* the older roster.
Advance(m, status) ==
    /\ m \in Changing
    /\ \/ roster[m] = "waiting" /\ status = "eligible"
       \/ roster[m] # "terminal" /\ status = "terminal"
       \/ roster[m] = "terminal" /\ m \in Revivable /\ status = "eligible"
    /\ roster' = [roster EXCEPT ![m] = status]
    /\ seen' = [p \in Process |-> seen[p] \cup {roster'}]
    /\ UNCHANGED <<endpointVars, wall, mailVars>>

Tick ==
    /\ wall < MaxTime
    /\ wall' = wall + 1
    /\ UNCHANGED <<endpointVars, roster, seen, mailVars>>

\* NTP, a restored machine or an operator sets the clock back.
StepBack(t) ==
    /\ ClockSteps
    /\ t < wall
    /\ wall' = t
    /\ UNCHANGED <<endpointVars, roster, seen, mailVars>>

-----------------------------------------------------------------------------
(* The specification *)

Init ==
    /\ EndpointInit
    /\ roster = InitRoster
    /\ seen = [p \in Process |-> {InitRoster}]
    /\ wall = 1
    /\ group = [time |-> 0, closed |-> FALSE, charge |-> 0]
    /\ admissions = [m \in Msg |-> Absent]
    /\ milestones = [m \in Msg |-> [f \in Fact |-> 0]]
    /\ report = [m \in Msg |-> NoPointer]
    /\ fetchers = [m \in Msg |-> {}]

\* Every operation a process may run under a snapshot it read.
Operation(p, s) ==
    \/ Observe(p, s)
    \/ FencedCall(p, s)
    \/ EnrollCall(p, s)
    \/ \E k \in Key, to \in Member, kind \in Kind : Send(p, s, k, to, kind)
    \/ \E k \in Key, owners \in SUBSET Member, kind \in Kind : Notify(p, s, k, owners, kind)
    \/ \E after \in Cursors(p), n \in 1..FetchMax : Fetch(p, s, after, n)
    \/ \E ids \in Batches : Ack(p, s, ids) \/ Accept(p, s, ids) \/ Complete(p, s, ids)
    \/ \E m \in Msg, pointer \in Pointer : Report(p, s, m, pointer)

ProcessStep(p) == ConfirmCall(p) \/ RestartCall(p)

Environment ==
    \/ \E m \in Member, status \in Status : Advance(m, status)
    \/ Tick
    \/ \E t \in 1..MaxTime : StepBack(t)

Next ==
    \/ \E p \in Process : ProcessStep(p) \/ \E s \in seen[p] : Operation(p, s)
    \/ Environment

Spec == Init /\ [][Next]_vars

\* Time passes, declared members join or end, and a member that can call keeps calling
\* with the manifest as it is.
LiveSpec ==
    /\ Spec
    /\ WF_vars(Tick)
    /\ WF_vars(\E m \in Member : Advance(m, "eligible"))
    /\ SF_vars(\E p \in Process : Observe(p, roster))

\* Clients keep calling: an enrollment that stays possible is made, and a committed call
\* goes on to publish its token (it runs straight after the commit).
EnrollingSpec ==
    /\ Spec
    /\ \A p \in Process : /\ WF_vars(\E s \in seen[p] : EnrollCall(p, s))
                          /\ WF_vars(ConfirmCall(p))

-----------------------------------------------------------------------------
(* Safety: what _schema.verify demands of every committed state.  A mailbox that *)
(* fails it is refused as corrupt by every later operation, for good.            *)

IsRow(m) == admissions[m].state # "absent"

Rows == [state : {"absent", "pending", "acked", "expired"}, to : Member \cup {Nobody},
         kind : Kind \cup {"none"}, id : Nat, body : BOOLEAN, preparer : Nat, deliveries : Nat]

\* Types of the tables, the roster and the clock.
MailboxTypeOK ==
    /\ EndpointTypeOK
    /\ roster \in Roster
    /\ seen \in [Process -> SUBSET Roster]
    /\ wall \in Nat \ {0}
    /\ group \in [time : Nat, closed : BOOLEAN, charge : Nat]
    /\ admissions \in [Msg -> Rows]
    /\ milestones \in [Msg -> [Fact -> Nat]]
    /\ report \in [Msg -> Pointer \cup {NoPointer}]
    /\ fetchers \in [Msg -> SUBSET Nat]

\* verify/_milestones: a row exists exactly with its admitted fact, no fact is orphaned,
\* and every fact lies between the admission and the persisted group clock, however the
\* wall clock steps.
FactsWithinClock ==
    \A m \in Msg :
        /\ IsRow(m) <=> Has(milestones, m, "admitted")
        /\ \A f \in Fact : Has(milestones, m, f) =>
              /\ IsRow(m)
              /\ milestones[m]["admitted"] <= milestones[m][f]
              /\ milestones[m][f] <= group.time

\* verify/_milestones: the terminal facts of a message are exactly its terminal state,
\* and it was not prepared for a fetch after it settled.
TerminalFactsAgree ==
    \A m \in Msg :
        /\ \A f \in {"acked", "expired"} :
              Has(milestones, m, f) <=> admissions[m].state = f
        /\ \A f \in {"acked", "expired"} :
              Has(milestones, m, f) => milestones[m]["fetch_prepared"] <= milestones[m][f]

\* verify/_handoffs: the handoff facts form a chain in time order on requests alone,
\* and a pointer is stored exactly when the report is recorded.
HandoffChain ==
    \A m \in Msg :
        /\ \A c \in {<<"acked", "accepted">>, <<"accepted", "reported">>, <<"reported", "completed">>} :
              Has(milestones, m, c[2]) =>
                 /\ admissions[m].kind = "request"
                 /\ Has(milestones, m, c[1])
                 /\ milestones[m][c[1]] <= milestones[m][c[2]]
        /\ report[m] # NoPointer <=> Has(milestones, m, "reported")

\* verify/_admissions and FR15: the charge counts the rows, and neither it, nor the pending
\* messages of a recipient, nor the bodies stored exceed the limits the group was born with.
AccountingHolds ==
    /\ group.charge = Cardinality({m \in Msg : IsRow(m)})
    /\ group.charge <= GroupLimit
    /\ \A to \in Member : Cardinality(PendingTo(admissions, to)) <= OutstandingLimit
    /\ Cardinality({m \in Msg : admissions[m].body}) <= BodyBudget

\* verify/_admissions: over every window that ends at an admission, its sender made at
\* most RateLimit admissions, even when the wall clock stepped back in between.
SenderRateHolds ==
    \A m \in Msg : IsRow(m) =>
        Cardinality({x \in Msg : /\ IsRow(x)
                                 /\ Sender(x) = Sender(m)
                                 /\ milestones[x]["admitted"] <= milestones[m]["admitted"]
                                 /\ milestones[m]["admitted"] < milestones[x]["admitted"] + RateWindow})
            <= RateLimit

-----------------------------------------------------------------------------
(* Safety beyond the verifier *)

\* Closure strands nothing: the transaction that closes the group expires what was
\* pending, and no call with an older snapshot admits a message afterwards.
ClosedGroupIsDrained == group.closed => \A m \in Msg : admissions[m].state # "pending"

\* After closure no fact is recorded, nothing is delivered and nothing is reported, even
\* by a call that read the membership before the formation ended.
ClosedGroupIsFrozen ==
    [][group.closed => UNCHANGED <<milestones, report, fetchers>>]_vars

\* delivery_count counts the distinct incarnations that were given the message: fencing
\* keeps an old incarnation from fetching again after a newer one (prepare_fetch).
DeliveriesCountIncarnations ==
    \A m \in Msg : admissions[m].deliveries = Cardinality(fetchers[m])

\* Redelivery only moves forward: a message given to an incarnation is never given to an
\* older one afterwards, so a displaced process that is still polling cannot read what its
\* successor was already given (receiver_incarnation, FR12).
RedeliveryMovesForward ==
    [][\A m \in Msg : \A old \in fetchers[m], new \in fetchers'[m] \ fetchers[m] : old < new]_vars

\* A body is there for every reader and exact retry until its message is terminal and
\* the grace after its deadline has passed on the group clock (tombstone_due, FR15).
BodyOutlivesGrace ==
    \A m \in Msg : IsRow(m) /\ ~admissions[m].body =>
        /\ admissions[m].state # "pending"
        /\ ExpiresAt(m) + Grace <= group.time

\* A request key names one message of its sender for good: a direct message or the shards
\* of one notify, all admitted at once, and no retry adds to them (admit, reconcile_retry).
KeyNamesOneMessage ==
    \A m, n \in Msg : IsRow(m) /\ IsRow(n) /\ m # n /\ Request(m) = Request(n) =>
        /\ Nobody \notin {Shard(m), Shard(n)}
        /\ admissions[m].kind = admissions[n].kind
        /\ milestones[m]["admitted"] = milestones[n]["admitted"]

-----------------------------------------------------------------------------
(* Liveness *)

\* Every admitted message is settled and its body is freed in the end, although expiry
\* and tombstoning only ever run inside the calls of the members.
EveryBodyIsFreed ==
    \A m \in Msg : (admissions[m].state = "pending") ~> (IsRow(m) /\ ~admissions[m].body)

-----------------------------------------------------------------------------
(* Refinement: the tables implement MessageLifecycle *)

\* derive_handoff: the furthest recorded fact of a handoff is its state.
PhaseOf(m) ==
    IF Has(milestones, m, "completed") THEN "completed"
    ELSE IF Has(milestones, m, "reported") THEN "reported"
    ELSE IF Has(milestones, m, "accepted") THEN "accepted"
    ELSE admissions[m].state

Lifecycle == INSTANCE MessageLifecycle WITH
    request <- [m \in Msg |-> Request(m)],
    phase <- [m \in Msg |-> PhaseOf(m)],
    open <- ~group.closed

\* Every transaction moves each message along the lifecycle or leaves it, and closing
\* the group is the last thing that changes any of them.
ImplementsLifecycle == Lifecycle!Spec

================================================================================
