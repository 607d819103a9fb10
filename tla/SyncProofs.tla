------------------------------- MODULE SyncProofs -------------------------------
(***************************************************************************)
(* Proofs about Sync, for any actors, rows, page sizes and feeds.          *)
(*                                                                         *)
(* SyncInv says what every document on its way to sync-state.json may      *)
(* claim (DocsGood: of the file, the temporary file and what an actor is   *)
(* writing), what an actor may trust of its page (PullsGood) and of its    *)
(* push (PushesGood), and that a clean row was taken (CleanGood).  None of *)
(* it mentions the lock: the backend, the rows and what the merge judged   *)
(* only grow, so a stale document stays true, and so a retry that rewrites *)
(* the file without the lock loses updates and no learning.  That cursors  *)
(* never fall does need the lock (CursorsRise).                            *)
(***************************************************************************)
EXTENDS Sync, FiniteSetTheorems, TLAPS

-----------------------------------------------------------------------------
(* Pages and segments *)

\* Before is a strict total order of the rows.
LEMMA BeforeOrders ==
    ASSUME NEW versions \in [Row -> Nat], NEW r \in Row, NEW s \in Row
    PROVE  /\ ~Before(versions, r, r)
           /\ r # s => Before(versions, r, s) \/ Before(versions, s, r)
           /\ \A q \in Row : Before(versions, r, s) /\ Before(versions, s, q) => Before(versions, r, q)
           /\ ~(Before(versions, r, s) /\ Before(versions, s, r))
BY SyncAssumption DEF Before

\* First(S, n) is cut at one place: what is in precedes what is out.
LEMMA FirstIsSegment ==
    ASSUME NEW versions \in [Row -> Nat], NEW S \in SUBSET Row, NEW n \in Nat,
           NEW r \in First(versions, S, n), NEW s \in S \ First(versions, S, n)
    PROVE  Before(versions, r, s)
<1> DEFINE Predecessors(x) == {q \in S : Before(versions, q, x)}
<1>1. IsFiniteSet(S) /\ IsFiniteSet(Predecessors(r))
  BY SyncAssumption, FS_Subset
<1>2. SUFFICES ASSUME Before(versions, s, r) PROVE FALSE
  BY BeforeOrders DEF First
<1>3. Predecessors(s) \subseteq Predecessors(r)
  <2>1. r \in Row /\ s \in Row
    BY DEF First
  <2> QED
    BY <1>2, <2>1, BeforeOrders
<1>4. IsFiniteSet(Predecessors(s)) /\ Cardinality(Predecessors(s)) <= Cardinality(Predecessors(r))
  BY <1>1, <1>3, FS_Subset
<1>5. Cardinality(Predecessors(s)) \in Nat /\ Cardinality(Predecessors(r)) \in Nat
  BY <1>1, <1>4, FS_CardinalityType
<1>6. Cardinality(Predecessors(r)) < n /\ ~(Cardinality(Predecessors(s)) < n)
  BY DEF First
<1> QED
  BY <1>4, <1>5, <1>6

\* Acknowledging by count is sound for a segment T of S: as many rows as T has are T.
LEMMA CountNamesSegment ==
    ASSUME NEW versions \in [Row -> Nat], NEW S \in SUBSET Row, NEW T \in SUBSET S,
           \A r \in T : \A s \in S \ T : Before(versions, r, s)
    PROVE  First(versions, S, Cardinality(T)) = T
<1> DEFINE Predecessors(x) == {q \in S : Before(versions, q, x)}
<1>1. IsFiniteSet(S) /\ IsFiniteSet(T) /\ Cardinality(T) \in Nat
  BY SyncAssumption, FS_Subset, FS_CardinalityType
<1>2. ASSUME NEW r \in T PROVE Cardinality(Predecessors(r)) < Cardinality(T)
  <2>1. Predecessors(r) \subseteq T \ {r}
    BY BeforeOrders
  <2>2. IsFiniteSet(T \ {r}) /\ Cardinality(T \ {r}) = Cardinality(T) - 1
    BY <1>1, FS_RemoveElement
  <2>3. Cardinality(Predecessors(r)) <= Cardinality(T \ {r}) /\ IsFiniteSet(Predecessors(r))
    BY <2>1, <2>2, FS_Subset
  <2>4. Cardinality(Predecessors(r)) \in Nat
    BY <2>3, FS_CardinalityType
  <2> QED
    BY <1>1, <2>2, <2>3, <2>4
<1>3. ASSUME NEW s \in S \ T PROVE ~(Cardinality(Predecessors(s)) < Cardinality(T))
  <2>1. T \subseteq Predecessors(s) /\ IsFiniteSet(Predecessors(s))
    BY <1>1, FS_Subset
  <2>2. Cardinality(T) <= Cardinality(Predecessors(s)) /\ Cardinality(Predecessors(s)) \in Nat
    BY <2>1, FS_Subset, FS_CardinalityType
  <2> QED
    BY <1>1, <2>2
<1> QED
  BY <1>2, <1>3 DEF First

\* What a page reaches: not behind its start, not beyond the feed.
LEMMA ReachIsBounded ==
    ASSUME feed \in Position, NEW since \in Position
    PROVE  /\ Reach(since) \in Position
           /\ \A t \in Tier : since[t] <= feed[t] => Reach(since)[t] <= feed[t]
BY SyncAssumption DEF Reach, Larger, Smaller, Position

\* Raising a document's cursors keeps it a document and lowers none of them.
LEMMA RaisedRises ==
    ASSUME NEW doc \in Doc, NEW T \in SUBSET Tier, NEW to \in Position
    PROVE  /\ Raised(doc, T, to) \in Doc
           /\ Raised(doc, T, to).held = doc.held /\ Raised(doc, T, to).replay = doc.replay
           /\ \A t \in Tier : /\ doc.cursor[t] <= Raised(doc, T, to).cursor[t]
                              /\ Raised(doc, T, to).cursor[t] \in {doc.cursor[t], to[t]}
BY DEF Raised, Doc, Position, Larger

-----------------------------------------------------------------------------
(* Typing *)

PushRecord == [paged : Versions, sent : SUBSET Row, rejected : SUBSET Row, failed : BOOLEAN]
PullRecord == [since : Position, next : Position, ok : BOOLEAN]
SaveRecord == [doc : Doc, then : PcValue]

LEMMA EmptyRecords ==
    /\ Start \in Position /\ NoRows \in Versions
    /\ NoPush \in PushRecord /\ NoPull \in PullRecord /\ NoSave \in SaveRecord
    /\ NoSave.doc \in Doc /\ Start \in Position \cup {NoReplay}
BY DEF Start, NoRows, NoPush, NoPull, NoSave, PushRecord, PullRecord, SaveRecord, Doc,
       Position, Versions, PcValue

\* What the steps compute is of its kind.
LEMMA KindsOfTerms ==
    ASSUME SyncKinds, NEW a \in Actor
    PROVE  /\ CursorTo(a) \in Position
           /\ EtagToCache(a) \in [Tier -> SUBSET Nat] \cup {NoTag}
           /\ Held(a) \in Versions
           /\ Answer \in PullRecord
           /\ Content(pull[a]) \in [Tier -> SUBSET Nat]
           /\ Reach(file.cursor) \in Position /\ Reach(pull[a].since) \in Position
           /\ Page(a) \subseteq Row /\ Batch(a) \subseteq Unsent(a) /\ Unsent(a) \subseteq Page(a)
<1> USE DEF SyncKinds
<1>1. pull[a].since \in Position /\ pull[a].next \in Position /\ file.cursor \in Position
  BY DEF Doc
<1>2. Reach(file.cursor) \in Position /\ Reach(pull[a].since) \in Position
  BY <1>1, ReachIsBounded
<1>3. Content(pull[a]) \in [Tier -> SUBSET Nat]
  BY <1>1 DEF Content, Position
<1>4. Held(a) \in Versions
  BY DEF Held, Versions, Doc
<1>5. Answer \in PullRecord
  BY <1>1, <1>2 DEF Answer, PullRecord
<1>6. Batch(a) \subseteq Unsent(a)
  BY DEF Batch, First
<1> QED
  BY <1>1, <1>2, <1>3, <1>4, <1>5, <1>6 DEF CursorTo, EtagToCache, Page, Unsent

\* A document handed to Record is of its kind, and so is what Record leaves.
LEMMA RecordKinds ==
    ASSUME SyncKinds, NEW a \in Actor, NEW doc \in Doc, NEW then \in PcValue, Record(a, doc, then)
    PROVE  save' \in [Actor -> SaveRecord] /\ pc' \in [Actor -> PcValue]
BY DEF SyncKinds, Record, Goto, SaveRecord, PcValue

LEMMA GotoKinds ==
    ASSUME SyncKinds, NEW a \in Actor, NEW l \in PcValue, Goto(a, l)
    PROVE  pc' \in [Actor -> PcValue]
BY DEF SyncKinds, Goto

\* Typing of every reachable state.
THEOREM SyncTyping == SyncSpec => []SyncKinds
<1>1. SyncInit => SyncKinds
  BY SyncAssumption, EmptyRecords
     DEF SyncInit, SyncKinds, PushRecord, PullRecord, SaveRecord, Position, Start, PcValue
<1>2. SyncKinds /\ [SyncNext]_syncVars => SyncKinds'
  <2> SUFFICES ASSUME SyncKinds, [SyncNext]_syncVars PROVE SyncKinds'
    OBVIOUS
  <2> USE DEF backend, store, disk
  <2>a. \A l \in {"idle", "page", "post", "ack", "pushed", "pull", "merge", "cache", "company",
                   "finish", "resume", "turnpage", "turn", "put", "swap", "end"} : l \in PcValue
    BY DEF PcValue
  <2>f. file \in Doc
    BY DEF SyncKinds
  <2>1. ASSUME NEW a \in Actor, NEW c \in Calls, Begin(a, c) PROVE SyncKinds'
    <3>1. pc' \in [Actor -> PcValue]
      BY <2>1, <2>a, GotoKinds DEF Begin
    <3> QED
      BY <2>1, <3>1 DEF Begin, SyncKinds
  <2>2. ASSUME NEW a \in Actor, PushStep(a) PROVE SyncKinds'
    <3>1. CASE PageRows(a)
      <4>1. pc' \in [Actor -> PcValue]
        BY <3>1, <2>a, GotoKinds DEF PageRows
      <4>2. push' \in [Actor -> PushRecord]
        <5> DEFINE rows == IF call[a] = "pull" THEN {} ELSE DirtyPage(file)
                   paged == [r \in Row |-> IF r \in rows THEN version[r] ELSE 0]
        <5>1. paged \in Versions
          BY DEF SyncKinds, Versions
        <5>2. push' = [push EXCEPT ![a] = [NoPush EXCEPT !.paged = paged]]
          BY <3>1 DEF PageRows
        <5> HIDE DEF paged
        <5>3. [NoPush EXCEPT !.paged = paged] \in PushRecord
          BY <5>1, EmptyRecords DEF PushRecord
        <5> QED
          BY <5>2, <5>3 DEF SyncKinds, PushRecord
      <4> QED
        BY <3>1, <4>1, <4>2 DEF PageRows, SyncKinds, PushRecord
    <3>2. ASSUME NEW R \in SUBSET Page(a), PostTaken(a, R) PROVE SyncKinds'
      <4>1. Batch(a) \subseteq Row /\ R \subseteq Row
        BY KindsOfTerms
      <4> DEFINE new == [push[a] EXCEPT !.sent = push[a].sent \cup Batch(a),
                                        !.rejected = push[a].rejected \cup R]
      <4>a. new \in PushRecord
        BY <4>1 DEF SyncKinds, PushRecord
      <4>b. push' = [push EXCEPT ![a] = new]
        BY <3>2, <4>1 DEF PostTaken, SyncKinds
      <4> HIDE DEF new
      <4>2. push' \in [Actor -> PushRecord]
        BY <4>a, <4>b DEF SyncKinds, PushRecord
      <4>3. \A r \in Row : push[a].paged[r] \in Nat
        BY DEF SyncKinds, Versions
      <4>4. accepted' \in [Row -> SUBSET Nat] /\ refused' \in [Row -> SUBSET Nat]
        BY <3>2, <4>3 DEF PostTaken, SyncKinds
      <4>5. faults' \in 0..MaxFaults
        BY <3>2, SyncAssumption DEF PostTaken, SyncKinds, Fault, NoFault
      <4> QED
        BY <3>2, <4>2, <4>4, <4>5 DEF PostTaken, SyncKinds, PushRecord
    <3>3. ASSUME NEW R \in SUBSET Page(a), PostFails(a, R) PROVE SyncKinds'
      <4>1. Batch(a) \subseteq Row
        BY KindsOfTerms
      <4>2. push' \in [Actor -> PushRecord]
        BY <3>3, <4>1 DEF PostFails, SyncKinds, PushRecord
      <4>3. \A r \in Row : push[a].paged[r] \in Nat
        BY DEF SyncKinds, Versions
      <4>4. accepted' \in [Row -> SUBSET Nat]
        BY <3>3, <4>3 DEF PostFails, SyncKinds
      <4>5. faults' \in 0..MaxFaults
        BY <3>3, SyncAssumption DEF PostFails, SyncKinds, Fault
      <4> QED
        BY <3>3, <4>2, <4>4, <4>5 DEF PostFails, SyncKinds, PushRecord
    <3>4. CASE Report(a)
      <4>1. save' \in [Actor -> SaveRecord] /\ pc' \in [Actor -> PcValue]
        BY <3>4, <2>a, <2>f, RecordKinds DEF Report
      <4>2. faults' \in 0..MaxFaults
        BY <3>4, SyncAssumption DEF Report, SyncKinds, Fault, NoFault
      <4> QED
        BY <3>4, <4>1, <4>2 DEF Report, SyncKinds, SaveRecord
    <3>5. CASE AckFailed(a)
      <4>1. save' \in [Actor -> SaveRecord] /\ pc' \in [Actor -> PcValue]
        BY <3>5, <2>a, <2>f, RecordKinds DEF AckFailed
      <4>2. push' \in [Actor -> PushRecord]
        BY <3>5, EmptyRecords DEF AckFailed, SyncKinds, PushRecord
      <4> QED
        BY <3>5, <4>1, <4>2 DEF AckFailed, SyncKinds, SaveRecord, PushRecord
    <3>6. CASE Ack(a)
      <4>1. [file EXCEPT !.held = Held(a)] \in Doc /\ AfterPush(a) \in PcValue
        BY <2>a, <2>f, KindsOfTerms DEF Doc, AfterPush
      <4>2. save' \in [Actor -> SaveRecord] /\ pc' \in [Actor -> PcValue]
        <5>1. CASE Skip(a, AfterPush(a))
          BY <5>1, <4>1, GotoKinds DEF Skip, SyncKinds, SaveRecord
        <5>2. CASE Record(a, [file EXCEPT !.held = Held(a)], AfterPush(a))
          BY <5>2, <4>1, RecordKinds
        <5> QED
          BY <3>6, <5>1, <5>2 DEF Ack
      <4>3. push' \in [Actor -> PushRecord]
        BY <3>6, EmptyRecords DEF Ack, SyncKinds, PushRecord
      <4> QED
        BY <3>6, <4>2, <4>3 DEF Ack, SyncKinds, SaveRecord, PushRecord
    <3>7. CASE Pushed(a)
      <4>1. save' \in [Actor -> SaveRecord] /\ pc' \in [Actor -> PcValue]
        BY <3>7, <2>a, <2>f, RecordKinds DEF Pushed
      <4> QED
        BY <3>7, <4>1 DEF Pushed, SyncKinds, SaveRecord
    <3> QED
      BY <2>2, <3>1, <3>2, <3>3, <3>4, <3>5, <3>6, <3>7 DEF PushStep
  <2>3. ASSUME NEW a \in Actor, PullStep(a) PROVE SyncKinds'
    <3>1. CASE PullFails(a)
      <4>1. save' \in [Actor -> SaveRecord] /\ pc' \in [Actor -> PcValue]
        BY <3>1, <2>a, <2>f, RecordKinds DEF PullFails
      <4>2. faults' \in 0..MaxFaults
        BY <3>1, SyncAssumption DEF PullFails, SyncKinds, Fault
      <4> QED
        BY <3>1, <4>1, <4>2 DEF PullFails, SyncKinds, SaveRecord
    <3>2. CASE NotModified(a)
      <4>1. pc' \in [Actor -> PcValue]
        BY <3>2, <2>a, GotoKinds DEF NotModified
      <4>2. [Answer EXCEPT !.next = file.cursor] \in PullRecord
        BY <2>f, KindsOfTerms DEF PullRecord, Doc
      <4>3. pull' \in [Actor -> PullRecord]
        BY <3>2, <4>2 DEF NotModified, SyncKinds, PullRecord
      <4> QED
        BY <3>2, <4>1, <4>3 DEF NotModified, SyncKinds, PullRecord
    <3>3. CASE Pulled(a)
      <4>1. pc' \in [Actor -> PcValue]
        BY <3>3, <2>a, GotoKinds DEF Pulled
      <4>2. pull' \in [Actor -> PullRecord]
        BY <3>3, KindsOfTerms DEF Pulled, SyncKinds, PullRecord
      <4> QED
        BY <3>3, <4>1, <4>2 DEF Pulled, SyncKinds, PullRecord
    <3>4. CASE MergeJudges(a)
      <4>1. pc' \in [Actor -> PcValue]
        BY <3>4, <2>a, GotoKinds DEF MergeJudges, AfterMerge
      <4>2. judged' \in [Tier -> SUBSET Nat]
        BY <3>4, KindsOfTerms DEF MergeJudges, SyncKinds
      <4>3. pull' \in [Actor -> PullRecord]
        BY <3>4 DEF MergeJudges, SyncKinds, PullRecord
      <4> QED
        BY <3>4, <4>1, <4>2, <4>3 DEF MergeJudges, SyncKinds, PullRecord
    <3>5. ASSUME NEW J, MergeHolds(a, J) PROVE SyncKinds'
      <4>1. pc' \in [Actor -> PcValue]
        BY <3>5, <2>a, GotoKinds DEF MergeHolds, AfterMerge
      <4>2. judged' \in [Tier -> SUBSET Nat]
        BY <3>5, KindsOfTerms DEF MergeHolds, SyncKinds
      <4>3. faults' \in 0..MaxFaults
        BY <3>5, SyncAssumption DEF MergeHolds, SyncKinds, Fault
      <4> QED
        BY <3>5, <4>1, <4>2, <4>3 DEF MergeHolds, SyncKinds
    <3>6. CASE Cache(a)
      <4>1. pc' \in [Actor -> PcValue]
        BY <3>6, <2>a, GotoKinds DEF Cache
      <4> QED
        BY <3>6, <4>1, KindsOfTerms DEF Cache, SyncKinds
    <3>7. CASE Company(a)
      <4>1. save' \in [Actor -> SaveRecord] /\ pc' \in [Actor -> PcValue]
        BY <3>7, <2>a, <2>f, RecordKinds, KindsOfTerms, RaisedRises DEF Company, Tier
      <4> QED
        BY <3>7, <4>1 DEF Company, SyncKinds, SaveRecord
    <3>8. CASE Finish(a)
      <4>1. save' \in [Actor -> SaveRecord] /\ pc' \in [Actor -> PcValue]
        BY <3>8, <2>a, <2>f, RecordKinds, KindsOfTerms, RaisedRises DEF Finish, Tier
      <4>2. pull' \in [Actor -> PullRecord]
        BY <3>8, EmptyRecords DEF Finish, SyncKinds, PullRecord
      <4> QED
        BY <3>8, <4>1, <4>2 DEF Finish, SyncKinds, SaveRecord, PullRecord
    <3> QED
      BY <2>3, <3>1, <3>2, <3>3, <3>4, <3>5, <3>6, <3>7, <3>8 DEF PullStep
  <2>4. ASSUME NEW a \in Actor, ReplayStep(a) PROVE SyncKinds'
    <3>0. pull[a].next \in Position
      BY DEF SyncKinds
    <3>1. CASE Resume(a)
      <4> DEFINE from == IF file.replay = NoReplay THEN Start ELSE file.replay
      <4>1. from \in Position
        BY <2>f, EmptyRecords DEF Doc
      <4>2. [Raised(file, Tier, from) EXCEPT !.replay = from] \in Doc
        BY <2>f, <4>1, RaisedRises DEF Doc
      <4>3. save' \in [Actor -> SaveRecord] /\ pc' \in [Actor -> PcValue]
        BY <3>1, <2>a, <4>2, RecordKinds DEF Resume
      <4>4. pull' \in [Actor -> PullRecord]
        BY <3>1, <4>1 DEF Resume, SyncKinds, PullRecord
      <4> QED
        BY <3>1, <4>3, <4>4 DEF Resume, SyncKinds, SaveRecord, PullRecord
    <3>2. CASE Unfinished(a)
      <4>1. pc' \in [Actor -> PcValue]
        BY <3>2, <2>a, GotoKinds DEF Unfinished
      <4> QED
        BY <3>2, <4>1 DEF Unfinished, SyncKinds
    <3>3. CASE TurnPage(a)
      <4>1. pc' \in [Actor -> PcValue]
        BY <3>3, <2>a, GotoKinds DEF TurnPage
      <4>2. pull' \in [Actor -> PullRecord]
        BY <3>3, KindsOfTerms DEF TurnPage, SyncKinds, PullRecord
      <4> QED
        BY <3>3, <4>1, <4>2 DEF TurnPage, SyncKinds, PullRecord
    <3>4. CASE TurnPageFails(a)
      <4>1. pc' \in [Actor -> PcValue]
        BY <3>4, <2>a, GotoKinds DEF TurnPageFails
      <4>2. faults' \in 0..MaxFaults
        BY <3>4, SyncAssumption DEF TurnPageFails, SyncKinds, Fault
      <4> QED
        BY <3>4, <4>1, <4>2 DEF TurnPageFails, SyncKinds
    <3>5. CASE TurnHeld(a)
      <4>1. pc' \in [Actor -> PcValue]
        BY <3>5, <2>a, GotoKinds DEF TurnHeld
      <4> QED
        BY <3>5, <4>1 DEF TurnHeld, SyncKinds
    <3>6. CASE TurnLast(a)
      <4>1. [file EXCEPT !.replay = NoReplay] \in Doc
        BY <2>f DEF Doc
      <4>2. save' \in [Actor -> SaveRecord] /\ pc' \in [Actor -> PcValue]
        <5>1. CASE Skip(a, "end")
          BY <5>1, <2>a, GotoKinds DEF Skip, SyncKinds, SaveRecord
        <5>2. CASE Record(a, [file EXCEPT !.replay = NoReplay], "end")
          BY <5>2, <4>1, <2>a, RecordKinds
        <5> QED
          BY <3>6, <5>1, <5>2 DEF TurnLast
      <4> QED
        BY <3>6, <4>2 DEF TurnLast, SyncKinds, SaveRecord
    <3>7. CASE TurnNext(a)
      <4>0. Raised(file, Tier, pull[a].next) \in Doc
        BY <2>f, <3>0, RaisedRises
      <4>1. [Raised(file, Tier, pull[a].next) EXCEPT !.replay = pull[a].next] \in Doc
        BY <3>0, <4>0 DEF Doc
      <4>2. save' \in [Actor -> SaveRecord] /\ pc' \in [Actor -> PcValue]
        BY <3>7, <2>a, <4>1, RecordKinds DEF TurnNext
      <4>3. pull' \in [Actor -> PullRecord]
        BY <3>7, <3>0 DEF TurnNext, SyncKinds, PullRecord
      <4> QED
        BY <3>7, <4>2, <4>3 DEF TurnNext, SyncKinds, SaveRecord, PullRecord
    <3> QED
      BY <2>4, <3>1, <3>2, <3>3, <3>4, <3>5, <3>6, <3>7 DEF ReplayStep
  <2>5. ASSUME NEW a \in Actor, WriteStep(a) \/ Retry(a) \/ Crash(a) PROVE SyncKinds'
    <3>1. CASE Put(a)
      <4>1. pc' \in [Actor -> PcValue]
        BY <3>1, <2>a, GotoKinds DEF Put
      <4>2. tmp' \in Doc
        BY <3>1 DEF Put, SyncKinds
      <4> QED
        BY <3>1, <4>1, <4>2 DEF Put, SyncKinds
    <3>2. CASE Swap(a)
      <4>1. save[a].then \in PcValue
        BY DEF SyncKinds
      <4>2. pc' \in [Actor -> PcValue]
        BY <3>2, <4>1, GotoKinds DEF Swap
      <4>3. save' \in [Actor -> SaveRecord]
        BY <3>2, EmptyRecords DEF Swap, SyncKinds, SaveRecord
      <4> QED
        BY <3>2, <4>2, <4>3 DEF Swap, SyncKinds, SaveRecord
    <3>3. CASE SwapFails(a)
      <4>1. pc' \in [Actor -> PcValue]
        BY <3>3, <2>a, GotoKinds DEF SwapFails
      <4> QED
        BY <3>3, <4>1 DEF SwapFails, SyncKinds
    <3>4. CASE End(a) \/ Crash(a)
      <4>0. Leave(a) /\ faults' \in 0..MaxFaults
        BY <3>4, SyncAssumption DEF End, Crash, SyncKinds, Fault, NoFault
      <4>1. pc' \in [Actor -> PcValue]
        BY <4>0, <2>a, GotoKinds DEF Leave
      <4>2. /\ push' \in [Actor -> PushRecord] /\ pull' \in [Actor -> PullRecord]
            /\ save' \in [Actor -> SaveRecord]
        BY <4>0, EmptyRecords DEF Leave, SyncKinds, PushRecord, PullRecord, SaveRecord
      <4> QED
        BY <4>0, <4>1, <4>2 DEF Leave, SyncKinds, PushRecord, PullRecord, SaveRecord
    <3>5. CASE Retry(a)
      <4>1. [file EXCEPT !.held = NoRows] \in Doc
        BY <2>f, EmptyRecords DEF Doc
      <4>2. save' \in [Actor -> SaveRecord] /\ pc' \in [Actor -> PcValue]
        BY <3>5, <4>1, <2>a, RecordKinds DEF Retry
      <4> QED
        BY <3>5, <4>2 DEF Retry, SyncKinds, SaveRecord
    <3> QED
      BY <2>5, <3>1, <3>2, <3>3, <3>4, <3>5 DEF WriteStep
  <2>6. ASSUME NEW r \in Row, Edit(r) PROVE SyncKinds'
    <3>1. version' \in [Row -> Nat \ {0}] /\ edits' \in 0..MaxEdits
      BY <2>6, SyncAssumption DEF Edit, SyncKinds
    <3> QED
      BY <2>6, <3>1 DEF Edit, SyncKinds
  <2>7. ASSUME NEW t \in Tier, Publish(t) PROVE SyncKinds'
    <3>1. feed' \in Position
      BY <2>7 DEF Publish, SyncKinds, Position
    <3> QED
      BY <2>7, <3>1 DEF Publish, SyncKinds
  <2>8. CASE Expire
    BY <2>8 DEF Expire, SyncKinds
  <2>9. CASE UNCHANGED syncVars
    BY <2>9 DEF syncVars, SyncKinds
  <2> QED
    BY <2>1, <2>2, <2>3, <2>4, <2>5, <2>6, <2>7, <2>8, <2>9 DEF SyncNext, Step
<1> QED
  BY <1>1, <1>2, PTL DEF SyncSpec

-----------------------------------------------------------------------------
(* The invariant *)

\* What a position has passed is there and was judged.
Known(position, fd, jd) ==
    \A t \in Tier : position[t] <= fd[t] /\ 1..position[t] \subseteq jd[t]

\* A document may claim only what is known, and hold rows only where they were refused.
DocHolds(doc, fd, jd, rf) ==
    /\ Known(doc.cursor, fd, jd)
    /\ doc.replay # NoReplay => Known(doc.replay, fd, jd)
    /\ \A r \in Row : doc.held[r] # 0 => doc.held[r] \in rf[r]

\* A page starts where all is known, and is known whole once it was judged.
PullHolds(p, fd, jd) ==
    /\ Known(p.since, fd, jd)
    /\ \A t \in Tier : p.next[t] <= fd[t]
    /\ p.ok => Known(p.next, fd, jd)

\* The rows sent are a segment of the page, and each was decided at the version paged.
PushHolds(p, ver, acc, rf) ==
    /\ \A r \in Row : p.paged[r] <= ver[r]
    /\ p.rejected \subseteq p.sent /\ \A r \in p.sent : p.paged[r] # 0
    /\ \A r \in p.sent : \A s \in Row \ p.sent : p.paged[s] # 0 => Before(p.paged, r, s)
    /\ \A r \in p.rejected : p.paged[r] \in rf[r]
    /\ ~p.failed => \A r \in p.sent \ p.rejected : p.paged[r] \in acc[r]

DocsGood ==
    /\ DocHolds(file, feed, judged, refused)
    /\ tmp # NoDoc => DocHolds(tmp, feed, judged, refused)
    /\ \A a \in Actor : DocHolds(save[a].doc, feed, judged, refused)

PullsGood == \A a \in Actor : PullHolds(pull[a], feed, judged)

PushesGood == \A a \in Actor : PushHolds(push[a], version, accepted, refused)

CleanGood == \A r \in Row \ dirty : version[r] \in accepted[r]

SyncInv == DocsGood /\ PullsGood /\ PushesGood /\ CleanGood /\ EtagIsJudged

-----------------------------------------------------------------------------
(* What only grows *)

Grows ==
    /\ \A t \in Tier : feed[t] <= feed'[t] /\ judged[t] \subseteq judged'[t]
    /\ \A r \in Row : /\ accepted[r] \subseteq accepted'[r] /\ refused[r] \subseteq refused'[r]
                       /\ version[r] <= version'[r]

LEMMA StepGrows ==
    ASSUME SyncKinds, [SyncNext]_syncVars
    PROVE  Grows
<1> USE DEF backend, store, Grows
<1>0. /\ feed \in Position /\ version \in [Row -> Nat \ {0}]
      /\ \A t \in Tier : feed[t] <= feed[t]
      /\ \A r \in Row : version[r] <= version[r]
  BY DEF SyncKinds, Position
<1>1. ASSUME NEW a \in Actor, NEW c \in Calls, Begin(a, c) PROVE Grows
  BY <1>0, <1>1 DEF Begin
<1>2. ASSUME NEW a \in Actor, PushStep(a) PROVE Grows
  <2>1. ASSUME NEW R \in SUBSET Page(a), PostTaken(a, R) PROVE Grows
    BY <1>0, <2>1 DEF PostTaken
  <2>2. ASSUME NEW R \in SUBSET Page(a), PostFails(a, R) PROVE Grows
    BY <1>0, <2>2 DEF PostFails
  <2> QED
    BY <1>0, <1>2, <2>1, <2>2 DEF PushStep, PageRows, Report, AckFailed, Ack, Pushed
<1>3. ASSUME NEW a \in Actor, PullStep(a) PROVE Grows
  <2>1. CASE MergeJudges(a)
    BY <1>0, <2>1 DEF MergeJudges
  <2>2. ASSUME NEW J, MergeHolds(a, J) PROVE Grows
    BY <1>0, <2>2 DEF MergeHolds
  <2> QED
    BY <1>0, <1>3, <2>1, <2>2 DEF PullStep, PullFails, NotModified, Pulled, Cache, Company, Finish
<1>4. ASSUME NEW a \in Actor, ReplayStep(a) PROVE Grows
  BY <1>0, <1>4 DEF ReplayStep, Resume, Unfinished, TurnPage, TurnPageFails, TurnHeld, TurnLast, TurnNext
<1>5. ASSUME NEW a \in Actor, WriteStep(a) \/ Retry(a) \/ Crash(a) PROVE Grows
  BY <1>0, <1>5 DEF WriteStep, Retry, Put, Swap, SwapFails, End, Crash, Leave
<1>6. ASSUME NEW r \in Row, Edit(r) PROVE Grows
  BY <1>0, <1>6 DEF Edit
<1>7. ASSUME NEW t \in Tier, Publish(t) PROVE Grows
  BY <1>0, <1>7 DEF Publish, Position
<1>8. CASE Expire \/ UNCHANGED syncVars
  BY <1>0, <1>8 DEF Expire, syncVars
<1> QED
  BY <1>1, <1>2, <1>3, <1>4, <1>5, <1>6, <1>7, <1>8 DEF SyncNext, Step

\* What held of a position, a document, a page or a push still holds after a step.
LEMMA StaysTrue ==
    ASSUME SyncKinds, SyncKinds', Grows
    PROVE  /\ \A p \in Position : Known(p, feed, judged) => Known(p, feed', judged')
           /\ \A d \in Doc : DocHolds(d, feed, judged, refused) => DocHolds(d, feed', judged', refused')
           /\ \A p \in PullRecord : PullHolds(p, feed, judged) => PullHolds(p, feed', judged')
           /\ \A p \in PushRecord : PushHolds(p, version, accepted, refused)
                                      => PushHolds(p, version', accepted', refused')
<1>0. /\ feed \in Position /\ feed' \in Position
      /\ version \in [Row -> Nat \ {0}] /\ version' \in [Row -> Nat \ {0}]
  BY DEF SyncKinds
<1>1. \A p \in Position : Known(p, feed, judged) => Known(p, feed', judged')
  BY <1>0 DEF Known, Grows, Position
<1>2. ASSUME NEW d \in Doc, DocHolds(d, feed, judged, refused)
      PROVE  DocHolds(d, feed', judged', refused')
  BY <1>1, <1>2 DEF DocHolds, Doc, Grows
<1>3. ASSUME NEW p \in PullRecord, PullHolds(p, feed, judged)
      PROVE  PullHolds(p, feed', judged')
  <2>1. \A t \in Tier : p.next[t] <= feed'[t]
    BY <1>0, <1>3 DEF PullHolds, PullRecord, Grows, Position
  <2> QED
    BY <1>1, <1>3, <2>1 DEF PullHolds, PullRecord
<1>4. ASSUME NEW p \in PushRecord, PushHolds(p, version, accepted, refused)
      PROVE  PushHolds(p, version', accepted', refused')
  <2>1. \A r \in Row : p.paged[r] \in Nat
    BY DEF PushRecord, Versions
  <2>2. \A r \in Row : p.paged[r] <= version'[r]
    BY <1>0, <1>4, <2>1 DEF PushHolds, Grows
  <2>3. p.sent \subseteq Row /\ p.rejected \subseteq Row
    BY DEF PushRecord
  <2> QED
    BY <1>4, <2>2, <2>3 DEF PushHolds, Grows
<1> QED
  BY <1>1, <1>2, <1>3, <1>4

LEMMA EmptyHolds ==
    ASSUME SyncKinds
    PROVE  /\ Known(Start, feed, judged)
           /\ DocHolds(NoSave.doc, feed, judged, refused)
           /\ PullHolds(NoPull, feed, judged)
           /\ PushHolds(NoPush, version, accepted, refused)
<1>1. Known(Start, feed, judged)
  BY DEF Known, Start, SyncKinds, Position
<1> QED
  BY <1>1 DEF DocHolds, PullHolds, PushHolds, NoSave, NoPull, NoPush, Start, NoRows, SyncKinds, Position

-----------------------------------------------------------------------------
(* Documents *)

\* The documents after a step, by what is known before it.
DocsNext ==
    /\ DocHolds(file', feed, judged, refused)
    /\ tmp' # NoDoc => DocHolds(tmp', feed, judged, refused)
    /\ \A a \in Actor : DocHolds(save'[a].doc, feed, judged, refused)

\* It is enough that a method hands a good document to Record.
LEMMA RecordedDocs ==
    ASSUME SyncKinds, DocsGood, NEW a \in Actor, NEW doc, NEW then,
           DocHolds(doc, feed, judged, refused), Record(a, doc, then), UNCHANGED disk
    PROVE  DocsNext
<1>1. \A b \in Actor : save'[b].doc = IF b = a THEN doc ELSE save[b].doc
  BY DEF Record, SyncKinds
<1> QED
  BY <1>1 DEF DocsNext, DocsGood, disk

\* Raised by what is known, a good document stays good.
LEMMA RaisedHolds ==
    ASSUME SyncKinds, NEW doc \in Doc, NEW T \in SUBSET Tier, NEW to \in Position,
           DocHolds(doc, feed, judged, refused), Known(to, feed, judged)
    PROVE  /\ DocHolds(Raised(doc, T, to), feed, judged, refused)
           /\ DocHolds([Raised(doc, T, to) EXCEPT !.replay = to], feed, judged, refused)
<1> DEFINE new == Raised(doc, T, to)
<1>1. /\ new \in Doc /\ new.held = doc.held /\ new.replay = doc.replay
      /\ \A t \in Tier : new.cursor[t] \in {doc.cursor[t], to[t]}
  BY RaisedRises
<1> HIDE DEF new
<1>2. Known(new.cursor, feed, judged)
  BY <1>1 DEF DocHolds, Known
<1>3. DocHolds(new, feed, judged, refused)
  BY <1>1, <1>2 DEF DocHolds
<1>4. DocHolds([new EXCEPT !.replay = to], feed, judged, refused)
  BY <1>1, <1>3 DEF DocHolds, Doc
<1> QED
  BY <1>3, <1>4 DEF new

\* Where a cursor goes is known.
LEMMA CursorToIsKnown ==
    ASSUME PullsGood, NEW a \in Actor
    PROVE  Known(CursorTo(a), feed, judged)
BY DEF PullsGood, PullHolds, CursorTo

LEMMA DocsStep ==
    ASSUME SyncKinds, DocsGood, PullsGood, PushesGood, [SyncNext]_syncVars
    PROVE  DocsNext
<1> USE DEF disk
<1>f. file \in Doc /\ DocHolds(file, feed, judged, refused)
  BY DEF SyncKinds, DocsGood
<1>u. ASSUME UNCHANGED <<file, tmp, save>> PROVE DocsNext
  BY <1>u DEF DocsGood, DocsNext
<1>1. ASSUME NEW a \in Actor, NEW c \in Calls, Begin(a, c) PROVE DocsNext
  BY <1>1, <1>u DEF Begin
<1>2. ASSUME NEW a \in Actor, PushStep(a) PROVE DocsNext
  <2>1. CASE Report(a) \/ AckFailed(a) \/ Pushed(a)
    BY <1>f, <2>1, RecordedDocs DEF Report, AckFailed, Pushed
  <2>2. CASE Ack(a)
    <3>1. CASE Skip(a, AfterPush(a))
      BY <2>2, <3>1, <1>u DEF Ack, Skip
    <3>2. CASE Record(a, [file EXCEPT !.held = Held(a)], AfterPush(a))
      <4> DEFINE doc == [file EXCEPT !.held = Held(a)]
      <4>1. doc.held = Held(a) /\ doc.cursor = file.cursor /\ doc.replay = file.replay
        BY <1>f DEF Doc
      <4>2. ASSUME NEW r \in Row, Held(a)[r] # 0 PROVE Held(a)[r] \in refused[r]
        BY <1>f, <4>2 DEF Held, DocHolds, PushesGood, PushHolds
      <4>3. DocHolds(doc, feed, judged, refused)
        BY <1>f, <4>1, <4>2 DEF DocHolds
      <4> QED
        BY <2>2, <3>2, <4>3, RecordedDocs DEF Ack
    <3> QED
      BY <2>2, <3>1, <3>2 DEF Ack
  <2> QED
    BY <1>2, <1>u, <2>1, <2>2 DEF PushStep, PageRows, PostTaken, PostFails
<1>3. ASSUME NEW a \in Actor, PullStep(a) PROVE DocsNext
  <2>0. CursorTo(a) \in Position /\ {"org"} \subseteq Tier /\ {"company"} \subseteq Tier
    BY KindsOfTerms DEF Tier
  <2>1. CASE PullFails(a)
    BY <1>f, <2>1, RecordedDocs DEF PullFails
  <2>2. DocHolds(Raised(file, {"company"}, CursorTo(a)), feed, judged, refused)
    BY <1>f, <2>0, RaisedHolds, CursorToIsKnown
  <2>3. DocHolds(Raised(file, {"org"}, CursorTo(a)), feed, judged, refused)
    BY <1>f, <2>0, RaisedHolds, CursorToIsKnown
  <2>4. CASE Company(a)
    BY <2>2, <2>4, RecordedDocs DEF Company
  <2>5. CASE Finish(a)
    BY <2>3, <2>5, RecordedDocs DEF Finish
  <2> QED
    BY <1>3, <1>u, <2>1, <2>4, <2>5
       DEF PullStep, NotModified, Pulled, MergeJudges, MergeHolds, Cache
<1>4. ASSUME NEW a \in Actor, ReplayStep(a) PROVE DocsNext
  <2>1. CASE Resume(a)
    <3> DEFINE from == IF file.replay = NoReplay THEN Start ELSE file.replay
    <3>1. from \in Position /\ Known(from, feed, judged)
      BY <1>f, EmptyRecords, EmptyHolds DEF Doc, DocHolds
    <3>2. DocHolds([Raised(file, Tier, from) EXCEPT !.replay = from], feed, judged, refused)
      BY <1>f, <3>1, RaisedHolds
    <3> QED
      BY <2>1, <3>2, RecordedDocs DEF Resume
  <2>2. CASE TurnLast(a)
    <3>1. CASE Skip(a, "end")
      BY <2>2, <3>1, <1>u DEF TurnLast, Skip
    <3>2. CASE Record(a, [file EXCEPT !.replay = NoReplay], "end")
      <4>1. DocHolds([file EXCEPT !.replay = NoReplay], feed, judged, refused)
        BY <1>f DEF Doc, DocHolds
      <4> QED
        BY <2>2, <3>2, <4>1, RecordedDocs DEF TurnLast
    <3> QED
      BY <2>2, <3>1, <3>2 DEF TurnLast
  <2>3. CASE TurnNext(a)
    <3>1. pull[a].next \in Position /\ Known(pull[a].next, feed, judged)
      BY <2>3 DEF TurnNext, SyncKinds, PullsGood, PullHolds
    <3>2. DocHolds([Raised(file, Tier, pull[a].next) EXCEPT !.replay = pull[a].next],
                   feed, judged, refused)
      BY <1>f, <3>1, RaisedHolds
    <3> QED
      BY <2>3, <3>2, RecordedDocs DEF TurnNext
  <2> QED
    BY <1>4, <1>u, <2>1, <2>2, <2>3 DEF ReplayStep, Unfinished, TurnPage, TurnPageFails, TurnHeld
<1>5. ASSUME NEW a \in Actor, WriteStep(a) \/ Retry(a) \/ Crash(a) PROVE DocsNext
  <2>1. CASE Put(a)
    BY <2>1 DEF Put, DocsGood, DocsNext
  <2>2. CASE Swap(a)
    <3>1. \A b \in Actor : save'[b] = IF b = a THEN NoSave ELSE save[b]
      BY <2>2 DEF Swap, SyncKinds
    <3> QED
      BY <2>2, <3>1, EmptyHolds DEF Swap, DocsGood, DocsNext
  <2>3. CASE Leave(a)
    <3>1. \A b \in Actor : save'[b] = IF b = a THEN NoSave ELSE save[b]
      BY <2>3 DEF Leave, SyncKinds
    <3> QED
      BY <2>3, <3>1, EmptyHolds DEF Leave, DocsGood, DocsNext
  <2>4. CASE Retry(a)
    <3>1. DocHolds([file EXCEPT !.held = NoRows], feed, judged, refused)
      BY <1>f DEF Doc, DocHolds, NoRows
    <3> QED
      BY <2>4, <3>1, RecordedDocs DEF Retry
  <2> QED
    BY <1>5, <1>u, <2>1, <2>2, <2>3, <2>4 DEF WriteStep, SwapFails, End, Crash
<1>6. CASE (\E r \in Row : Edit(r)) \/ (\E t \in Tier : Publish(t)) \/ Expire \/ UNCHANGED syncVars
  BY <1>6, <1>u DEF Edit, Publish, Expire, syncVars
<1> QED
  BY <1>1, <1>2, <1>3, <1>4, <1>5, <1>6 DEF SyncNext, Step

-----------------------------------------------------------------------------
(* Pages *)

LEMMA PullsStep ==
    ASSUME SyncKinds, SyncKinds', DocsGood, PullsGood, [SyncNext]_syncVars
    PROVE  PullsGood'
<1>k. /\ \A b \in Actor : pull[b] \in PullRecord /\ pull'[b] \in PullRecord
      /\ file.cursor \in Position /\ Known(file.cursor, feed, judged)
      /\ feed \in Position /\ feed' \in Position
  BY DEF SyncKinds, PullRecord, DocsGood, DocHolds, Doc
<1>g. Grows
  BY StepGrows
<1>s. SUFFICES ASSUME NEW b \in Actor, ~PullHolds(pull'[b], feed', judged')
               PROVE  FALSE
  BY DEF PullsGood
<1>n. ~PullHolds(pull'[b], feed, judged)
  BY <1>k, <1>g, <1>s, StaysTrue
<1>o. pull'[b] # pull[b]
  BY <1>n DEF PullsGood
<1>u. ASSUME UNCHANGED pull PROVE FALSE
  BY <1>u, <1>o
\* It is the page of the actor that steps, and this is what it became.
<1>e. ASSUME NEW a \in Actor, NEW new, pull' = [pull EXCEPT ![a] = new]
      PROVE  a = b /\ pull'[b] = new
  <2>1. pull' = [c \in Actor |-> IF c = a THEN new ELSE pull[c]]
    BY <1>e DEF SyncKinds
  <2> QED
    BY <2>1, <1>o
<1>1. ASSUME NEW a \in Actor, NEW c \in Calls, Begin(a, c) PROVE FALSE
  BY <1>1, <1>u DEF Begin
<1>2. ASSUME NEW a \in Actor, PushStep(a) PROVE FALSE
  BY <1>2, <1>u DEF PushStep, PageRows, PostTaken, PostFails, Report, AckFailed, Ack, Pushed
<1>3. ASSUME NEW a \in Actor, PullStep(a) PROVE FALSE
  <2>1. CASE NotModified(a)
    <3>1. pull'[b] = [Answer EXCEPT !.next = file.cursor]
      BY <1>e, <2>1 DEF NotModified
    <3>2. PullHolds(pull'[b], feed, judged)
      BY <1>k, <3>1 DEF Answer, PullHolds, Known
    <3> QED
      BY <3>2, <1>n
  <2>2. CASE Pulled(a)
    <3>1. pull'[b] = Answer
      BY <1>e, <2>2 DEF Pulled
    <3>2. \A t \in Tier : Reach(file.cursor)[t] <= feed[t]
      BY <1>k, ReachIsBounded DEF Known
    <3>3. PullHolds(pull'[b], feed, judged)
      BY <1>k, <3>1, <3>2 DEF Answer, PullHolds
    <3> QED
      BY <3>3, <1>n
  <2>3. CASE MergeJudges(a)
    <3>1. b = a /\ pull'[b] = [pull[b] EXCEPT !.ok = TRUE]
      BY <1>e, <2>3 DEF MergeJudges
    <3>2. /\ pull'[b].since = pull[b].since /\ pull'[b].next = pull[b].next
          /\ pull[b].since \in Position /\ pull[b].next \in Position
      BY <1>k, <3>1 DEF PullRecord
    <3>3. /\ Known(pull[b].since, feed', judged')
          /\ \A t \in Tier : pull[b].next[t] <= feed'[t]
      <4>1. PullHolds(pull[b], feed', judged')
        BY <1>k, <1>g, StaysTrue DEF PullsGood
      <4> QED
        BY <4>1 DEF PullHolds
    <3>4. \A t \in Tier : (pull[b].since[t] + 1)..pull[b].next[t] \subseteq judged'[t]
      BY <2>3, <3>1 DEF MergeJudges, Content
    <3>5. Known(pull[b].next, feed', judged')
      <4> SUFFICES ASSUME NEW t \in Tier PROVE 1..pull[b].next[t] \subseteq judged'[t]
        BY <3>3 DEF Known
      <4>1. 1..pull[b].since[t] \subseteq judged'[t]
        BY <3>3 DEF Known
      <4>2. pull[b].since[t] \in Nat /\ pull[b].next[t] \in Nat
        BY <3>2 DEF Position
      <4> QED
        BY <3>4, <4>1, <4>2
    <3> QED
      BY <1>s, <3>2, <3>3, <3>5 DEF PullHolds
  <2>4. CASE Finish(a)
    BY <1>e, <1>n, <2>4, EmptyHolds DEF Finish
  <2> QED
    BY <1>3, <1>u, <2>1, <2>2, <2>3, <2>4 DEF PullStep, PullFails, MergeHolds, Cache, Company
<1>4. ASSUME NEW a \in Actor, ReplayStep(a) PROVE FALSE
  <2>0. PullHolds(pull[b], feed, judged)
    BY DEF PullsGood
  <2>1. CASE Resume(a)
    <3> DEFINE from == IF file.replay = NoReplay THEN Start ELSE file.replay
    <3>1. Known(from, feed, judged)
      BY EmptyHolds DEF DocsGood, DocHolds
    <3>2. b = a /\ pull'[b] = [pull[b] EXCEPT !.since = from]
      BY <1>e, <2>1 DEF Resume
    <3> QED
      BY <1>k, <1>n, <2>0, <3>1, <3>2 DEF PullHolds, PullRecord
  <2>2. CASE TurnPage(a)
    <3> DEFINE new == [pull[a] EXCEPT !.next = Reach(pull[a].since), !.ok = FALSE]
    <3>0. pull' = [pull EXCEPT ![a] = new]
      BY <2>2 DEF TurnPage, SyncKinds
    <3>1. b = a /\ pull'[b] = [pull[b] EXCEPT !.next = Reach(pull[b].since), !.ok = FALSE]
      BY <1>e, <3>0
    <3>2. \A t \in Tier : Reach(pull[b].since)[t] <= feed[t]
      BY <1>k, <2>0, ReachIsBounded DEF PullHolds, Known, PullRecord
    <3> QED
      BY <1>k, <1>n, <2>0, <3>1, <3>2 DEF PullHolds, PullRecord
  <2>3. CASE TurnNext(a)
    <3>1. b = a /\ pull'[b] = [pull[b] EXCEPT !.since = pull[b].next] /\ pull[b].ok
      BY <1>e, <2>3 DEF TurnNext
    <3> QED
      BY <1>k, <1>n, <2>0, <3>1 DEF PullHolds, PullRecord
  <2> QED
    BY <1>4, <1>u, <2>1, <2>2, <2>3 DEF ReplayStep, Unfinished, TurnPageFails, TurnHeld, TurnLast
<1>5. ASSUME NEW a \in Actor, WriteStep(a) \/ Retry(a) \/ Crash(a) PROVE FALSE
  <2>1. CASE Leave(a)
    BY <1>e, <1>n, <2>1, EmptyHolds DEF Leave
  <2> QED
    BY <1>5, <1>u, <2>1 DEF WriteStep, Put, Swap, SwapFails, End, Crash, Retry
<1>6. CASE (\E r \in Row : Edit(r)) \/ (\E t \in Tier : Publish(t)) \/ Expire \/ UNCHANGED syncVars
  BY <1>6, <1>u DEF Edit, Publish, Expire, syncVars
<1> QED
  BY <1>1, <1>2, <1>3, <1>4, <1>5, <1>6 DEF SyncNext, Step

-----------------------------------------------------------------------------
(* Pushes *)

LEMMA PushesStep ==
    ASSUME SyncKinds, SyncKinds', PushesGood, [SyncNext]_syncVars
    PROVE  PushesGood'
<1>k. \A b \in Actor : push[b] \in PushRecord /\ push'[b] \in PushRecord
  BY DEF SyncKinds, PushRecord
<1>g. Grows
  BY StepGrows
<1>s. SUFFICES ASSUME NEW b \in Actor, ~PushHolds(push'[b], version', accepted', refused')
               PROVE  FALSE
  BY DEF PushesGood
<1>n. ~PushHolds(push'[b], version, accepted, refused)
  BY <1>k, <1>g, <1>s, StaysTrue
<1>o. push'[b] # push[b]
  BY <1>n DEF PushesGood
<1>u. ASSUME UNCHANGED push PROVE FALSE
  BY <1>u, <1>o
<1>e. ASSUME NEW a \in Actor, NEW new, push' = [push EXCEPT ![a] = new]
      PROVE  a = b /\ push'[b] = new
  <2>1. push' = [c \in Actor |-> IF c = a THEN new ELSE push[c]]
    BY <1>e DEF SyncKinds
  <2> QED
    BY <2>1, <1>o
\* A batch that goes out continues the segment already sent.
<1>b. ASSUME NEW r \in push[b].sent \cup Batch(b), NEW s \in Row \ (push[b].sent \cup Batch(b)),
             push[b].paged[s] # 0
      PROVE  Before(push[b].paged, r, s)
  <2>1. PushHolds(push[b], version, accepted, refused) /\ push[b].paged \in [Row -> Nat]
    BY <1>k DEF PushesGood, PushRecord, Versions
  <2>2. CASE r \in push[b].sent
    BY <2>1, <2>2, <1>b DEF PushHolds
  <2>3. CASE r \in Batch(b)
    <3>1. s \in Unsent(b) \ Batch(b) /\ Unsent(b) \in SUBSET Row /\ BatchSize \in Nat
      BY <1>b, SyncAssumption DEF Unsent, Page
    <3> QED
      BY <2>1, <2>3, <3>1, FirstIsSegment DEF Batch
  <2> QED
    BY <2>2, <2>3
<1>p. /\ Batch(b) \subseteq Row
      /\ \A r \in Batch(b) : push[b].paged[r] # 0 /\ r \notin push[b].sent
  <2>1. Batch(b) \subseteq Unsent(b)
    BY KindsOfTerms
  <2> QED
    BY <2>1 DEF Unsent, Page
<1>1. ASSUME NEW a \in Actor, NEW c \in Calls, Begin(a, c) PROVE FALSE
  BY <1>1, <1>u DEF Begin
<1>2. ASSUME NEW a \in Actor, PushStep(a) PROVE FALSE
  <2>0. PushHolds(push[b], version, accepted, refused)
    BY DEF PushesGood
  <2>1. CASE PageRows(a)
    <3> DEFINE rows == IF call[a] = "pull" THEN {} ELSE DirtyPage(file)
               paged == [r \in Row |-> IF r \in rows THEN version[r] ELSE 0]
    <3>1. push' = [push EXCEPT ![a] = [NoPush EXCEPT !.paged = paged]]
      BY <2>1 DEF PageRows
    <3>2. push'[b] = [NoPush EXCEPT !.paged = paged]
      BY <1>e, <3>1
    <3>3. \A r \in Row : paged[r] <= version[r]
      BY DEF SyncKinds
    <3> HIDE DEF paged
    <3>4. PushHolds([NoPush EXCEPT !.paged = paged], version, accepted, refused)
      BY <3>3 DEF PushHolds, NoPush
    <3> QED
      BY <1>n, <3>2, <3>4
  <2>2. ASSUME NEW R \in SUBSET Page(a), PostTaken(a, R) PROVE FALSE
    <3> DEFINE new == [push[a] EXCEPT !.sent = push[a].sent \cup Batch(a),
                                      !.rejected = push[a].rejected \cup R]
    <3>1. push' = [push EXCEPT ![a] = new]
      BY <2>2 DEF PostTaken, SyncKinds
    <3>2. a = b /\ push'[b] = new
      BY <1>e, <3>1
    <3>3. /\ push'[b].paged = push[b].paged /\ push'[b].failed = push[b].failed
          /\ push'[b].sent = push[b].sent \cup Batch(b)
          /\ push'[b].rejected = push[b].rejected \cup R
      BY <1>k, <3>2 DEF PushRecord
    <3> HIDE DEF new
    <3>4. /\ R \subseteq Batch(b) /\ version' = version
          /\ \A r \in Batch(b) \ R : push[b].paged[r] \in accepted'[r]
          /\ \A r \in R : push[b].paged[r] \in refused'[r]
      BY <2>2, <3>2, <1>p DEF PostTaken, store
    <3>5. push[b].sent \subseteq Row /\ push[b].rejected \subseteq Row
      BY <1>k DEF PushRecord
    <3>6. ASSUME ~push[b].failed,
                 NEW r \in (push[b].sent \cup Batch(b)) \ (push[b].rejected \cup R)
          PROVE  push[b].paged[r] \in accepted'[r]
      BY <2>0, <3>4, <3>5, <3>6, <1>g DEF PushHolds, Grows
    <3>7. \A r \in push[b].rejected \cup R : push[b].paged[r] \in refused'[r]
      BY <2>0, <3>4, <3>5, <1>g DEF PushHolds, Grows
    <3> QED
      BY <1>s, <1>b, <1>p, <2>0, <3>3, <3>4, <3>6, <3>7 DEF PushHolds
  <2>3. ASSUME NEW T \in SUBSET Page(a), PostFails(a, T) PROVE FALSE
    <3> DEFINE new == [push[a] EXCEPT !.sent = push[a].sent \cup Batch(a), !.failed = TRUE]
    <3>1. push' = [push EXCEPT ![a] = new]
      BY <2>3 DEF PostFails, SyncKinds
    <3>2. a = b /\ push'[b] = new
      BY <1>e, <3>1
    <3>3. /\ push'[b].paged = push[b].paged /\ push'[b].failed
          /\ push'[b].sent = push[b].sent \cup Batch(b)
          /\ push'[b].rejected = push[b].rejected
      BY <1>k, <3>2 DEF PushRecord
    <3> HIDE DEF new
    <3> QED
      BY <1>n, <1>b, <1>p, <2>0, <3>3 DEF PushHolds
  <2>4. CASE AckFailed(a) \/ Ack(a)
    BY <1>e, <1>n, <2>4, EmptyHolds DEF AckFailed, Ack
  <2> QED
    BY <1>2, <1>u, <2>1, <2>2, <2>3, <2>4 DEF PushStep, Report, Pushed
<1>3. ASSUME NEW a \in Actor, PullStep(a) PROVE FALSE
  BY <1>3, <1>u DEF PullStep, PullFails, NotModified, Pulled, MergeJudges, MergeHolds, Cache, Company, Finish
<1>4. ASSUME NEW a \in Actor, ReplayStep(a) PROVE FALSE
  BY <1>4, <1>u DEF ReplayStep, Resume, Unfinished, TurnPage, TurnPageFails, TurnHeld, TurnLast, TurnNext
<1>5. ASSUME NEW a \in Actor, WriteStep(a) \/ Retry(a) \/ Crash(a) PROVE FALSE
  <2>1. CASE Leave(a)
    BY <1>e, <1>n, <2>1, EmptyHolds DEF Leave
  <2> QED
    BY <1>5, <1>u, <2>1 DEF WriteStep, Put, Swap, SwapFails, End, Crash, Retry
<1>6. CASE (\E r \in Row : Edit(r)) \/ (\E t \in Tier : Publish(t)) \/ Expire \/ UNCHANGED syncVars
  BY <1>6, <1>u DEF Edit, Publish, Expire, syncVars
<1> QED
  BY <1>1, <1>2, <1>3, <1>4, <1>5, <1>6 DEF SyncNext, Step

\* What is acknowledged by count is what was sent and not refused.
LEMMA AcceptedIsSent ==
    ASSUME SyncKinds, PushesGood, NEW a \in Actor
    PROVE  Accepted(a) = push[a].sent \ push[a].rejected
<1> DEFINE S == Page(a) \ push[a].rejected
           T == push[a].sent \ push[a].rejected
<1>1. PushHolds(push[a], version, accepted, refused) /\ push[a].paged \in [Row -> Nat]
      /\ push[a].sent \subseteq Row
  BY DEF PushesGood, SyncKinds, Versions
<1>2. S \in SUBSET Row /\ T \in SUBSET S
  BY <1>1 DEF PushHolds, Page
<1>3. \A r \in T : \A s \in S \ T : Before(push[a].paged, r, s)
  BY <1>1 DEF PushHolds, Page
<1> QED
  BY <1>1, <1>2, <1>3, CountNamesSegment DEF Accepted

LEMMA CleanStep ==
    ASSUME SyncKinds, SyncKinds', PushesGood, CleanGood, [SyncNext]_syncVars
    PROVE  CleanGood'
<1>g. Grows
  BY StepGrows
<1>u. ASSUME UNCHANGED <<version, dirty>> PROVE CleanGood'
  BY <1>g, <1>u DEF CleanGood, Grows
<1> USE DEF store
<1>1. ASSUME NEW a \in Actor, Ack(a) PROVE CleanGood'
  <2>1. /\ version' = version /\ accepted' = accepted
        /\ dirty' = dirty \ MarkSynced(a) /\ ~push[a].failed
    BY <1>1 DEF Ack, backend
  <2>2. ASSUME NEW r \in MarkSynced(a) PROVE r \in Row /\ version[r] \in accepted[r]
    <3>1. r \in push[a].sent \ push[a].rejected /\ version[r] = push[a].paged[r]
      BY AcceptedIsSent DEF MarkSynced
    <3>2. push[a].sent \subseteq Row /\ PushHolds(push[a], version, accepted, refused)
      BY DEF SyncKinds, PushesGood
    <3> QED
      BY <2>1, <3>1, <3>2 DEF PushHolds
  <2> QED
    BY <2>1, <2>2 DEF CleanGood
<1>2. ASSUME NEW r \in Row, Edit(r) PROVE CleanGood'
  BY <1>2 DEF Edit, CleanGood, SyncKinds, backend
<1>3. ASSUME NEW a \in Actor, PushStep(a) PROVE CleanGood'
  BY <1>1, <1>3, <1>u DEF PushStep, PageRows, PostTaken, PostFails, Report, AckFailed, Pushed
<1>4. ASSUME NEW a \in Actor, PullStep(a) PROVE CleanGood'
  BY <1>4, <1>u DEF PullStep, PullFails, NotModified, Pulled, MergeJudges, MergeHolds, Cache, Company, Finish
<1>5. ASSUME NEW a \in Actor, ReplayStep(a) PROVE CleanGood'
  BY <1>5, <1>u DEF ReplayStep, Resume, Unfinished, TurnPage, TurnPageFails, TurnHeld, TurnLast, TurnNext
<1>6. ASSUME NEW a \in Actor, WriteStep(a) \/ Retry(a) \/ Crash(a) PROVE CleanGood'
  BY <1>6, <1>u DEF WriteStep, Put, Swap, SwapFails, End, Crash, Leave, Retry
<1>7. ASSUME NEW a \in Actor, NEW c \in Calls, Begin(a, c) PROVE CleanGood'
  BY <1>7, <1>u DEF Begin
<1>8. CASE (\E t \in Tier : Publish(t)) \/ Expire \/ UNCHANGED syncVars
  BY <1>8, <1>u DEF Publish, Expire, syncVars
<1> QED
  BY <1>2, <1>3, <1>4, <1>5, <1>6, <1>7, <1>8 DEF SyncNext, Step

\* Only a page that is known whole is cached.
LEMMA TagStep ==
    ASSUME SyncKinds, SyncKinds', PullsGood, EtagIsJudged, [SyncNext]_syncVars
    PROVE  EtagIsJudged'
<1>g. Grows
  BY StepGrows
<1>u. ASSUME UNCHANGED tag PROVE EtagIsJudged'
  BY <1>g, <1>u DEF EtagIsJudged, Grows
<1> USE DEF disk
<1>1. ASSUME NEW a \in Actor, Cache(a) PROVE EtagIsJudged'
  <2>1. tag' = EtagToCache(a) /\ judged' = judged
    BY <1>1 DEF Cache, store
  <2>2. ASSUME pull[a].ok, NEW t \in Tier PROVE Content(pull[a])[t] \subseteq judged[t]
    <3>1. 1..pull[a].next[t] \subseteq judged[t]
      BY <2>2 DEF PullsGood, PullHolds, Known
    <3>2. pull[a].since[t] \in Nat /\ pull[a].next[t] \in Nat
      BY DEF SyncKinds, Position
    <3> QED
      BY <3>1, <3>2 DEF Content
  <2> QED
    BY <2>1, <2>2 DEF EtagToCache, EtagIsJudged
<1>2. CASE Expire
  BY <1>2 DEF Expire, EtagIsJudged
<1>3. ASSUME NEW a \in Actor, PushStep(a) PROVE EtagIsJudged'
  BY <1>3, <1>u DEF PushStep, PageRows, PostTaken, PostFails, Report, AckFailed, Ack, Pushed
<1>4. ASSUME NEW a \in Actor, PullStep(a) PROVE EtagIsJudged'
  BY <1>1, <1>4, <1>u DEF PullStep, PullFails, NotModified, Pulled, MergeJudges, MergeHolds, Company, Finish
<1>5. ASSUME NEW a \in Actor, ReplayStep(a) PROVE EtagIsJudged'
  BY <1>5, <1>u DEF ReplayStep, Resume, Unfinished, TurnPage, TurnPageFails, TurnHeld, TurnLast, TurnNext
<1>6. ASSUME NEW a \in Actor, WriteStep(a) \/ Retry(a) \/ Crash(a) PROVE EtagIsJudged'
  BY <1>6, <1>u DEF WriteStep, Put, Swap, SwapFails, End, Crash, Leave, Retry
<1>7. ASSUME NEW a \in Actor, NEW c \in Calls, Begin(a, c) PROVE EtagIsJudged'
  BY <1>7, <1>u DEF Begin
<1>8. CASE (\E r \in Row : Edit(r)) \/ (\E t \in Tier : Publish(t)) \/ UNCHANGED syncVars
  BY <1>8, <1>u DEF Edit, Publish, syncVars
<1> QED
  BY <1>2, <1>3, <1>4, <1>5, <1>6, <1>7, <1>8 DEF SyncNext, Step

-----------------------------------------------------------------------------
(* Theorems *)

\* The inductive invariant.
THEOREM SyncInvariance == SyncSpec => []SyncInv
<1>1. SyncInit => SyncInv
  <2> SUFFICES ASSUME SyncInit PROVE SyncInv
    OBVIOUS
  <2>1. Known(Start, feed, judged)
    BY SyncAssumption DEF SyncInit, Known, Start
  <2>2. DocHolds(NoSave.doc, feed, judged, refused)
    BY <2>1 DEF DocHolds, NoSave, NoRows
  <2>3. PullHolds(NoPull, feed, judged)
    BY <2>1, SyncAssumption DEF SyncInit, PullHolds, NoPull, Start
  <2>4. PushHolds(NoPush, version, accepted, refused)
    BY DEF SyncInit, PushHolds, NoPush, NoRows
  <2> QED
    BY <2>2, <2>3, <2>4
       DEF SyncInit, SyncInv, DocsGood, PullsGood, PushesGood, CleanGood, EtagIsJudged
<1>2. SyncKinds /\ SyncKinds' /\ SyncInv /\ [SyncNext]_syncVars => SyncInv'
  <2> SUFFICES ASSUME SyncKinds, SyncKinds', SyncInv, [SyncNext]_syncVars PROVE SyncInv'
    OBVIOUS
  <2>1. DocsGood'
    <3>1. DocsNext
      BY DocsStep DEF SyncInv
    <3>2. file' \in Doc /\ tmp' \in Doc \cup {NoDoc} /\ \A a \in Actor : save'[a].doc \in Doc
      BY DEF SyncKinds
    <3> QED
      BY <3>1, <3>2, StepGrows, StaysTrue DEF DocsGood, DocsNext
  <2> QED
    BY <2>1, PullsStep, PushesStep, CleanStep, TagStep DEF SyncInv
<1> QED
  BY <1>1, <1>2, SyncTyping, PTL DEF SyncSpec

\* Types, and no cursor of the state file is beyond what the backend has.
THEOREM SyncTypeSafe == SyncSpec => []SyncTypeOK
<1>1. SyncKinds /\ SyncInv => SyncTypeOK
  BY DEF SyncTypeOK, SyncInv, DocsGood, DocHolds, Known
<1> QED
  BY <1>1, SyncTyping, SyncInvariance, PTL

\* Neither cursor of the state file nor its replay block passes a learning the merge
\* has not judged, with any number of actors, deaths and retries without the lock.
THEOREM NothingIsSkipped == SyncSpec => []CursorsPassOnlyJudged
<1>1. SyncInv => CursorsPassOnlyJudged
  BY DEF SyncInv, DocsGood, DocHolds, Known, CursorsPassOnlyJudged, Passed
<1> QED
  BY <1>1, SyncInvariance, PTL

\* A 304 never stands for a page that must be offered again.
THEOREM EtagsAreSafe == SyncSpec => []EtagIsJudged
<1>1. SyncInv => EtagIsJudged
  BY DEF SyncInv
<1> QED
  BY <1>1, SyncInvariance, PTL

\* A row that pushes leave out was taken or refused at the version it has now.
THEOREM NothingIsWithheld == SyncSpec => []WithheldWasDecided
<1>1. SyncKinds /\ SyncInv => WithheldWasDecided
  BY DEF SyncInv, DocsGood, DocHolds, CleanGood, WithheldWasDecided, Pushable, SyncKinds
<1> QED
  BY <1>1, SyncTyping, SyncInvariance, PTL

-----------------------------------------------------------------------------
(* What the lock is for *)

\* Who is in a call holds the lock; what it is writing has cursors no lower than the
\* file's, and nobody else's document is in the temporary file when it renames it.
WritesUnderLock ==
    \A a \in Actor :
        /\ pc[a] # "idle" => lock = a
        /\ save[a].then \notin {"put", "swap"}
        /\ pc[a] \in {"put", "swap"} => \A t \in Tier : file.cursor[t] <= save[a].doc.cursor[t]
        /\ pc[a] = "swap" => tmp = save[a].doc

\* A step of the holder: where it goes, and what it writes.
LEMMA HolderSteps ==
    ASSUME SyncKinds, WritesUnderLock, NEW a \in Actor, lock = a, lock' = a,
           \A b \in Actor \ {a} : pc'[b] = pc[b] /\ save'[b] = save[b],
           save'[a].then \notin {"put", "swap"},
           pc'[a] \in {"put", "swap"} => \A t \in Tier : file'.cursor[t] <= save'[a].doc.cursor[t],
           pc'[a] = "swap" => tmp' = save'[a].doc
    PROVE  WritesUnderLock'
<1>1. \A b \in Actor \ {a} : pc[b] = "idle"
  BY DEF WritesUnderLock
<1> QED
  BY <1>1 DEF WritesUnderLock

LEMMA RecordUnderLock ==
    ASSUME SyncKinds, WritesUnderLock, NEW a \in Actor, pc[a] # "idle", UNCHANGED <<lock, file>>,
           NEW doc, NEW then \in PcValue \ {"put", "swap"}, Record(a, doc, then),
           \A t \in Tier : file.cursor[t] <= doc.cursor[t]
    PROVE  WritesUnderLock'
<1>1. /\ pc'[a] = "put" /\ save'[a].doc = doc /\ save'[a].then = then
      /\ \A b \in Actor \ {a} : pc'[b] = pc[b] /\ save'[b] = save[b]
  BY DEF Record, Goto, SyncKinds
<1>2. lock = a
  BY DEF WritesUnderLock
<1> QED
  BY <1>1, <1>2, HolderSteps

LEMMA GotoUnderLock ==
    ASSUME SyncKinds, WritesUnderLock, NEW a \in Actor, pc[a] # "idle", UNCHANGED <<lock, save>>,
           NEW l \in PcValue \ {"put", "swap"}, Goto(a, l)
    PROVE  WritesUnderLock'
<1>1. pc'[a] = l /\ \A b \in Actor \ {a} : pc'[b] = pc[b]
  BY DEF Goto, SyncKinds
<1>2. lock = a
  BY DEF WritesUnderLock
<1> QED
  BY <1>1, <1>2, HolderSteps DEF WritesUnderLock

LEMMA LockStep ==
    ASSUME \A a \in Actor : "retry" \notin CallsOf[a],
           SyncKinds, SyncKinds', WritesUnderLock, [SyncNext]_syncVars
    PROVE  WritesUnderLock' /\ \A t \in Tier : file.cursor[t] <= file'.cursor[t]
<1> USE DEF disk
<1>f. file \in Doc /\ \A t \in Tier : file.cursor[t] \in Nat
  BY DEF SyncKinds, Doc, Position
<1>q. \A t \in Tier : file.cursor[t] <= file.cursor[t]
  BY <1>f
<1>l. \A l \in {"idle", "page", "post", "ack", "pushed", "pull", "merge", "cache", "company",
                 "finish", "resume", "turnpage", "turn", "end"} : l \in PcValue \ {"put", "swap"}
  BY DEF PcValue
<1>1. ASSUME NEW a \in Actor, NEW c \in Calls, Begin(a, c)
      PROVE  WritesUnderLock' /\ file' = file
  <2>1. \A b \in Actor : pc[b] = "idle"
    BY <1>1, SyncAssumption DEF Begin, WritesUnderLock
  <2>2. /\ pc'[a] \notin {"put", "swap"} /\ lock' = a /\ save' = save
        /\ \A b \in Actor \ {a} : pc'[b] = "idle"
    BY <1>1, <2>1 DEF Begin, Goto, SyncKinds
  <2> QED
    BY <1>1, <2>2 DEF WritesUnderLock, Begin
<1>2. ASSUME NEW a \in Actor, PushStep(a) PROVE WritesUnderLock' /\ file' = file
  <2>1. CASE PageRows(a)
    BY <2>1, <1>l, GotoUnderLock DEF PageRows
  <2>2. ASSUME NEW R \in SUBSET Page(a), PostTaken(a, R) \/ PostFails(a, R)
        PROVE  WritesUnderLock' /\ file' = file
    BY <2>2 DEF PostTaken, PostFails, WritesUnderLock
  <2>3. CASE Report(a) \/ Pushed(a)
    BY <2>3, <1>q, <1>l, RecordUnderLock DEF Report, Pushed
  <2>4. CASE AckFailed(a)
    BY <2>4, <1>q, <1>l, RecordUnderLock DEF AckFailed
  <2>5. CASE Ack(a)
    <3>1. AfterPush(a) \in PcValue \ {"put", "swap"}
      BY <1>l DEF AfterPush
    <3>2. CASE Skip(a, AfterPush(a))
      BY <2>5, <3>1, <3>2, GotoUnderLock DEF Ack, Skip
    <3>3. CASE Record(a, [file EXCEPT !.held = Held(a)], AfterPush(a))
      <4>1. \A t \in Tier : file.cursor[t] <= [file EXCEPT !.held = Held(a)].cursor[t]
        BY <1>f, <1>q DEF Doc
      <4> QED
        BY <2>5, <3>1, <3>3, <4>1, RecordUnderLock DEF Ack
    <3> QED
      BY <2>5, <3>2, <3>3 DEF Ack
  <2> QED
    BY <1>2, <2>1, <2>2, <2>3, <2>4, <2>5 DEF PushStep
<1>3. ASSUME NEW a \in Actor, PullStep(a) PROVE WritesUnderLock' /\ file' = file
  <2>1. CASE PullFails(a)
    BY <2>1, <1>q, <1>l, RecordUnderLock DEF PullFails
  <2>2. CASE NotModified(a) \/ Pulled(a) \/ MergeJudges(a)
    BY <2>2, <1>l, GotoUnderLock DEF NotModified, Pulled, MergeJudges, AfterMerge
  <2>3. ASSUME NEW J, MergeHolds(a, J) PROVE WritesUnderLock' /\ file' = file
    BY <2>3, <1>l, GotoUnderLock DEF MergeHolds, AfterMerge
  <2>4. CASE Cache(a)
    BY <2>4, <1>l, GotoUnderLock DEF Cache
  <2>5. CASE Company(a)
    <3>1. \A t \in Tier : file.cursor[t] <= Raised(file, {"company"}, CursorTo(a)).cursor[t]
      BY <1>f, KindsOfTerms, RaisedRises DEF Tier
    <3> QED
      BY <2>5, <3>1, <1>l, RecordUnderLock DEF Company
  <2>6. CASE Finish(a)
    <3>1. \A t \in Tier : file.cursor[t] <= Raised(file, {"org"}, CursorTo(a)).cursor[t]
      BY <1>f, KindsOfTerms, RaisedRises DEF Tier
    <3> QED
      BY <2>6, <3>1, <1>l, RecordUnderLock DEF Finish
  <2> QED
    BY <1>3, <2>1, <2>2, <2>3, <2>4, <2>5, <2>6 DEF PullStep
<1>4. ASSUME NEW a \in Actor, ReplayStep(a) PROVE WritesUnderLock' /\ file' = file
  <2>r. ASSUME NEW to \in Position
        PROVE  \A t \in Tier : file.cursor[t] <= [Raised(file, Tier, to) EXCEPT !.replay = to].cursor[t]
    <3>1. /\ Raised(file, Tier, to) \in Doc
          /\ \A t \in Tier : file.cursor[t] <= Raised(file, Tier, to).cursor[t]
      BY <1>f, RaisedRises
    <3> QED
      BY <3>1 DEF Doc
  <2>1. CASE Resume(a)
    <3> DEFINE from == IF file.replay = NoReplay THEN Start ELSE file.replay
               doc == [Raised(file, Tier, from) EXCEPT !.replay = from]
    <3>1. from \in Position
      BY <1>f, EmptyRecords DEF Doc
    <3>2. \A t \in Tier : file.cursor[t] <= doc.cursor[t]
      BY <2>r, <3>1
    <3>3. Record(a, doc, "turnpage") /\ pc[a] # "idle" /\ UNCHANGED <<lock, file>>
      BY <2>1 DEF Resume
    <3> HIDE DEF doc
    <3> QED
      BY <3>2, <3>3, <1>l, RecordUnderLock
  <2>2. CASE Unfinished(a) \/ TurnPage(a)
    BY <2>2, <1>l, GotoUnderLock DEF Unfinished, TurnPage
  <2>3. CASE TurnPageFails(a) \/ TurnHeld(a)
    BY <2>3, <1>l, GotoUnderLock DEF TurnPageFails, TurnHeld
  <2>4. CASE TurnLast(a)
    <3>1. CASE Skip(a, "end")
      BY <2>4, <3>1, <1>l, GotoUnderLock DEF TurnLast, Skip
    <3>2. CASE Record(a, [file EXCEPT !.replay = NoReplay], "end")
      <4>1. \A t \in Tier : file.cursor[t] <= [file EXCEPT !.replay = NoReplay].cursor[t]
        BY <1>f, <1>q DEF Doc
      <4> QED
        BY <2>4, <3>2, <4>1, <1>l, RecordUnderLock DEF TurnLast
    <3> QED
      BY <2>4, <3>1, <3>2 DEF TurnLast
  <2>5. CASE TurnNext(a)
    <3> DEFINE doc == [Raised(file, Tier, pull[a].next) EXCEPT !.replay = pull[a].next]
    <3>1. pull[a].next \in Position
      BY DEF SyncKinds
    <3>2. \A t \in Tier : file.cursor[t] <= doc.cursor[t]
      BY <2>r, <3>1
    <3>3. /\ \E l \in {"turnpage", "end"} : Record(a, doc, l)
          /\ pc[a] # "idle" /\ UNCHANGED <<lock, file>>
      BY <2>5 DEF TurnNext
    <3> HIDE DEF doc
    <3> QED
      BY <3>2, <3>3, <1>l, RecordUnderLock
  <2> QED
    BY <1>4, <2>1, <2>2, <2>3, <2>4, <2>5 DEF ReplayStep
<1>5. ASSUME NEW a \in Actor, Swap(a)
      PROVE  WritesUnderLock' /\ \A t \in Tier : file.cursor[t] <= file'.cursor[t]
  <2>1. lock = a /\ file' = save[a].doc /\ \A t \in Tier : file.cursor[t] <= file'.cursor[t]
    BY <1>5 DEF Swap, WritesUnderLock
  <2>2. /\ pc'[a] = save[a].then /\ save'[a] = NoSave
        /\ \A b \in Actor \ {a} : pc'[b] = pc[b] /\ save'[b] = save[b]
    BY <1>5 DEF Swap, Goto, SyncKinds
  <2>3. pc'[a] \notin {"put", "swap"} /\ save'[a].then = "end"
    BY <2>2 DEF WritesUnderLock, NoSave
  <2> QED
    BY <1>5, <2>1, <2>2, <2>3, HolderSteps DEF Swap
<1>6. ASSUME NEW a \in Actor, WriteStep(a) \/ Retry(a) \/ Crash(a), ~Swap(a)
      PROVE  WritesUnderLock' /\ file' = file
  <2>1. CASE Put(a)
    <3>1. pc'[a] = "swap" /\ \A b \in Actor \ {a} : pc'[b] = pc[b]
      BY <2>1 DEF Put, Goto, SyncKinds
    <3>2. lock = a
      BY <2>1 DEF Put, WritesUnderLock
    <3> QED
      BY <2>1, <3>1, <3>2, HolderSteps DEF Put, WritesUnderLock
  <2>2. CASE SwapFails(a)
    BY <2>2, <1>l, GotoUnderLock DEF SwapFails
  <2>3. CASE pc[a] # "idle" /\ Leave(a)
    <3>1. lock = a /\ \A b \in Actor \ {a} : pc[b] = "idle"
      BY <2>3 DEF WritesUnderLock
    <3>2. /\ pc'[a] = "idle" /\ save'[a] = NoSave /\ file' = file
          /\ \A b \in Actor \ {a} : pc'[b] = "idle" /\ save'[b] = save[b]
      BY <2>3, <3>1 DEF Leave, Goto, SyncKinds
    <3>3. NoSave.then = "end"
      BY DEF NoSave
    <3> QED
      BY <3>2, <3>3 DEF WritesUnderLock
  <2>4. ~Retry(a)
    BY DEF Retry
  <2> QED
    BY <1>6, <2>1, <2>2, <2>3, <2>4 DEF WriteStep, End, Crash
<1>7. CASE (\E r \in Row : Edit(r)) \/ (\E t \in Tier : Publish(t)) \/ Expire \/ UNCHANGED syncVars
  <2>1. UNCHANGED <<file, tmp, lock, pc, save>>
    BY <1>7 DEF Edit, Publish, Expire, syncVars
  <2> QED
    BY <2>1, <1>q DEF WritesUnderLock
<1> QED
  BY <1>1, <1>2, <1>3, <1>4, <1>5, <1>6, <1>7, <1>q DEF SyncNext, Step

\* "This cursor advances on its own high-water mark and never regresses"
\* (coordinator.py); "the periodic cursors are only ever raised" (_replay.py).
CursorsOnlyRise == [][\A t \in Tier : file.cursor[t] <= file'.cursor[t]]_syncVars

\* True as long as every writer takes the lock, that is, while nobody runs
\* "sync push --retry-rejected"; with it a cycle's cursor can be overwritten by an
\* older one, which costs pages pulled twice and, by NothingIsSkipped, no learning.
THEOREM CursorsRise ==
    ASSUME \A a \in Actor : "retry" \notin CallsOf[a]
    PROVE  SyncSpec => CursorsOnlyRise
<1>1. SyncInit => WritesUnderLock
  BY EmptyRecords DEF SyncInit, WritesUnderLock, NoSave
<1>2. SyncKinds /\ SyncKinds' /\ WritesUnderLock /\ [SyncNext]_syncVars => WritesUnderLock'
  BY LockStep
<1>3. SyncKinds /\ SyncKinds' /\ WritesUnderLock /\ [SyncNext]_syncVars
      => [\A t \in Tier : file.cursor[t] <= file'.cursor[t]]_syncVars
  BY LockStep
<1> QED
  BY <1>1, <1>2, <1>3, SyncTyping, PTL DEF SyncSpec, CursorsOnlyRise
================================================================================
