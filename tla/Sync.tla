---------------------------------- MODULE Sync ----------------------------------
(***************************************************************************)
(* Synchronisation with the learning backend: sync/_client_cycle.py,       *)
(* sync/_replay.py, sync/coordinator.py, sync/push.py, sync/cache.py.      *)
(*                                                                         *)
(* A cycle pushes the rows of this checkout that changed and pulls the     *)
(* team's learnings; a replay ("sync pull --full") pulls them again from   *)
(* the start.  Both hold sync.lock, which dies with its holder.            *)
(* sync-state.json is read, changed and written whole by every record_     *)
(* method: written to one fixed temporary name, then renamed.  Only        *)
(* "sync push --retry-rejected" does so WITHOUT the lock.  The backend,    *)
(* and edits of the rows, go on meanwhile.                                 *)
(*                                                                         *)
(* Left out: outcome telemetry, labels and secondary targets, counters of  *)
(* failures and the schedule they drive (the writes that carry them are    *)
(* kept, since each rewrites the whole file), a file that does not parse,  *)
(* rows that were pulled and the merge with local edits.                   *)
(***************************************************************************)
EXTENDS Naturals, FiniteSets

CONSTANTS
    Actor,         \* the server's loop and commands
    CallsOf,       \* [Actor -> what it runs, among Calls and "retry"]
    Nobody,        \* stands for no actor
    Row,           \* ids of the learnings of this checkout
    DirtyLimit,    \* DIRTY_PAGE_SIZE: rows one push takes
    BatchSize,     \* rows of one request
    PageSize,      \* learnings of a tier the backend returns at once
    NoDoc, NoReplay, NoTag,   \* absence
    FirstFeed,     \* [Tier -> learnings the team published before the first cycle]
    MaxFeed,       \* bound: [Tier -> learnings the team publishes]
    MaxEdits,      \* bound: edits of rows
    MaxFaults      \* bound: refusals, failures, held pages and deaths

Tier == {"org", "company"}

\* Halves of a cycle or both, and "sync pull --full"; "sync push --retry-rejected" is
\* a "retry" and a "push".
Calls == {"push", "pull", "both", "replay"}

ASSUME SyncAssumption ==
    /\ CallsOf \in [Actor -> SUBSET (Calls \cup {"retry"})]
    /\ Nobody \notin Actor
    /\ Row \subseteq Nat /\ IsFiniteSet(Row)
    /\ DirtyLimit \in Nat \ {0} /\ BatchSize \in Nat \ {0} /\ PageSize \in Nat \ {0}
    /\ FirstFeed \in [Tier -> Nat] /\ MaxFeed \in [Tier -> Nat]
    /\ MaxEdits \in Nat /\ MaxFaults \in Nat

VARIABLES
    feed,          \* [Tier -> highest sync_seq the backend has]
    accepted,      \* history: [Row -> versions the backend took]
    refused,       \* history: [Row -> versions it refused]
    version,       \* [Row -> its sync_seq]
    dirty,         \* rows not marked synced
    judged,        \* [Tier -> learnings the merge has judged]
    file, tmp,     \* sync-state.json and its temporary file
    tag,           \* the etag in intel-cache.json: the page it names
    lock,          \* holder of sync.lock
    pc, call,      \* [Actor -> its next step, what it runs]
    push,          \* [Actor -> the push under way]
    pull,          \* [Actor -> the page under way]
    save,          \* [Actor -> the state it is writing, and where it goes on]
    edits, faults  \* so far, for the bounds

backend == <<feed, accepted, refused>>
store == <<version, dirty, judged, edits>>
disk == <<file, tmp, tag>>
syncVars == <<backend, store, disk, lock, pc, call, push, pull, save, faults>>

-----------------------------------------------------------------------------
(* Documents and pages *)

Larger(m, n) == IF m < n THEN n ELSE m
Smaller(m, n) == IF m < n THEN m ELSE n

Position == [Tier -> Nat]
Versions == [Row -> Nat]     \* 0: the row is not among them

Start == [t \in Tier |-> 0]
NoRows == [r \in Row |-> 0]

\* last_pull_seq and last_company_pull_seq, rejected_entries, the replay block.
Doc == [cursor : Position, held : Versions, replay : Position \cup {NoReplay}]

NoPush == [paged |-> NoRows, sent |-> {}, rejected |-> {}, failed |-> FALSE]
NoPull == [since |-> Start, next |-> Start, ok |-> FALSE]
NoSave == [doc |-> [cursor |-> Start, held |-> NoRows, replay |-> NoReplay], then |-> "end"]

\* record_pull_success and its like: the cursors of the tiers T only ever rise.
Raised(doc, T, to) ==
    [doc EXCEPT !.cursor =
        [t \in Tier |-> IF t \in T THEN Larger(doc.cursor[t], to[t]) ELSE doc.cursor[t]]]

\* The learnings a position has passed, and those of a page.
Passed(position) == [t \in Tier |-> 1..position[t]]
Content(page) == [t \in Tier |-> (page.since[t] + 1)..page.next[t]]
IsEmpty(page) == page.next = page.since

\* Seeded fault of Reach: a page is taken to be full.
Reach_FullPage(since) == [t \in Tier |-> since[t] + PageSize]

\* The last learnings of the page that follows since.
Reach(since) ==
    [t \in Tier |-> Larger(since[t], Smaller(since[t] + PageSize, feed[t]))]

\* Oldest first: by sync_seq, then by id.
Before(versions, r, s) ==
    versions[r] < versions[s] \/ (versions[r] = versions[s] /\ r < s)

\* The first n rows of S.
First(versions, S, n) == {r \in S : Cardinality({s \in S : Before(versions, s, r)}) < n}

-----------------------------------------------------------------------------
(* The rows a push takes *)

\* A refused row is held back until it is edited.
Pushable(doc) == {r \in dirty : doc.held[r] # version[r]}

\* Seeded fault of DirtyPage: the page is cut before held rows are left out.
DirtyPage_CutFirst(doc) == Pushable(doc) \cap First(version, dirty, DirtyLimit)

DirtyPage(doc) == First(version, Pushable(doc), DirtyLimit)

Page(a) == {r \in Row : push[a].paged[r] # 0}
Unsent(a) == Page(a) \ push[a].sent
Batch(a) == First(push[a].paged, Unsent(a), BatchSize)

\* Acknowledged by COUNT: as many rows of the page, without those refused, as the
\* backend reported pushed or skipped.
Accepted(a) ==
    First(push[a].paged, Page(a) \ push[a].rejected,
          Cardinality(push[a].sent \ push[a].rejected))

\* Seeded fault of MarkSynced: rows edited since they were paged are marked too.
MarkSynced_Edited(a) == Accepted(a)

\* A row is marked only while its sync_seq is the pushed one.
MarkSynced(a) == {r \in Accepted(a) : version[r] = push[a].paged[r]}

\* update_rejected: hold the refused rows at the version pushed, release the others.
Held(a) ==
    [r \in Row |-> IF r \in push[a].rejected THEN push[a].paged[r]
                   ELSE IF r \in Accepted(a) THEN 0 ELSE file.held[r]]

\* Seeded fault of CursorTo: a held page moves the cursor too.
CursorTo_Held(a) == pull[a].next

\* The cursor may only pass learnings that were judged.
CursorTo(a) == IF pull[a].ok THEN pull[a].next ELSE pull[a].since

\* Seeded fault of EtagToCache: the etag of a held page is cached.
EtagToCache_Held(a) == Content(pull[a])

EtagToCache(a) == IF pull[a].ok THEN Content(pull[a]) ELSE NoTag

-----------------------------------------------------------------------------
(* Steps *)

Fault == faults < MaxFaults /\ faults' = faults + 1
NoFault == UNCHANGED faults

Goto(a, l) == pc' = [pc EXCEPT ![a] = l]

\* A record_ method: what it read, changed, is now to be written.
Record(a, doc, then) ==
    /\ save' = [save EXCEPT ![a] = [doc |-> doc, then |-> then]]
    /\ Goto(a, "put")

\* It goes on without writing.
Skip(a, then) == Goto(a, then) /\ UNCHANGED save

Begin(a, c) ==
    /\ pc[a] = "idle" /\ lock = Nobody
    /\ c \in CallsOf[a]
    /\ lock' = a
    /\ call' = [call EXCEPT ![a] = c]
    /\ Goto(a, IF c = "replay" THEN "resume" ELSE "page")
    /\ UNCHANGED <<backend, store, disk, push, pull, save, faults>>

PageRows(a) ==
    /\ pc[a] = "page"
    /\ LET rows == IF call[a] = "pull" THEN {} ELSE DirtyPage(file)
           paged == [r \in Row |-> IF r \in rows THEN version[r] ELSE 0]
       IN push' = [push EXCEPT ![a] = [NoPush EXCEPT !.paged = paged]]
    /\ Goto(a, "post")
    /\ UNCHANGED <<backend, store, disk, lock, call, pull, save, faults>>

\* A batch is accepted but for the rows R, which are isolated by their 422.
PostTaken(a, R) ==
    /\ pc[a] = "post" /\ Unsent(a) # {}
    /\ R \subseteq Batch(a)
    /\ IF R = {} THEN NoFault ELSE Fault
    /\ accepted' = [r \in Row |-> IF r \in Batch(a) \ R THEN accepted[r] \cup {push[a].paged[r]}
                                  ELSE accepted[r]]
    /\ refused' = [r \in Row |-> IF r \in R THEN refused[r] \cup {push[a].paged[r]} ELSE refused[r]]
    /\ push' = [push EXCEPT ![a].sent = @ \cup Batch(a), ![a].rejected = @ \cup R]
    /\ UNCHANGED <<feed, store, disk, lock, pc, call, pull, save>>

\* A batch is reported failed, though the backend may have taken some rows of it.
PostFails(a, T) ==
    /\ pc[a] = "post" /\ Unsent(a) # {}
    /\ T \subseteq Batch(a)
    /\ Fault
    /\ accepted' = [r \in Row |-> IF r \in T THEN accepted[r] \cup {push[a].paged[r]} ELSE accepted[r]]
    /\ push' = [push EXCEPT ![a].sent = @ \cup Batch(a), ![a].failed = TRUE]
    /\ UNCHANGED <<feed, refused, store, disk, lock, pc, call, pull, save>>

\* All is sent, or consent was withdrawn or a row quarantined meanwhile; then
\* record_target_health.
Report(a) ==
    /\ pc[a] = "post"
    /\ IF Unsent(a) = {} THEN NoFault ELSE Fault
    /\ Record(a, file, "ack")
    /\ UNCHANGED <<backend, store, disk, lock, call, push, pull>>

AfterPush(a) == IF call[a] = "push" THEN "pushed" ELSE "pull"

\* Nothing of a failed push is acknowledged: record_sync_failure.
AckFailed(a) ==
    /\ pc[a] = "ack" /\ push[a].failed
    /\ push' = [push EXCEPT ![a] = NoPush]
    /\ Record(a, file, IF call[a] = "push" THEN "end" ELSE "pull")
    /\ UNCHANGED <<backend, store, disk, lock, call, pull, faults>>

Ack(a) ==
    /\ pc[a] = "ack" /\ ~push[a].failed
    /\ dirty' = dirty \ MarkSynced(a)
    /\ push' = [push EXCEPT ![a] = NoPush]
    /\ IF Held(a) = file.held /\ push[a].rejected = {}
       THEN Skip(a, AfterPush(a))
       ELSE Record(a, [file EXCEPT !.held = Held(a)], AfterPush(a))
    /\ UNCHANGED <<backend, version, judged, edits, disk, lock, call, pull, faults>>

\* A push on its own ends with record_sync_success.
Pushed(a) ==
    /\ pc[a] = "pushed"
    /\ Record(a, file, "end")
    /\ UNCHANGED <<backend, store, disk, lock, call, push, pull, faults>>

PullFails(a) ==
    /\ pc[a] = "pull"
    /\ Fault
    /\ Record(a, file, "end")
    /\ UNCHANGED <<backend, store, disk, lock, call, push, pull>>

\* The page behind both cursors, as the backend has it now.
Answer == [since |-> file.cursor, next |-> Reach(file.cursor), ok |-> FALSE]

NotModified(a) ==
    /\ pc[a] = "pull"
    /\ tag = Content(Answer)
    /\ pull' = [pull EXCEPT ![a] = [Answer EXCEPT !.next = file.cursor]]
    /\ Goto(a, "finish")
    /\ UNCHANGED <<backend, store, disk, lock, call, push, save, faults>>

Pulled(a) ==
    /\ pc[a] = "pull"
    /\ tag # Content(Answer)
    /\ pull' = [pull EXCEPT ![a] = Answer]
    /\ Goto(a, "merge")
    /\ UNCHANGED <<backend, store, disk, lock, call, push, save, faults>>

AfterMerge(a) == IF call[a] = "replay" THEN "turn" ELSE "cache"

MergeJudges(a) ==
    /\ pc[a] = "merge"
    /\ judged' = [t \in Tier |-> judged[t] \cup Content(pull[a])[t]]
    /\ pull' = [pull EXCEPT ![a].ok = TRUE]
    /\ Goto(a, AfterMerge(a))
    /\ UNCHANGED <<backend, version, dirty, edits, disk, lock, call, push, save, faults>>

\* Part of the page, J, is judged: the store failed, or the merge could not run.
MergeHolds(a, J) ==
    /\ pc[a] = "merge"
    /\ \A t \in Tier : J[t] \subseteq Content(pull[a])[t]
    /\ Fault
    /\ judged' = [t \in Tier |-> judged[t] \cup J[t]]
    /\ Goto(a, AfterMerge(a))
    /\ UNCHANGED <<backend, version, dirty, edits, disk, lock, call, push, pull, save>>

Cache(a) ==
    /\ pc[a] = "cache"
    /\ tag' = EtagToCache(a)
    /\ Goto(a, IF pull[a].ok THEN "company"
               ELSE IF call[a] = "pull" /\ ~IsEmpty(pull[a]) THEN "end" ELSE "finish")
    /\ UNCHANGED <<backend, store, file, tmp, lock, call, push, pull, save, faults>>

\* record_company_pull_seq.
Company(a) ==
    /\ pc[a] = "company"
    /\ Record(a, Raised(file, {"company"}, CursorTo(a)), "finish")
    /\ UNCHANGED <<backend, store, disk, lock, call, push, pull, faults>>

\* record_sync_success or record_pull_success.
Finish(a) ==
    /\ pc[a] = "finish"
    /\ pull' = [pull EXCEPT ![a] = NoPull]
    /\ Record(a, Raised(file, {"org"}, CursorTo(a)), "end")
    /\ UNCHANGED <<backend, store, disk, lock, call, push, faults>>

-----------------------------------------------------------------------------
(* The replay *)

\* From the block of an unfinished replay, or from the start.
Resume(a) ==
    /\ pc[a] = "resume"
    /\ LET from == IF file.replay = NoReplay THEN Start ELSE file.replay
       IN /\ pull' = [pull EXCEPT ![a].since = from]
          /\ Record(a, [Raised(file, Tier, from) EXCEPT !.replay = from], "turnpage")
    /\ UNCHANGED <<backend, store, disk, lock, call, push, faults>>

\* Without --resume an unfinished replay is left alone.
Unfinished(a) ==
    /\ pc[a] = "resume" /\ file.replay # NoReplay
    /\ Goto(a, "end")
    /\ UNCHANGED <<backend, store, disk, lock, call, push, pull, save, faults>>

TurnPage(a) ==
    /\ pc[a] = "turnpage"
    /\ pull' = [pull EXCEPT ![a].next = Reach(pull[a].since), ![a].ok = FALSE]
    /\ Goto(a, "merge")
    /\ UNCHANGED <<backend, store, disk, lock, call, push, save, faults>>

\* A pull fails; another attempt, or the last one.
TurnPageFails(a) ==
    /\ pc[a] = "turnpage"
    /\ Fault
    /\ \E l \in {"turnpage", "end"} : Goto(a, l)
    /\ UNCHANGED <<backend, store, disk, lock, call, push, pull, save>>

\* The page was held: another attempt, or stop and keep the block.
TurnHeld(a) ==
    /\ pc[a] = "turn" /\ ~pull[a].ok /\ ~IsEmpty(pull[a])
    /\ \E l \in {"turnpage", "end"} : Goto(a, l)
    /\ UNCHANGED <<backend, store, disk, lock, call, push, pull, save, faults>>

\* The end of the feed: clear_replay.
TurnLast(a) ==
    /\ pc[a] = "turn" /\ IsEmpty(pull[a])
    /\ IF file.replay = NoReplay THEN Skip(a, "end")
       ELSE Record(a, [file EXCEPT !.replay = NoReplay], "end")
    /\ UNCHANGED <<backend, store, disk, lock, call, push, pull, faults>>

\* record_replay_page; then the next page, or a pause at max_pages.
TurnNext(a) ==
    /\ pc[a] = "turn" /\ pull[a].ok /\ ~IsEmpty(pull[a])
    /\ pull' = [pull EXCEPT ![a].since = pull[a].next]
    /\ \E l \in {"turnpage", "end"} :
          Record(a, [Raised(file, Tier, pull[a].next) EXCEPT !.replay = pull[a].next], l)
    /\ UNCHANGED <<backend, store, disk, lock, call, push, faults>>

-----------------------------------------------------------------------------
(* Writing, ending, and the world outside *)

\* clear_rejected, by a command that holds no lock; its push is a cycle of its own.
Retry(a) ==
    /\ "retry" \in CallsOf[a] /\ pc[a] = "idle"
    /\ file.held # NoRows
    /\ Record(a, [file EXCEPT !.held = NoRows], "end")
    /\ UNCHANGED <<backend, store, disk, lock, call, push, pull, faults>>

Put(a) ==
    /\ pc[a] = "put"
    /\ tmp' = save[a].doc
    /\ Goto(a, "swap")
    /\ UNCHANGED <<backend, store, file, tag, lock, call, push, pull, save, faults>>

\* The rename takes whatever the temporary file holds by now.
Swap(a) ==
    /\ pc[a] = "swap" /\ tmp # NoDoc
    /\ file' = tmp
    /\ tmp' = NoDoc
    /\ save' = [save EXCEPT ![a] = NoSave]
    /\ Goto(a, save[a].then)
    /\ UNCHANGED <<backend, store, tag, lock, call, push, pull, faults>>

\* Another writer has renamed it already: the call raises.
SwapFails(a) ==
    /\ pc[a] = "swap" /\ tmp = NoDoc
    /\ Goto(a, "end")
    /\ UNCHANGED <<backend, store, disk, lock, call, push, pull, save, faults>>

\* Nothing of a call outlives it but what it wrote.
Leave(a) ==
    /\ lock' = IF lock = a THEN Nobody ELSE lock
    /\ call' = [call EXCEPT ![a] = "none"]
    /\ push' = [push EXCEPT ![a] = NoPush]
    /\ pull' = [pull EXCEPT ![a] = NoPull]
    /\ save' = [save EXCEPT ![a] = NoSave]
    /\ Goto(a, "idle")
    /\ UNCHANGED <<backend, store, disk>>

End(a) == pc[a] = "end" /\ Leave(a) /\ NoFault

Crash(a) == pc[a] # "idle" /\ Leave(a) /\ Fault

Edit(r) ==
    /\ edits < MaxEdits /\ edits' = edits + 1
    /\ version' = [version EXCEPT ![r] = @ + 1]
    /\ dirty' = dirty \cup {r}
    /\ UNCHANGED <<backend, judged, disk, lock, pc, call, push, pull, save, faults>>

Publish(t) ==
    /\ feed[t] < MaxFeed[t]
    /\ feed' = [feed EXCEPT ![t] = @ + 1]
    /\ UNCHANGED <<accepted, refused, store, disk, lock, pc, call, push, pull, save, faults>>

\* The cache outlives its time to live: the next pull is unconditional.
Expire ==
    /\ tag # NoTag
    /\ tag' = NoTag
    /\ UNCHANGED <<backend, store, file, tmp, lock, pc, call, push, pull, save, edits, faults>>

-----------------------------------------------------------------------------
(* Specification *)

SyncInit ==
    /\ feed = FirstFeed
    /\ accepted = [r \in Row |-> {}]
    /\ refused = [r \in Row |-> {}]
    /\ version = [r \in Row |-> 1]
    /\ dirty = Row /\ edits = 0
    /\ judged = [t \in Tier |-> {}]
    /\ file = NoSave.doc
    /\ tmp = NoDoc
    /\ tag = NoTag
    /\ lock = Nobody
    /\ pc = [a \in Actor |-> "idle"]
    /\ call = [a \in Actor |-> "none"]
    /\ push = [a \in Actor |-> NoPush]
    /\ pull = [a \in Actor |-> NoPull]
    /\ save = [a \in Actor |-> NoSave]
    /\ faults = 0

PushStep(a) ==
    \/ PageRows(a)
    \/ \E R \in SUBSET Page(a) : PostTaken(a, R) \/ PostFails(a, R)
    \/ Report(a) \/ AckFailed(a) \/ Ack(a) \/ Pushed(a)

PullStep(a) ==
    \/ PullFails(a) \/ NotModified(a) \/ Pulled(a) \/ MergeJudges(a)
    \/ \E J \in [Tier -> SUBSET (1..Larger(MaxFeed["org"], MaxFeed["company"]))] : MergeHolds(a, J)
    \/ Cache(a) \/ Company(a) \/ Finish(a)

ReplayStep(a) ==
    \/ Resume(a) \/ Unfinished(a) \/ TurnPage(a) \/ TurnPageFails(a)
    \/ TurnHeld(a) \/ TurnLast(a) \/ TurnNext(a)

WriteStep(a) == Put(a) \/ Swap(a) \/ SwapFails(a) \/ End(a)

Step(a) == PushStep(a) \/ PullStep(a) \/ ReplayStep(a) \/ WriteStep(a)

SyncNext ==
    \/ \E a \in Actor : \/ \E c \in Calls : Begin(a, c)
                        \/ Step(a) \/ Retry(a) \/ Crash(a)
    \/ \E r \in Row : Edit(r)
    \/ \E t \in Tier : Publish(t)
    \/ Expire

SyncSpec == SyncInit /\ [][SyncNext]_syncVars

\* A call under way goes on and ends; the loop gets the lock for a cycle again and
\* again; a cached etag expires; the operator does not retry for ever.
SyncLiveSpec ==
    /\ SyncSpec
    /\ \A a \in Actor : WF_syncVars(Step(a))
    /\ SF_syncVars(\E a \in Actor : Begin(a, "both"))
    /\ WF_syncVars(Expire)
    /\ <>[][\A a \in Actor : ~Retry(a)]_syncVars

-----------------------------------------------------------------------------
(* Properties *)

PcValue == {"idle", "page", "post", "ack", "pushed", "pull", "merge", "cache", "company",
            "finish", "resume", "turnpage", "turn", "put", "swap", "end"}

\* The kinds of the variables.
SyncKinds ==
    /\ feed \in Position
    /\ accepted \in [Row -> SUBSET Nat] /\ refused \in [Row -> SUBSET Nat]
    /\ version \in [Row -> Nat \ {0}]
    /\ dirty \subseteq Row
    /\ judged \in [Tier -> SUBSET Nat]
    /\ file \in Doc /\ tmp \in Doc \cup {NoDoc}
    /\ tag \in [Tier -> SUBSET Nat] \cup {NoTag}
    /\ lock \in Actor \cup {Nobody}
    /\ pc \in [Actor -> PcValue]
    /\ call \in [Actor -> Calls \cup {"none"}]
    /\ push \in [Actor -> [paged : Versions, sent : SUBSET Row, rejected : SUBSET Row, failed : BOOLEAN]]
    /\ pull \in [Actor -> [since : Position, next : Position, ok : BOOLEAN]]
    /\ save \in [Actor -> [doc : Doc, then : PcValue]]
    /\ edits \in 0..MaxEdits /\ faults \in 0..MaxFaults

\* Every variable keeps its kind, and no cursor is beyond what the backend has: one
\* that outran the feed would skip learnings still to come.
SyncTypeOK == SyncKinds /\ \A t \in Tier : file.cursor[t] <= feed[t]

\* "The cursor may only pass items that were judged" (_client_cycle.py): what the two
\* cursors or the replay block of the state file have passed is never asked for again,
\* so each of it must have been through the merge, whoever wrote the file last.
CursorsPassOnlyJudged ==
    \A t \in Tier :
        /\ Passed(file.cursor)[t] \subseteq judged[t]
        /\ file.replay # NoReplay => Passed(file.replay)[t] \subseteq judged[t]

\* PRD-FIX-138: the page of a cached etag is judged whole, so a 304 hides nothing that
\* must be offered again.
EtagIsJudged == tag # NoTag => \A t \in Tier : tag[t] \subseteq judged[t]

\* A row the next push leaves out - marked synced, or held back - is left out at a
\* version the backend took or refused: rows edited during a push, unsent, or of a
\* failed push stay in.
WithheldWasDecided ==
    \A r \in Row : r \notin Pushable(file) => version[r] \in accepted[r] \cup refused[r]

\* With SyncLiveSpec, synchronisation catches up again and again: all that was published
\* is judged and every row is taken or held back, though pages were held, pushes failed,
\* etags were cached, processes died and a retry overwrote the cursors.
SyncCatchesUp ==
    []<>(Pushable(file) = {} /\ \A t \in Tier : 1..feed[t] \subseteq judged[t])
================================================================================
