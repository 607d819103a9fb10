# trw-mcp in TLA+

A verification development kept beside trw-mcp: models of the parts whose
correctness depends on order, failure and concurrency, the TLC runs that check
them on small instances, and proofs for every instance. Paths below are relative
to the repository; `comms/` and the like stand for `src/trw_mcp/comms/`.

## 1. The system and its parts

trw-mcp is an MCP server. Every client session starts one server process, so a
project directory usually has several processes working on the same `.trw/`
tree, with threads inside each of them (tool calls run on worker threads,
`comms/_wait.py`). Nothing but files is shared: SQLite databases, JSON and YAML files
replaced atomically, lock and claim files. A process may die at any point.

| Part | State | Operations | Hard behaviour | Correct when |
| --- | --- | --- | --- | --- |
| Endpoint fencing (`comms/_endpoints.py`, `comms/__init__.py`) | one row per member in `endpoints`; per process its token and whether it was displaced | enroll, confirm, fence, restart | commit under the lock, memory after it; take-overs; restarts | one process consumes for a member; a displaced one never comes back |
| Mailbox (`comms/__init__.py`, `_send_op`, `_messages`, `_policy`, `_handoff`, `_inbox_page`) | `groups`, `admissions`, `milestones`, `handoff_reports` | send, fetch, ack, accept, report, complete, status, list, heartbeat | expiry inside every transaction, stale membership, wall clock stepping back, partial rollback | the facts `_schema.verify` demands always hold; nothing is stranded by closure |
| Mailbox store (`comms/_store.py`, `_schema.py`) | the SQLite file, group clock | immediate transaction, publication, verification | two creators, cached verification | only whole, verified files are used |
| Mailbox upgrade (`comms/_upgrade.py`) | file, backup, record | upgrade, rollback | a crash between any two steps | a rollback drops no traffic committed later |
| Scoped notify (`comms/_notify.py`, `_scope.py`, `_peers_page.py`) | several rows of one transaction | notify, peers page | an owner that does not listen is skipped, a limit undoes all; retries after the owners changed | a key names one message; limits hold for the whole fan-out |
| Bounded wait (`comms/_wait.py`, `_watch.py`) | one guard per process | wait, cancel, give up | binding changes while waiting | the guard is given back; pages go to the present owner |
| Accepted handoff records (`comms/_ahr_*.py`, `handoff/`) | append-only event log | propose, accept, decline, evidence | replay of the log, decisions that race | replaying the log gives one state |
| Formation (`formation/`, `comms/_pickup.py`, `_pause_state.py`) | the manifest, candidates, merge queue | join, deliver, revise, pick up, pause | a crash between any two stages; revocation; two orchestrators | only who was granted a slot joins it; a pick-up always ends |
| Learning journal (`state/learn_journal.py`, `_learn_journal_*.py`, `tools/_learn_*.py`) | `pending/`, `dead_letter/`, claim files, the store | learn, drain, replay, bury | drains of several processes, crashes, retries, reclaiming stale claims | an accepted learning is never lost and ends stored or buried |
| Dispatch (`dispatch/`) | slot and credential locks, job records, results, sidecars, child processes | take a slot, run, retry, start in the background, poll, kill | nested dispatch, two kinds of lock, deadlines, orphans, pollers racing the job | the cap is strict, nobody waits for what its child needs, a record tells the truth and every job settles |
| Sync (`sync/`) | `sync-state.json` (two cursors, held rows, replay block), `intel-cache.json` (etag), `sync.lock`, dirty marks of rows | push, pull, full pull, clear the refused rows | pages held or failed, acknowledgement by count, rows edited meanwhile, whole-file writes without the lock, a crash between two writes | no cursor passes a learning that was not judged; no row is left out of the pushes undecided; both sides catch up |
| Shared server (`shared_server/`) | one server record per project | start, probe, swap | two starters, stale record | at most one server is adopted |
| Run state (`state/_paths*.py`, pins, `_git_commit*.py`, `_pre_compact*.py`) | pins, markers | pin, resolve, commit, mark | two sessions of one key | a pin leads to its own run |
| Learning store, recall, consolidation (`state/`) | records, indexes, tiers | store, recall, consolidate | data heavy | ranking and text, not control |
| Tools, server, middleware, clients, telemetry, security, self-tuning, code index, services, CLI | little of their own | request handling, rendering, scanning | I/O | - |

How they interact: a tool call resolves its caller (pin, run directory,
formation manifest) **outside** any lock, then runs one mailbox transaction; the
endpoint fence is part of that transaction, except that the token of an
enrollment reaches the memory of its process after the commit. The formation
decides who may operate, and its end closes the mailbox group inside whichever
transaction observes it. A run gets into a formation through `trw_inbox`, whose calls advance
its pick-up over four stores (registry, manifest, run stamp, mailbox). An
operator may upgrade the mailbox, or take the upgrade back, under the feet of its members.
A dispatch may be started by a tool call, and by the agent another dispatch runs. Session start of any process drains the learning
journal that the learn calls of all of them filled. The sync loop of one server at a time, and the `trw-mcp sync`
commands, exchange learnings with the backend over one state file.

`PROJECT.json` lists every component with its files and status, and every hazard
with its line.

## 2. Modules

| Module | Models | Kind |
| --- | --- | --- |
| `ExclusiveConsumer` | what fencing promises: a member has at most one consumer, a process that lost it never serves it again | abstract specification |
| `Endpoints` | the endpoints table and the memories of the processes | component |
| `MessageLifecycle` | what the mailbox promises about one message and the closing of a group | abstract specification |
| `Mailbox` | the operations of the mailbox; EXTENDS `Endpoints` and composes with it | component and composition |
| `DurableQueue` | what the journal promises: a learning has a file until it is stored or set aside | abstract specification |
| `LearnJournal` | the original learn calls, the drains, their files and claims | component |
| `MailboxUpgrade` | publication, upgrade and rollback of the mailbox file, its backups and its record | component |
| `Pickup` | how a run becomes a member: registry, manifest, run stamps, mailbox enrollment | composition of four stores |
| `Dispatch` | slots, credential lock, budget, background jobs and their pollers | component |
| `Sync` | synchronisation with the learning backend: pushes, pulls, the replay, their state file | component |
| `EndpointsProofs`, `MailboxProofs`, `MailboxCountingProofs`, `LearnJournalProofs`, `MailboxUpgradeProofs`, `PickupProofs`, `DispatchProofs`, `SyncProofs` | theorems | proofs |
| `MCEndpoints`, `MCMailbox`, `MCLearnJournal`, `MCMailboxUpgrade`, `MCPickup`, `MCDispatch`, `MCSync` | constants for TLC | model checking |

### Endpoints

`endpoint[m]` is the row of a member (token and generation), `mine[p]` is
`_PROCESS_INCARNATIONS`, `displaced` is `_DISPLACED`. `Enroll` is the transaction of
`enroll` (`comms/_endpoints.py`); `Confirm` is `confirm_enrollment`, which
runs after the lock is gone, so the tokens of calls between the two steps
are in `enrolling`. `Fence` is any owning operation refused by
`_assert_not_displaced`, which remembers the refusal. `Restart` loses the memory of a
process and keeps the table. A token is 16 random bytes: the n-th draw is the
number n, so draws never repeat. `minted` and `drawn` are history. Leases are
advice to readers of `peers(list)`, and let a notify skip an owner; they are left out, and so is a heartbeat,
which only renews one.

### Mailbox

Every operation of `comms/__init__.py` runs in one `BEGIN IMMEDIATE` transaction, so
one action is one transaction. Its head is the same for all
(`_operation`): the effective time `Now` never falls behind the persisted group
time, due messages expire, bodies past their grace are dropped (`Swept`,
`SweptFacts`), an all-terminal membership closes the group (`Touched`). Then the
operation runs on what the sweep left. A refused operation rolls back to a
savepoint taken after the sweep and so leaves the same tables as a read:
`Observe` stands for reads, exact retries and refusals. `FencedCall` is a refusal that also
marks its process as displaced. A send is fenced before the group is found
closed, so `FencedCall` is possible in a closed group.

| Code | Action |
| --- | --- |
| `peers(enroll)` and its confirmation | `EnrollCall`, `ConfirmCall` |
| send to one member (`_send_op.py`), scoped notify (`_notify.py`); both admit a batch (`_admission.py`, `_policy.check_limits`) | `Send`, `Notify`; `Admit` |
| fetch (`_inbox_page.py`, `_messages.prepare_fetch`) | `Fetch` |
| ack, accept, report, complete | `Ack`, `Accept`, `Report`, `Complete` |
| status, list, heartbeat, retries, refusals | `Observe` |
| process restart | `RestartCall` |
| formation manifest (external) | `Advance` |
| wall clock | `Tick`, `StepBack` |

What happens outside the transaction is where the hazards are. `seen[p]` is the
set of rosters a call of process p may have read before it got the lock: it
holds every roster since p started, because a call may wait for the lock
arbitrarily long. The wall clock may step back.

Abstractions: a message is named by its sender, its request key and its shard: none for a direct
message, the member it is for when it is part of a notify (`shard_key`). `Notify` takes any set of other
members that may operate and have an endpoint for the owners it reaches: which scope they declared, and the
lease that says whether an endpoint is live, are left out. It admits to all of them or, when a limit refuses one, to
nobody; the code counts the shards one after the other, which comes to the batch sizes of
`WithinGroupLimit`, `WithinBodyBudget` and `WithinRate`. A retry admits nothing, whether it is answered with the
first receipts or refused. The shards of one notify share a position, as no two have one recipient.
A body is one unit, so the byte budget is a number of bodies; the digest of a message is its
recipient and kind; a handoff report is a pointer from a small set; a cursor
names a position an earlier page of the same incarnation gave. `decline`
(`comms/_inbox_page.py`) acknowledges a pending row exactly as `ack`
does. The constant `MemberOf` stands for the authenticated binding of a process.
A revision of the manifest may take a terminal verdict back (`Revivable`).

### LearnJournal

Nothing but files is shared, so one action is one file operation, or one call of the store.
The actors are the drains (`Worker`: the sweep of a session start, or the background
thread that goes on with it) and the original calls: actor i is the call of learning i.

| State | Code |
| --- | --- |
| `pending`, `attempts` | `pending/<id>.json` and the count it carries |
| `dead` | `dead_letter/<id>.json`: absent, with the payload, or without it ("husk") |
| `stored` | the row is durable: stored, merged by dedup, or quarantined |
| `claim`, `epoch` | `<id>.json.claim` with its owner; the birth epoch of each process |
| `pc`, `cur`, `todo`, `known` | where an actor is; the record, list and counts in the memory of a drain |
| `journaled`, `tried`, `refused` | history, read by properties and proofs only |

| Code | Actions |
| --- | --- |
| `journal_accepted` | `Learn` |
| the store in `execute_learn`, for a call or its replay | `Store`, `StoreFails`, `StoreLimited`, `StoreRefuses` |
| `consume_pending` | `Consume` |
| `dead_letter`: read, replace the copy, unlink | `Bury`, `Copy`, `Unlink` |
| `drain_pending`: list, next record, give up | `Sweep`, `Take`, `Stop` |
| `acquire_claim`: link, judge, unlink, link again; `release_claim` | `Publish`, `Judge`, `Reclaim`, `Release` |
| the existence check, `classify_replay`, `record_attempt` | `Check`, `Classify`, `Book` |
| a process dies and is replaced | `Crash` |

The points where an actor acts on what it read before are kept: a drain listed its records
(and their counts) long before it replays them; a claim is judged in one step
and unlinked, by name, in another; `Book` rewrites the listed record even if its file is
gone; `Bury` reads a missing file as an empty record. Simplified: the files of one
listing are read at once, `classify_replay` reads the file and decides in one
step, and the store's answer is free at each replay (a refusal may follow a failure).
Left out: records that cannot be read, file operations that fail, claims without a legible
owner, the index flush, and the settings that disable the journal or its budget.

### MailboxUpgrade

The file is `[schema, counter, log]`: the log is the set of transactions it holds, the
counter the one in SQLite's header that every content commit moves; schema `none` says that
there is no file yet, and then `staging` holds the private file of every member that found none.
Two operators may each be anywhere in `upgrade` or `rollback`, two members in a publication; one
action is one step of the code between which the process may die.

| Code (`comms/_store.py`, `_upgrade.py`) | Actions |
| --- | --- |
| `connect`, `_publish_new`: a temporary file, its schema and verification, `os.link`, its removal | `Stage`, `Prepare`, `Link`, `GiveUp` (also the death of the process) |
| a member's transaction (external) | `Write` |
| `upgrade`: BEGIN EXCLUSIVE, `_verified_backup`, the chain and COMMIT, `_write_record` | `BeginUpgrade`, `Backup`, `CommitUpgrade`, `WriteRecord`; `UpgradeFails` |
| `rollback`: read the record, take the lock, check the evidence, copy, rename the record | `ReadRecord`, `Contended`, `AlreadyRolledBack`, `BeginRollback`, `RefuseRollback`, `Restore`, `RenameRecord` |
| the operator dies (external) | `Crash` |

The lock (`lock`) is kept past COMMIT, as `locking_mode=EXCLUSIVE` does, and dies with its
owner. The record is read before the lock is taken and renamed after it was freed: both are
steps of their own. `Link` never overwrites: the loser of two publications drops its own file and
uses the winner's. Left out: a directory whose fsync fails after the link (the file stays), the
quiescence check, which changes nothing, and the branch of `upgrade` for a commit that did not move the counter by one, which ends like a crash before the record.

### Pickup

Four stores without a common transaction; one action is what happens under one lock.

| State | Code |
| --- | --- |
| `reg`, `drawn` | the candidate registry (`formation/_candidates.py`) and the handles drawn |
| `slot`, `plan` | the manifest of a formation on disk, and the revision in the memory of the orchestrator that holds its lock |
| `stamp` | the formation keys of `run.yaml` |
| `endpoint` | the mailboxes that enrolled the run |
| `call` | the stage a `trw_inbox` call is at and the record it read |
| `granted`, `seated` | history |

| Code | Actions |
| --- | --- |
| announce, withdraw | `Announce`, `Withdraw` |
| `revise_formation`: admissibility, `set_states`, manifest write (`_admission.py`) | `Revise`, `CommitAdmissions`, `RefuseRevision`, `WriteManifest` |
| `advance`: read, find the slot, mark joining, join, stamp, validate again (`comms/_pickup.py`, `_join.py`) | `ReadCandidate`, `FindSlot`, `SetJoining`, `Join`, `JoinAgain`, `JoinFails`, `StampRun`, `Revalidate` |
| enrollment and `complete` | `EnrollReady`, `Complete`; `EnrollMember` for a run without a pick-up |
| `_revoke` | `RevokeStamp`, `RevokeCandidate` |
| an orchestrator or a server dies (external) | `OrchestratorDies`, `ServerDies` |

A call reads the registry without its lock and the manifest without its lock, and the
record it works on (`call[k].mine`) may be stale at every later stage. A refused move of the
registry does different things at different stages (ends the call, is only logged, refuses the whole
batch), and each is kept. A formation has one slot, declared strict; several
slots of one manifest share its lock and nothing else. Left out: creation, rebinding to another
pin, worktree records and their compensation, the cap of the registry.

### Dispatch

A process is a dispatch from a server or a shell (`Sync`), a detached `_run_job` (`Job`) or a call
the agent of another dispatch makes in its shell (`Nested`).

| State | Code |
| --- | --- |
| `proc[p]` | where `run_capped` / `run_guarded` / `with_one_retry` / `_run_once` is, what is left to its deadline and of its budget, its slot lock |
| `cred` | the flock on the credential of the client |
| `agents` | the foreign processes that live |
| `server`, `reqs`, `sidecars`, `rec`, `age`, `result` | `start_background`; the request, sidecar, record and result files of a job; the age of the record |
| `poll` | a `get_status` (or sweep) inside `_reconcile_job` |

| Code | Actions |
| --- | --- |
| `dispatch_slot`, `_try_any` (`_slots.py`) | `StartSync`, `StartNested`, `TakeSlot`, `RefuseSlot` |
| `run_guarded`, `_release_once_fresh` (`_credentials.py`) | `TakeCredential`, `RefuseCredential`, `Refreshed` |
| `_run_once`, `_finish_child` (`_runner.py`) | `Launch`, `LaunchFails`, `AgentEnds`, `TimeOut`, `Drained` |
| `with_one_retry` (`_error_class.py`) | `Retry`, `Return` |
| `_run_job.main` | `WriteResult`, `Exit` |
| `start_background` (`_jobs.py`) | `WriteRequest`, `Spawn`, `SpawnFails`, `PersistRunning` |
| `get_status`, `_reconcile_job`, `_kill_job_tree`, `_cleanup_on_terminal` | `LoadRecord`, `ReadResult`, `Probe`, `Kill`, `Persist`, `Cleanup` |
| the system (external) | `Tick`, `Crash`, `Hang`, `ServerDies`, `PollerDies` |

Time is discrete: a process acts by the deadline the code computes for it, and `Tick` waits for
those that are due. A crashed process keeps its agent alive and loses its locks; a hung job keeps both
and ignores its deadlines. Left out: a slot directory that cannot be used (the code
runs uncounted), Windows, unverifiable process identities and pid reuse, the isolated lane, the sandbox
probe, the week-old artifact sweep. The delay before a retry is part of `MinRetry`.

### Sync

An actor is the loop of a server or a command; one action is one file operation, one request or one call of the
store, and all of them but `Retry` are under `sync.lock`.

| State | Code |
| --- | --- |
| `file`, `tmp` | `sync-state.json` and the one temporary name it is written under: `last_pull_seq`, `last_company_pull_seq` (`cursor`), `rejected_entries` (`held`, by the `sync_seq` refused), the `replay` block |
| `tag` | the etag in `intel-cache.json`, named by the learnings of its page |
| `version`, `dirty` | the `sync_seq` of each row of this checkout and the rows not marked synced |
| `judged` | the learnings that went through the merge |
| `lock`, `pc`, `call` | `sync.lock`, and what each actor does |
| `push`, `pull`, `save` | in memory: the page of rows and what was sent and refused of it; the page pulled; the state being written |
| `feed`, `accepted`, `refused` | the backend: the learnings of each tier, and the versions of rows it took and refused |

| Code | Actions |
| --- | --- |
| `acquire_sync_lock`; the end of a call or of its process | `Begin`, `End`, `Crash` |
| `get_dirty_entries`, `push_learnings` and `_send` (`push.py`, `_push_batch.py`) | `PageRows`, `PostTaken`, `PostFails` |
| `record_target_health`, acknowledgement, `record_sync_failure`, the end of a push on its own (`_client_cycle.py`) | `Report`, `Ack`, `AckFailed`, `Pushed` |
| `pull_and_merge` and what the cycle does with it | `PullFails`, `NotModified`, `Pulled`, `MergeJudges`, `MergeHolds`, `Cache`, `Company`, `Finish` |
| `run_full_pull` (`_replay.py`) | `Resume`, `Unfinished`, `TurnPage`, `TurnPageFails`, `TurnHeld`, `TurnLast`, `TurnNext` |
| `_write_state`: write the temporary file, rename it | `Put`, `Swap`, `SwapFails` |
| `clear_rejected` (`sync push --retry-rejected`), which takes no lock | `Retry` |
| the cache's time to live; edits of rows, other publishers (external) | `Expire`; `Edit`, `Publish` |

Every `record_` method is two steps after its read: the document in `save`, made from what the file held, is written to the temporary
file and later renamed over `sync-state.json`, whatever others wrote in between. The rename takes the temporary file as it is by then,
or raises when another writer has taken it. Simplified: the second read of `clear_rejected` falls in the step
of its first; the three attempts at a replay page and the bound on its pages are a free choice to go on or stop; a
backend answers with one bounded page per tier, as the fakes of its tests do. Left out: outcome
telemetry, labels and secondary targets, failure counters and the schedule they drive (the writes
that carry them are kept), a state file that does not parse, a torn temporary file, rows that were pulled and the
merge with local edits, and the switches that turn a half or the cache off.

## 3. Runs

All times are ticks; every run finishes within three minutes.

| Run | Question | Bounds and why they are enough |
| --- | --- | --- |
| `endpoints_parallel` (violation) | Is a process displaced only by another one? | Two processes of one member and one of another, two enrollments of one process in flight, no restart. |
| `mailbox_limits` | Are the outstanding, body and rate limits kept, also by a notify and when the clock steps back? Does a key name one message? | One sender (limits of two senders meet in the group alone) and two listeners, two keys and a fan-out of up to two, so a direct message and a notify, or two notifies, compete for two bodies, one outstanding message of each recipient and three admissions of a window. The group limit is reached but, with two keys, never exceeded: the proof covers it. The clock runs to 5 and may step to any earlier instant. Keys and listeners are symmetric. |
| `mailbox_closure` | Do the facts `verify` demands hold, does each transaction follow the lifecycle, does closing strand or change anything, is every body freed? | Two members, the second joins late, both may end and one be taken back, calls may hold any earlier roster. TTL and grace of 1 and a clock of 3: the one message may expire before, at and after each handoff step. Messages share nothing but the limits, a key and the closing; no notify. With fairness. |
| `mailbox_delivery` | Do take-overs leave one consumer and settle? Are deliveries counted once per incarnation, never going back? | Two processes of one member and one of another, one enrollment in flight per process, one restart: a process may be overtaken, restart and take over again, so three incarnations of one recipient may fetch its message. No notify, which delivers like a send. With fairness. |
| `journal` | Is a learning ever lost, given up early or stranded? | One learning, its original call, a drain in its process and one in another, a crash of each process, a budget of two replays. Learnings share nothing but the list of a sweep, so one shows every race between actors; the proofs below cover any number. |
| `journal_claims` (violation) | Does the claim keep two drains apart? | One learning, two drains of one process, no crash. |
| `journal_dead_letters` (violation) | Does the text of a learning survive? | One learning, its call and two drains, no crash. |
| `upgrade` | Does a publication or a rollback ever drop what a member wrote? | Two members that may find no file, two operators, six calls, three transactions of members, a crash anywhere: a record can outlive its rollback, meet a second upgrade and be read by a second rollback. Operators and openers are symmetric. |
| `pickup` | Does only the granted run join, do two orchestrators never win one candidate, does every pick-up end? | One run with two calls in flight, two formations, three revisions, one crash, a deadline that can pass. Runs meet only in the registry lock and in a slot; the proofs cover any number. With fairness. |
| `pickup_revocation` (violation) | Does a revoked candidate have no endpoint? | One run, one call, one formation, one revision, one crash. |
| `dispatch` | Is the cap strict, is there no hold and wait, are records true, does every job settle? | A server's dispatch, a job and a nested call; one slot for all three, two caps side by side, a counted call under an uncounted parent; one crash or hang; a timeout of 2 and every wait 1, so each wait can end before, at and after the others. With fairness. |
| `sync` | Is a learning or a row ever skipped, and do both sides catch up? | The loop and a command that pushes, pulls, replays and retries; two rows and pages of one, so a held row may hide the other; one learning of each tier at first and one more of the organisation, so a cursor can be old, current or ahead of another writer's; one edit, and one fault: a refusal, a failure, a held page or a death. More faults and rows repeat the same races; the proofs cover any number. With fairness. |

Every property has a mutant in `PROJECT.json`: a plausible bug of the mapped code
under which the same run finds the property violated. The `Seeded fault` operators of the
modules are those bugs.

**Fairness.** Nothing in the mailbox runs on its own: expiry, tombstoning and closure
happen inside calls. `EnrollingSpec` assumes that an enrollment which stays possible is
made (clients enroll at the start of a session) and that a committed one goes on to publish
its token (the next statement of the same call). `LiveSpec` assumes that time passes,
that declared members join, and - strong fairness - that calls keep coming with
the manifest as it is: a membership without anyone who may call frees
nothing, and the code cannot help that.
`LiveSpec` of the journal assumes that sessions keep starting, so a drain that has work sweeps
again and goes on with what it began (weak fairness of a thread's next step); that its wall
clock budget does not always end it before the first record (strong fairness of `Take`:
`run_background_sweep` goes on without a budget); and that the store, asked
again and again, does not stay rate limited for ever. The original calls get no
fairness: they may hang.
`LiveSpec` of the pick-up assumes that time passes, that a started revision or call makes its next
step unless its process dies, and that a client goes on calling: the recovery of `_pickup.py` is the
next call. `LiveSpec` of dispatch assumes that time passes, that a started process
makes its next step (except one that hung), that `start_background` does, and that jobs are polled, as the code reconciles a
job only when it is asked for it.
`SyncLiveSpec` assumes that a call under way makes its next step and ends unless its process dies, that the loop gets the
lock again and again (strong fairness: it tries at every interval for as long as the server runs, and a command
holds the lock only for one call), that a cached etag expires, and that the operator stops clearing the refused rows: `Retry` is the one
call that could hand the same refused row back for ever.
`CHECK_DEADLOCK FALSE` is stated for the journal, the upgrade, the pick-up, dispatch and sync, which rest when
their calls are over and the bounds are used up.

**The violations.** `endpoints_parallel` finds two enrollments of one process crossing:
both commit while the process owns no token, the second writes another token over the
first, and the first is published in memory last. The process then remembers a
token that is not in the row and fences itself for good, although nobody took
the endpoint over, as the comment on `_DISPLACED` says a displaced process was.
The stronger promises (`AtMostOneConsumer`) hold all the same, for any number of calls.

`journal_claims` finds that a claim is not exclusive. A drain that cannot link its claim looks
whether the one in place is stale; if that one has just been released there is no file,
which counts as stale; the drain then unlinks the name, where another
drain may have linked a live claim meanwhile, and links its own. Both replay the record. The
runs and proofs of `journal` include this behaviour, and nothing is lost by it.

`journal_dead_letters` finds a dead letter without its payload. A refused learning is buried
by its original call and by a drain that replayed it at the same time; the later of
the two reads the file after the earlier one removed it and replaces the good dead letter by
an empty one. `EveryLearningIsAccounted` is what does hold: there is always a dead letter.

`pickup_revocation` finds a member that is revoked. The enrollment commits in the mailbox and
`complete` then marks the candidate spent in the registry; when the server dies between the two, the candidate
stays joining. The next call repeats the stages if it comes before the deadline; after it, it
judges the candidate expired and revokes a run that has its slot, its stamp and its endpoint.

**What the modelling showed besides.** These follow from the modules but have no run:

- A revision releases a candidate in the registry before it writes the manifest. Until the write, or
  for good if the orchestrator dies there, the manifest names a candidate that is active again
  and may be admitted elsewhere. The join gate asks for the state of the record,
  so nobody joins two slots (`OnlyTheGrantedAreSeated`).
- `RevokeStamp` and `RevokeCandidate` of one call may fall between the validation and the
  enrollment of another call of the same run; the second is then refused or, where the
  stamp was not there yet, enrolls.
- A run that was revoked once and is admitted again loses its way if its server dies between join and
  stamp: the repeated join does not restore a stamp where a revoked one is. It waits for the deadline.
- A rollback renames whatever record is there after it freed the lock. That may be the
  record of a later upgrade, which then cannot be rolled back: nothing is lost.
- `_reconcile_job` reads the result before it probes the pid. A job that writes its result and exits between
  the two is recorded as failed for good, with the result beside it; `JobVerdicts` therefore
  allows a failed record with a result, and never a success without one.
- When the pid is gone, `_reconcile_job` deletes the sidecar and leaves the agent of the dead job running.
- The comment on `_STUCK_TTL_FACTOR` (`dispatch/_jobs.py`) counts the runner's own kill window into the
  slack. A job that used its whole slot wait has none of it left, and the watchdog may meet it in
  its drain. `JobVerdicts` covers every stage before the drain.
- A nested call is marked by its direct parent only. Behind a parent that took no slot, a call may wait
  for the slot of an ancestor (bounded by `dispatch_slot_wait_s`), and a nested call of the same client may wait
  for the credential lock of its parent. Both end in a refusal.
- A server that dies between writing the request and spawning the job leaves the prompt on disk for
  good: `_sweep_old_jobs` looks for records only. A job spawned but never recorded removes it when it exits.

- A `sync push --retry-rejected` rewrites the whole state file without the lock. It may put an old cursor, an old replay block or
  rows held before back over what a cycle has just written, or make a cycle fail at its rename. `record_company_pull_seq` says
  that its cursor "never regresses" (`sync/coordinator.py`), which therefore holds only while nobody retries
  (`CursorsRise`). What an older file costs is a page pulled twice and a replay resumed further back: no
  learning is skipped and no row is lost (`NothingIsSkipped`, `NothingIsWithheld`).
- The learnings of a page that is held are judged again with it; a page that can never be merged stops its cursor for good.

## 4. Proofs

`EndpointsProofs` shows, for any members, processes, bindings and bounds:

- `TokensAreOwned`: every token in a row, a memory or a call in flight was drawn, and no
  two processes drew the same one (`TokenInv`). `AtMostOneConsumer` alone is not inductive: it
  says nothing of a token still in `enrolling` that will be published later.
- `ConsumerIsUnique`: from `TokenInv`, since two holders would own the row's token.
- `FencingIsPermanent` and `FencedByAnother`: with `MaxCalls = 1` assumed - the
  run above shows that the second needs it. The invariant adds that a process which owns the row and has
  nothing in flight remembers the row's own token.
- `EndpointsImplementExclusiveConsumer`: the refinement, under the same assumption.

`MailboxProofs` first shows that a mailbox behaviour is an endpoint behaviour
(`MailboxUsesEndpoints`), so the fencing results carry over. Then
`MailboxTyping`, and the row invariant `RowInv`: one predicate on a row, its facts and its
pointer. The invariants the runs check are not inductive one by one: that an
accepted request was acknowledged before needs to know that a pending row
carries no handoff fact, and that a fact lies before the group clock needs the
order of the other facts. `RowInv` is preserved by the sweep up to the new
clock (`RowSwept`) and by each operation message by message
(`RowStep`), and gives `FactsWithinClock`, `TerminalFactsAgree`, `HandoffChain` and
`BodyOutlivesGrace` for any TTL, grace, limits and number of members.
`ClosureDrains` and `ClosureFreezes` follow with the lemma that the closing transaction
expires every pending row, since every recipient is terminal by then.

`MailboxCountingProofs` builds on both:

- `DeliveriesAreCounted`, `RedeliveryIsForward`: the incarnation in an endpoint row is kept or replaced by a
  fresher draw (`IncarnationsGrow`: a renewal that is not displaced writes what the row already
  has), so the fence of a fetch is an order. `DeliveryInv` adds that the last preparer is the newest
  incarnation a message was given to and not ahead of its endpoint; without it a count
  could miss an incarnation that comes back.
- `AccountingStays`, `SenderRateStays` from `CountInv`: every operation but an admission only lessens what is
  counted (`CountsLessen`), and an admission adds its batch to each count it checked (`CountsAdmitted`). A send and a notify
  are the same here: a finite batch of unused messages of one request, no two for one recipient
  (`SendAdmits`, `NotifyAdmits`). For the rate this needs the group clock: no admission is
  later than `Now`, so every window that a new message falls in ends at `Now`.
- `KeysStayUnique`: rows are never removed and keep their kind and admission (`OthersKeep`), and a batch is
  admitted only under a request that nothing in the table carries.
- `MailboxImplementsLifecycle`: the refinement of `MessageLifecycle`. The sweep only expires
  (`SweptPhase`), each operation then moves a message from where the sweep left it
  (`OperationPhase`), and no operation moves an expired one, so the two never add up to a move the
  lifecycle lacks.

`LearnJournalProofs` shows, for any learnings, drains, processes, crashes and budget:

- `LearningsStayAccounted`, `NoLearningIsLost`: the invariant `AccountInv` says for each step an
  actor may be at what is already true of its learning (an actor about to
  unlink knows that the row or the dead letter is there), without which the property alone would
  not survive an unlink.
- `CountsStayHonest`, `BudgetIsKept`: `BudgetInv` bounds every count in a file, a listing
  or a verdict by the replays that ran, so a stale listing can only delay the end of a budget.
- `JournalImplementsDurableQueue`: the refinement of `DurableQueue`.

`MailboxUpgradeProofs` shows, for any openers, operators, calls, writes and crashes, that
`NothingIsDropped`. The property says nothing of a record, so `UpgradeInv` adds what makes one worth
something: a mailbox not published yet holds nothing a link could lose (`Unpublished`), who is inside a hold has the lock (`LockHeld`), a backup made in it is the file as it is
(`UpgradeProgress`), a restore works on the checked counter (`RollbackProgress`), and no record
names a counter the file has not reached (`RecordBounds`) - without which a commit could reach
the counter of a stale record and turn it into evidence. `EvidenceHolds` and `RestoreHoldsTheFile` are its parts.

`PickupProofs` shows, for any runs, formations, calls, deadlines and crashes:

- `OnlyTheGrantedAreSeated`, `StampsFollowTheManifest`, `RevisionsStayCurrent` from `SeatInv`: a call past
  its join belongs to a run that was seated (`CallsSeated`), and a planned
  revision is one of the manifest on disk, so that a write keeps the run it did not name.
- `OneOrchestratorWins` from `AdmitInv`: a handle in a plan was drawn and is never drawn again, and between
  the transition and the manifest write no other formation can move the record, because it is
  neither active nor admitted by them.

`DispatchProofs` shows, for any finite set of processes, any caps, parents, waits and timeouts:

- `CapIsKept`: `SlotInv` keeps the slots apart and every agent of a living counted dispatch behind a slot
  within its cap; the counted agents then inject into the slots up to the
  largest cap among them, which bounds their number.
- `NobodyHoldsAndWaits`: the same invariant keeps the lock order (slot, then credential) and a marked
  call without patience.
- `VerdictsAreTrue`: `TimeInv` bounds the age of a job's record by what its process has used of
  its waits and budget, which sum to no more than the watchdog allows before the drain (T/2 for the slot, T
  for login, launch and run, one probe); `RecordInv` ties records and pollers to results. `JobsSpawned` says
  that a job is spawned once and its record outlives it.

`SyncProofs` shows, for any actors and what they run, any rows, limits, feeds, edits and faults, and `Retry` at any time:

- `NothingIsSkipped`: `SyncInv` does not say who may write the file, as the code does not keep that. It says that *every*
  document - on disk, in the temporary file or in the memory of a writer - claims only what is known (`DocHolds`): its cursors and its
  replay block are within the feed and what they passed was judged, and a row it holds was refused at that version.
  What is known only grows (`Grows`, `StaysTrue`), so a stale document stays good however late it is renamed; the lock is not used.
- `EtagsAreSafe`: a page starts where all is known and is known whole once it was judged (`PullsGood`), and only such a page is cached.
- `NothingIsWithheld`: `PushesGood` keeps the rows sent a segment of the page in push order, each decided at the version paged. A count
  then names exactly the rows that were sent and not refused (`CountNamesSegment`, `AcceptedIsSent`), whatever was refused in the middle
  or left unsent at the end.
- `CursorsRise`: without retries the lock does matter. Who is in a call holds it, and the document it is writing has
  cursors no lower than those of the file (`LockStep`).

Assumptions: those stated with the constants (`MemberOfAssumption`,
`NobodyAssumption`, `BoundAssumption`, `MailboxAssumption`, `JournalAssumption`, `UpgradeAssumption`,
`PickupAssumption`, `DispatchAssumption`, `SyncAssumption`) and, where said above, `MaxCalls = 1` or no
retry.
`JournalAssumption` has the budget enabled (`MaxAttempts > 0`); `DispatchAssumption` has
finitely many processes, a login wait of at most half the timeout, as
`_credentials.py` computes it, and a positive least time for a retry.

Only model-checked: liveness (`ConsumerSettles`, `EveryBodyIsFreed`, `JournalDrains`, `PickupsEnd`, `JobsSettle`,
`SyncCatchesUp`), since fairness is out of the prover's reach. Every safety property and every refinement that a passing
run checks is proved as well. Proved without a run of their own: `FencingIsPermanent` (`NoPingPong`, which `ImplementsExclusiveConsumer`
implies), `EndpointTyping` (a part of `MailboxTypeOK`), `BodiesOutliveGrace`, `StampsFollowTheManifest`, `RevisionsStayCurrent` and `CursorsRise`.

## 5. Not modelled

- In the mailbox: the bounded wait, leases, the scopes of a notify and what its response tells of owners it skipped, AHR actions, `ack_pause`, refusal counters, sizes in bytes, authentication of a binding,
  and the cache that skips repeated verification.
- Of the formation: creation, several slots of one manifest, rebinds, delivery, worktree records, the
  merge queue, pause and its acknowledgements. The mailbox itself still sees the members as the external
  `Advance` of a roster: the two are not composed, since a member of `Mailbox` is one that `Pickup` seated.
- Of dispatch: what the subsection above lists as left out, policies, fallbacks between clients, and the building and
  reading of command lines.
- Of sync: what its subsection lists as left out, the merge, backups and fresh pulls.
- The shared server, pins and markers, AHR: control that can be modelled and is planned below.
- Data-heavy and I/O parts: learning store and ranking, tools, server wiring, clients,
  telemetry, security scanners, self-tuning, code index, CLI.

## 6. Plan

1. `BoundedWait` on top of `Mailbox`, with leases (which a notify also asks for).
2. `AhrLog`: the event log and its replay; two decisions on one record race.
3. Pause and its acknowledgements, the merge queue and delivery, on top of `Pickup`.
4. `PinStore`, shared server swap, commit transactions.
