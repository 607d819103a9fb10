----------------------------- MODULE MailboxUpgrade -----------------------------
(***************************************************************************)
(* The mailbox file: its publication by the first members that open it     *)
(* (src/trw_mcp/comms/_store.py), its upgrade to the current schema and    *)
(* the guarded rollback of an upgrade (src/trw_mcp/comms/_upgrade.py), run *)
(* by operators while members of both builds may still be writing.  The    *)
(* mailbox file, the backups and the upgrade record are three stores       *)
(* without a common transaction: one action is one of the steps between    *)
(* which a process may die.                                                *)
(*                                                                         *)
(* SQLite is modelled by what the code relies on: one exclusive lock that  *)
(* is kept past COMMIT and freed by process death, atomic commits, and a   *)
(* header counter that every content commit moves by one (also the copy of *)
(* a backup into the file: the destination's counter moves on).            *)
(*                                                                         *)
(* Left out: the quiescence check (an availability courtesy decided from   *)
(* process evidence, and one that acknowledged members pass), the refusal  *)
(* of files in WAL mode, a directory whose fsync fails after publication   *)
(* (the file stays), and the weak-evidence branch of upgrade (a commit     *)
(* that does not move the counter by one), which ends like a crash before  *)
(* the record is written.                                                  *)
(***************************************************************************)
EXTENDS Naturals

CONSTANTS
    Opener,           \* members' processes that may find no mailbox
    Operator,         \* processes that run comms-upgrade and comms-rollback
    Nobody,           \* the lock is free
    NoRecord,         \* there is no upgrade record
    MaxWrites,        \* bound: transactions of members
    MaxCalls          \* bound: upgrade and rollback calls

ASSUME UpgradeAssumption ==
    /\ Nobody \notin Operator
    /\ {MaxWrites, MaxCalls} \subseteq Nat
    /\ NoRecord \notin [backup : 1..MaxCalls, counter : Nat]

VARIABLES
    file,             \* the mailbox: [schema, counter, log], log = the transactions it holds;
                      \* schema "none" while there is no file
    staging,          \* [Opener -> its private staging file: "none", "blank" or "current"]
    backups,          \* content of every backup file, by the call that made it
    present,          \* the backups that exist
    record,           \* the upgrade record, or NoRecord
    lock,             \* holder of SQLite's exclusive lock
    at,               \* [Operator -> the step its call is at]
    held,             \* [Operator -> the record its rollback has read, or NoRecord]
    own,              \* [Operator -> the number of its call: names its backup]
    written,          \* history: transactions members committed
    calls             \* calls made so far

vars == <<file, staging, backups, present, record, lock, at, held, own, written, calls>>

Record == [backup : 1..MaxCalls, counter : Nat]

-----------------------------------------------------------------------------
(* Publication: connect and _publish_new *)

\* connect found no mailbox; a temporary file of its own is made, still empty.
Stage(p) ==
    /\ staging[p] = "none"
    /\ file.schema = "none"
    /\ staging' = [staging EXCEPT ![p] = "blank"]
    /\ UNCHANGED <<file, backups, present, record, lock, at, held, own, written, calls>>

\* _prepare_schema and _verify_schema: the private file is a whole mailbox.
Prepare(p) ==
    /\ staging[p] = "blank"
    /\ staging' = [staging EXCEPT ![p] = "current"]
    /\ UNCHANGED <<file, backups, present, record, lock, at, held, own, written, calls>>

\* os.link never overwrites: the first one makes its file the mailbox, the others use it.
Link(p) ==
    /\ staging[p] = "current"
    /\ staging' = [staging EXCEPT ![p] = "none"]
    /\ file' = IF file.schema = "none"
               THEN [schema |-> staging[p], counter |-> file.counter + 1, log |-> {}]
               ELSE file
    /\ UNCHANGED <<backups, present, record, lock, at, held, own, written, calls>>

\* It fails or its process dies: the private file goes or stays behind, under a name that
\* nobody else uses.
GiveUp(p) ==
    /\ staging[p] # "none"
    /\ staging' = [staging EXCEPT ![p] = "none"]
    /\ UNCHANGED <<file, backups, present, record, lock, at, held, own, written, calls>>

-----------------------------------------------------------------------------
(* Members of either build *)

\* A transaction of a member whose build fits the schema: any, when the file is unlocked.
Write ==
    /\ file.schema # "none"
    /\ lock = Nobody
    /\ written < MaxWrites
    /\ written' = written + 1
    /\ file' = [file EXCEPT !.counter = @ + 1, !.log = @ \cup {written'}]
    /\ UNCHANGED <<staging, backups, present, record, lock, at, held, own, calls>>

-----------------------------------------------------------------------------
(* upgrade *)

\* Seeded fault of Calls: the backup is not given a name of its own.
Calls_NoName(o, step) ==
    /\ at[o] = "idle"
    /\ calls < MaxCalls
    /\ calls' = calls + 1
    /\ own' = own
    /\ at' = [at EXCEPT ![o] = step]

\* Where a call starts, and what ends it: with no lock held, everything in memory gone.
Calls(o, step) ==
    /\ at[o] = "idle"
    /\ calls < MaxCalls
    /\ calls' = calls + 1
    /\ own' = [own EXCEPT ![o] = calls']
    /\ at' = [at EXCEPT ![o] = step]

Ends(o) ==
    /\ at' = [at EXCEPT ![o] = "idle"]
    /\ held' = [held EXCEPT ![o] = NoRecord]
    /\ lock' = IF lock = o THEN Nobody ELSE lock

\* _exclusive: BEGIN EXCLUSIVE.  A current mailbox is left as it is.
BeginUpgrade(o) ==
    /\ lock = Nobody
    /\ file.schema = "old"
    /\ Calls(o, "locked")
    /\ lock' = o
    /\ UNCHANGED <<file, staging, backups, present, record, held, written>>

\* _verified_backup: a copy of the committed file under a name of its own.
Backup(o) ==
    /\ at[o] = "locked"
    /\ backups' = [backups EXCEPT ![own[o]] = file.log]
    /\ present' = present \cup {own[o]}
    /\ at' = [at EXCEPT ![o] = "backed_up"]
    /\ UNCHANGED <<file, staging, record, lock, held, own, written, calls>>

\* A step of the chain or a verification fails: nothing is committed, the backup goes (unless
\* it is the copy itself that failed: then a file that no record will ever name stays behind).
UpgradeFails(o) ==
    /\ at[o] \in {"locked", "backed_up"}
    /\ present' = present \ {own[o]}
    /\ Ends(o)
    /\ UNCHANGED <<file, staging, backups, record, own, written, calls>>

\* The one COMMIT of the hold: every row is carried over, the lock is kept.
CommitUpgrade(o) ==
    /\ at[o] = "backed_up"
    /\ file' = [file EXCEPT !.schema = "current", !.counter = @ + 1]
    /\ at' = [at EXCEPT ![o] = "committed"]
    /\ UNCHANGED <<staging, backups, present, record, lock, held, own, written, calls>>

\* Seeded fault of WriteRecord: the lock is released before the record is written.
WriteRecord_Unlocked(o) ==
    \/ /\ at[o] = "committed" /\ lock = o
       /\ lock' = Nobody
       /\ UNCHANGED <<file, staging, backups, present, record, at, held, own, written, calls>>
    \/ /\ at[o] = "committed" /\ lock # o
       /\ record' = [backup |-> own[o], counter |-> file.counter]
       /\ Ends(o)
       /\ UNCHANGED <<file, staging, backups, present, own, written, calls>>

\* _write_record replaces the record atomically, still under the lock; then it is freed.
WriteRecord(o) ==
    /\ at[o] = "committed"
    /\ record' = [backup |-> own[o], counter |-> file.counter]
    /\ Ends(o)
    /\ UNCHANGED <<file, staging, backups, present, own, written, calls>>

-----------------------------------------------------------------------------
(* rollback *)

\* The record is read before the lock is taken, so it may be stale once it is.
ReadRecord(o) ==
    /\ record # NoRecord
    /\ Calls(o, "has_record")
    /\ held' = [held EXCEPT ![o] = record]
    /\ UNCHANGED <<file, staging, backups, present, record, lock, written>>

\* _exclusive gives up after its busy timeout: another process holds the file.
Contended(o) ==
    /\ at[o] = "has_record"
    /\ lock # Nobody
    /\ Ends(o)
    /\ UNCHANGED <<file, staging, backups, present, record, own, written, calls>>

\* Seeded fault of Unchanged: the evidence is only that the schema is current.
Unchanged_BySchema(r) == file.schema = "current"

\* The counter evidence: nothing at all was committed since the upgrade.
Unchanged(r) == file.counter = r.counter

\* A restore that crashed before the record was renamed: only the bookkeeping is left.
AlreadyRolledBack(o) ==
    /\ at[o] = "has_record"
    /\ lock = Nobody
    /\ file.schema = "old"
    /\ record' = NoRecord
    /\ Ends(o)
    /\ UNCHANGED <<file, staging, backups, present, own, written, calls>>

\* Seeded fault of BeginRollback: the lock goes with the COMMIT that ends the check.
BeginRollback_NotRetained(o) ==
    /\ at[o] = "has_record"
    /\ lock = Nobody
    /\ file.schema = "current"
    /\ Unchanged(held[o])
    /\ held[o].backup \in present
    /\ at' = [at EXCEPT ![o] = "restoring"]
    /\ UNCHANGED <<file, staging, backups, present, record, lock, held, own, written, calls>>

\* The lock is taken, the evidence holds and the backup is the recorded one.
BeginRollback(o) ==
    /\ at[o] = "has_record"
    /\ lock = Nobody
    /\ file.schema = "current"
    /\ Unchanged(held[o])
    /\ held[o].backup \in present
    /\ lock' = o
    /\ at' = [at EXCEPT ![o] = "restoring"]
    /\ UNCHANGED <<file, staging, backups, present, record, held, own, written, calls>>

\* rollback_would_drop_traffic, or the backup is gone.
RefuseRollback(o) ==
    /\ at[o] = "has_record"
    /\ lock = Nobody
    /\ file.schema = "current"
    /\ ~Unchanged(held[o]) \/ held[o].backup \notin present
    /\ Ends(o)
    /\ UNCHANGED <<file, staging, backups, present, record, own, written, calls>>

\* source.backup(conn): one atomic copy over the file, verified, then the lock is freed.
\* (A failed verification raises with the copy committed: the step, then Crash.)
Restore(o) ==
    /\ at[o] = "restoring"
    /\ file' = [schema |-> "old", counter |-> file.counter + 1, log |-> backups[held[o].backup]]
    /\ lock' = Nobody
    /\ at' = [at EXCEPT ![o] = "restored"]
    /\ UNCHANGED <<staging, backups, present, record, held, own, written, calls>>

\* The record is renamed after the lock is freed: whatever record is there by now.
RenameRecord(o) ==
    /\ at[o] = "restored"
    /\ record' = NoRecord
    /\ Ends(o)
    /\ UNCHANGED <<file, staging, backups, present, own, written, calls>>

\* The process dies: SQLite rolls back what it had not committed and frees the lock.
Crash(o) ==
    /\ at[o] # "idle"
    /\ Ends(o)
    /\ UNCHANGED <<file, staging, backups, present, record, own, written, calls>>

-----------------------------------------------------------------------------
(* The specification *)

\* There is no mailbox yet, or one of an older build.
Init ==
    /\ file \in [schema : {"none", "old"}, counter : {0}, log : {{}}]
    /\ staging = [p \in Opener |-> "none"]
    /\ backups = [n \in 1..MaxCalls |-> {}]
    /\ present = {}
    /\ record = NoRecord
    /\ lock = Nobody
    /\ at = [o \in Operator |-> "idle"]
    /\ held = [o \in Operator |-> NoRecord]
    /\ own = [o \in Operator |-> 0]
    /\ written = 0
    /\ calls = 0

Upgrade(o) ==
    BeginUpgrade(o) \/ Backup(o) \/ UpgradeFails(o) \/ CommitUpgrade(o) \/ WriteRecord(o)

Rollback(o) ==
    \/ ReadRecord(o) \/ AlreadyRolledBack(o) \/ Contended(o)
    \/ BeginRollback(o) \/ RefuseRollback(o) \/ Restore(o) \/ RenameRecord(o)

Publication(p) == Stage(p) \/ Prepare(p) \/ Link(p) \/ GiveUp(p)

Next ==
    \/ Write
    \/ \E p \in Opener : Publication(p)
    \/ \E o \in Operator : Upgrade(o) \/ Rollback(o) \/ Crash(o)

Spec == Init /\ [][Next]_vars

-----------------------------------------------------------------------------
(* Properties *)

\* Types.  Only a whole mailbox is ever under its name: an empty or missing one would be taken
\* for damage (connect), and a blank staging file is in nobody's way.
UpgradeTypeOK ==
    /\ file \in [schema : {"none", "old", "current"}, counter : Nat, log : SUBSET Nat]
    /\ staging \in [Opener -> {"none", "blank", "current"}]
    /\ backups \in [1..MaxCalls -> SUBSET Nat]
    /\ present \in SUBSET (1..MaxCalls)
    /\ record \in Record \cup {NoRecord}
    /\ lock \in Operator \cup {Nobody}
    /\ at \in [Operator -> {"idle", "locked", "backed_up", "committed",
                            "has_record", "restoring", "restored"}]
    /\ held \in [Operator -> Record \cup {NoRecord}]
    /\ own \in [Operator -> 0..MaxCalls]
    /\ written \in Nat
    /\ calls \in 0..MaxCalls

\* Publications, upgrades and rollbacks lose nothing: whoever opens the mailbox first, and
\* whatever operators start, crash or race, it holds every transaction a member ever committed
\* (connect; "only if nothing at all was written since the upgrade", _upgrade.py:283) - even
\* when a record outlives its own rollback and a later upgrade dies before writing its own.
NothingDropped == file.log = 1..written

\* What a record r is worth: while the counter it names is the file's, and the file is not
\* restored already, its backup is there and holds exactly what the mailbox holds.
Evidence(r) ==
    file.schema = "current" /\ Unchanged(r) =>
        r.backup \in present /\ backups[r.backup] = file.log

\* Every record, on disk or in the memory of a rollback that read it before it had the lock,
\* is either evidence or is refused (the counter check of rollback, _upgrade.py:312-313).
RecordsAreEvidence ==
    /\ record # NoRecord => Evidence(record)
    /\ \A o \in Operator : held[o] # NoRecord => Evidence(held[o])

\* A rollback in progress works on what it checked: from the counter check to the copy nobody
\* else changes the file, although the check's own transaction is committed in between.
RestoreIsSafe ==
    \A o \in Operator : at[o] = "restoring" =>
        lock = o /\ backups[held[o].backup] = file.log
================================================================================
