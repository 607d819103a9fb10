----------------------------- MODULE LearnJournal -----------------------------
(***************************************************************************)
(* The write-ahead journal of accepted learnings                           *)
(* (src/trw_mcp/state/learn_journal.py and _learn_journal_*.py, with the   *)
(* part of src/trw_mcp/tools/_learn_impl.py that fills and consumes it).   *)
(*                                                                         *)
(* An original learn call writes pending/<id>.json, then works for long,   *)
(* then stores the row and removes the file.  Drains - at session start of *)
(* any process, or in a background thread - list the files and replay each *)
(* one under a claim file.  Nothing but files is shared, so an action here *)
(* is one file operation or one store of the row, and what an actor read   *)
(* before may be stale when it acts.  A crash of a process stops all its   *)
(* actors and leaves the files.                                            *)
(*                                                                         *)
(* Left out: records no drain can read, failed file operations (the code   *)
(* gives up the guarantee there and logs it), and claims with no owner.    *)
(***************************************************************************)
EXTENDS Naturals

CONSTANTS
    Id,            \* learnings, numbered in the order they are journaled (mtime)
    Worker,        \* drains that may run at once
    Process,       \* server processes
    ProcOf,        \* the process of each drain and of each original call
    NoClaim,       \* no claim file
    MaxAttempts,   \* learn_journal_max_replay_attempts, when the budget is enabled
    MaxCrashes     \* bound: crashes of one process

\* The original call of learning i is the actor i.
Actor == Worker \cup Id

ASSUME JournalAssumption ==
    /\ Id \subseteq Nat /\ Id # {}
    /\ Worker \cap Id = {}
    /\ ProcOf \in [Actor -> Process]
    /\ MaxAttempts \in Nat \ {0}
    /\ MaxCrashes \in Nat

VARIABLES
    pending,       \* learnings with a file in pending/
    attempts,      \* [Id -> the count its file carries; 0 without a file]
    dead,          \* [Id -> "none", "whole" or "husk": its dead letter, with or without payload]
    stored,        \* learnings whose row is durable (stored, merged or quarantined)
    claim,         \* [Id -> the claim file: its owner, or NoClaim]
    epoch,         \* [Process -> how many times it started before]
    pc,            \* [Actor -> the step it is at]
    cur,           \* [Worker -> the learning it works on]
    todo,          \* [Worker -> what it listed and has not come to yet]
    known,         \* [Worker -> [Id -> attempts it read when it listed]]
    journaled,     \* history: learnings ever journaled
    tried,         \* history: [Id -> replays that count, up to MaxAttempts]
    refused        \* history: learnings the store refused at least once

files == <<pending, attempts, dead, stored>>
local == <<cur, todo, known>>
history == <<journaled, tried, refused>>
vars == <<files, claim, epoch, pc, local, history>>

CallSteps == {"new", "run", "consume", "bury", "copy whole", "copy husk", "unlink", "over"}

DrainSteps ==
    {"idle", "scan", "publish", "judge", "reclaim", "republish", "check", "run", "consume",
     "after rejection", "after limit", "after try", "bury", "copy whole", "copy husk",
     "unlink", "book", "release"}

\* The learning an actor works on.
On(a) == IF a \in Id THEN a ELSE cur[a]

Goto(a, step) == pc' = [pc EXCEPT ![a] = step]

\* Where an actor goes when it is done with its learning.
Leave(a) == Goto(a, IF a \in Id THEN "over" ELSE "release")

-----------------------------------------------------------------------------
(* execute_learn: the original call, and a replay of it *)

\* journal_accepted: the original call makes its learning durable before the slow work.
Learn(i) ==
    /\ pc[i] = "new"
    /\ \A j \in Id : j < i => pc[j] # "new"
    /\ pending' = pending \cup {i}
    /\ attempts' = [attempts EXCEPT ![i] = 0]
    /\ journaled' = journaled \cup {i}
    /\ Goto(i, "run")
    /\ UNCHANGED <<dead, stored, claim, epoch, local, tried, refused>>

\* A replay that was not put off by the rate limit.
Counted(a) == IF a \in Id THEN tried
              ELSE [tried EXCEPT ![cur[a]] = IF @ < MaxAttempts THEN @ + 1 ELSE @]

\* The row becomes durable, or dedup or quarantine accounts for it.
Store(a) ==
    /\ pc[a] = "run"
    /\ stored' = stored \cup {On(a)}
    /\ tried' = Counted(a)
    /\ Goto(a, "consume")
    /\ UNCHANGED <<pending, attempts, dead, claim, epoch, local, journaled, refused>>

\* Seeded fault of StoreFails: a failed store retires the record as well.
StoreFails_Consumes(a) ==
    /\ pc[a] = "run"
    /\ tried' = Counted(a)
    /\ pending' = pending \ {On(a)}
    /\ attempts' = [attempts EXCEPT ![On(a)] = 0]
    /\ Goto(a, IF a \in Id THEN "over" ELSE "after try")
    /\ UNCHANGED <<dead, stored, claim, epoch, local, journaled, refused>>

\* The store fails (locked database, timeout, crash of the backend): the record is kept.
StoreFails(a) ==
    /\ pc[a] = "run"
    /\ tried' = Counted(a)
    /\ Goto(a, IF a \in Id THEN "over" ELSE "after try")
    /\ UNCHANGED <<files, claim, epoch, local, journaled, refused>>

\* The store is rate limited: the record is kept and the attempt does not count.
StoreLimited(a) ==
    /\ pc[a] = "run"
    /\ Goto(a, IF a \in Id THEN "over" ELSE "after limit")
    /\ UNCHANGED <<files, claim, epoch, local, history>>

\* The store refuses the content (schema, PII, poisoning), today if not before: the original
\* call buries the record itself, a replay leaves that to its drain.
StoreRefuses(a) ==
    /\ pc[a] = "run"
    /\ refused' = refused \cup {On(a)}
    /\ Goto(a, IF a \in Id THEN "bury" ELSE "after rejection")
    /\ UNCHANGED <<files, claim, epoch, local, journaled, tried>>

\* consume_pending: idempotent.
Consume(a) ==
    /\ pc[a] = "consume"
    /\ pending' = pending \ {On(a)}
    /\ Goto(a, IF a \in Id THEN "over" ELSE "after try")
    /\ attempts' = [attempts EXCEPT ![On(a)] = 0]
    /\ UNCHANGED <<dead, stored, claim, epoch, local, history>>

-----------------------------------------------------------------------------
(* dead_letter: read the pending file, write the dead letter, unlink *)

\* Seeded fault of Bury: the pending file is removed before the dead letter is written.
Bury_UnlinksFirst(a) ==
    /\ pc[a] = "bury"
    /\ Goto(a, IF On(a) \in pending THEN "copy whole" ELSE "copy husk")
    /\ pending' = pending \ {On(a)}
    /\ attempts' = [attempts EXCEPT ![On(a)] = 0]
    /\ UNCHANGED <<dead, stored, claim, epoch, local, history>>

\* A pending file that is gone reads as an empty record.
Bury(a) ==
    /\ pc[a] = "bury"
    /\ Goto(a, IF On(a) \in pending THEN "copy whole" ELSE "copy husk")
    /\ UNCHANGED <<files, claim, epoch, local, history>>

\* The dead letter replaces any earlier one of the same name.
Copy(a) ==
    /\ pc[a] \in {"copy whole", "copy husk"}
    /\ dead' = [dead EXCEPT ![On(a)] = IF pc[a] = "copy whole" THEN "whole" ELSE "husk"]
    /\ Goto(a, "unlink")
    /\ UNCHANGED <<pending, attempts, stored, claim, epoch, local, history>>

Unlink(a) ==
    /\ pc[a] = "unlink"
    /\ pending' = pending \ {On(a)}
    /\ Leave(a)
    /\ attempts' = [attempts EXCEPT ![On(a)] = 0]
    /\ UNCHANGED <<dead, stored, claim, epoch, local, history>>

Execute(a) ==
    \/ Store(a) \/ StoreFails(a) \/ StoreLimited(a) \/ StoreRefuses(a)
    \/ Consume(a) \/ Bury(a) \/ Copy(a) \/ Unlink(a)

-----------------------------------------------------------------------------
(* drain_pending *)

\* The sweep lists the pending records, with the attempts each one carries.
Sweep(w) ==
    /\ pc[w] = "idle"
    /\ pending # {}
    /\ todo' = [todo EXCEPT ![w] = pending]
    /\ known' = [known EXCEPT ![w] = [i \in Id |-> IF i \in pending THEN attempts[i] ELSE 0]]
    /\ Goto(w, "scan")
    /\ UNCHANGED <<files, claim, epoch, cur, history>>

\* Oldest first.
Take(w) ==
    /\ pc[w] = "scan"
    /\ \E i \in todo[w] :
          /\ \A j \in todo[w] : i <= j
          /\ cur' = [cur EXCEPT ![w] = i]
          /\ todo' = [todo EXCEPT ![w] = @ \ {i}]
    /\ Goto(w, "publish")
    /\ UNCHANGED <<files, claim, epoch, known, history>>

\* The list is done, or the limit or the wall clock budget is used up.
Stop(w) ==
    /\ pc[w] = "scan"
    /\ todo' = [todo EXCEPT ![w] = {}]
    /\ known' = [known EXCEPT ![w] = [i \in Id |-> 0]]
    /\ Goto(w, "idle")
    /\ UNCHANGED <<files, claim, epoch, cur, history>>

Owner(w) == [by |-> ProcOf[w], epoch |-> epoch[ProcOf[w]]]

\* _publish: link the claim file under its name; it fails when the name is taken.
Publish(w) ==
    /\ pc[w] \in {"publish", "republish"}
    /\ IF claim[cur[w]] = NoClaim
       THEN /\ claim' = [claim EXCEPT ![cur[w]] = Owner(w)]
            /\ Goto(w, "check")
       ELSE /\ UNCHANGED claim
            /\ Goto(w, IF pc[w] = "publish" THEN "judge" ELSE "scan")
    /\ UNCHANGED <<files, epoch, local, history>>

\* Seeded fault of Stale: a claim is taken for live whoever holds it.
Stale_Never(i) == claim[i] = NoClaim

\* _is_stale: the claim vanished since, or its owner is provably gone.
Stale(i) == claim[i] = NoClaim \/ claim[i].epoch # epoch[claim[i].by]

Judge(w) ==
    /\ pc[w] = "judge"
    /\ Goto(w, IF Stale(cur[w]) THEN "reclaim" ELSE "scan")
    /\ UNCHANGED <<files, claim, epoch, local, history>>

\* acquire_claim removes the claim file it judged stale: whatever is there by now.
Reclaim(w) ==
    /\ pc[w] = "reclaim"
    /\ claim' = [claim EXCEPT ![cur[w]] = NoClaim]
    /\ Goto(w, "republish")
    /\ UNCHANGED <<files, epoch, local, history>>

\* The listing may be stale: the record is replayed only if its file is still there.
Check(w) ==
    /\ pc[w] = "check"
    /\ Goto(w, IF cur[w] \in pending THEN "run" ELSE "release")
    /\ UNCHANGED <<files, claim, epoch, local, history>>

\* Seeded fault of ThisAttempt: the prior attempts are counted one short.
ThisAttempt_OffByOne(w) == known[w][cur[w]] - 1

\* The number of this attempt, from the count the listing read.
ThisAttempt(w) == known[w][cur[w]] + 1

\* Seeded fault of Exhausted: the budget is one replay short.
Exhausted_Early(w) == MaxAttempts <= ThisAttempt(w) + 1

Exhausted(w) == MaxAttempts <= ThisAttempt(w)

\* classify_replay: the file decides whether the record is handled, then the status.
Classify(w) ==
    /\ pc[w] \in {"after rejection", "after limit", "after try"}
    /\ Goto(w, IF cur[w] \notin pending \/ pc[w] = "after limit" THEN "release"
               ELSE IF pc[w] = "after rejection" \/ Exhausted(w) THEN "bury"
               ELSE "book")
    /\ UNCHANGED <<files, claim, epoch, local, history>>

\* record_attempt rewrites the file from what the listing read, even one that is gone.
Book(w) ==
    /\ pc[w] = "book"
    /\ pending' = pending \cup {cur[w]}
    /\ attempts' = [attempts EXCEPT ![cur[w]] = ThisAttempt(w)]
    /\ Goto(w, "release")
    /\ UNCHANGED <<dead, stored, claim, epoch, local, history>>

\* release_claim: removes the claim file of that name, whoever wrote it.
Release(w) ==
    /\ pc[w] = "release"
    /\ claim' = [claim EXCEPT ![cur[w]] = NoClaim]
    /\ Goto(w, "scan")
    /\ UNCHANGED <<files, epoch, local, history>>

\* A process dies and is started again, under a new birth epoch.
Crash(p) ==
    /\ epoch[p] < MaxCrashes
    /\ epoch' = [epoch EXCEPT ![p] = @ + 1]
    /\ pc' = [a \in Actor |->
                 IF ProcOf[a] # p \/ pc[a] = "new" THEN pc[a]
                 ELSE IF a \in Id THEN "over" ELSE "idle"]
    /\ todo' = [w \in Worker |-> IF ProcOf[w] = p THEN {} ELSE todo[w]]
    /\ known' = [w \in Worker |-> IF ProcOf[w] = p THEN [i \in Id |-> 0] ELSE known[w]]
    /\ UNCHANGED <<files, claim, cur, history>>

-----------------------------------------------------------------------------
Init ==
    /\ pending = {}
    /\ attempts = [i \in Id |-> 0]
    /\ dead = [i \in Id |-> "none"]
    /\ stored = {}
    /\ claim = [i \in Id |-> NoClaim]
    /\ epoch = [p \in Process |-> 0]
    /\ pc = [a \in Actor |-> IF a \in Id THEN "new" ELSE "idle"]
    /\ cur = [w \in Worker |-> CHOOSE i \in Id : TRUE]
    /\ todo = [w \in Worker |-> {}]
    /\ known = [w \in Worker |-> [i \in Id |-> 0]]
    /\ journaled = {}
    /\ tried = [i \in Id |-> 0]
    /\ refused = {}

\* What a drain does once it has listed, but for giving up the rest of its list.
Drain(w) ==
    \/ Take(w) \/ Publish(w) \/ Judge(w) \/ Reclaim(w) \/ Check(w)
    \/ Execute(w) \/ Classify(w) \/ Book(w) \/ Release(w)

Next ==
    \/ \E i \in Id : Learn(i) \/ Execute(i)
    \/ \E w \in Worker : Sweep(w) \/ Drain(w) \/ Stop(w)
    \/ \E p \in Process : Crash(p)

Spec == Init /\ [][Next]_vars

\* Sessions keep starting, so a drain that has work is started again; it goes on with what
\* it began; its wall clock budget does not always end it before the first record (the
\* background continuation has none); and a rate limit clears by itself.
LiveSpec ==
    /\ Spec
    /\ \A w \in Worker :
          /\ WF_vars(Sweep(w)) /\ WF_vars(Stop(w))
          /\ WF_vars(Drain(w))
          /\ SF_vars(Take(w))
          /\ SF_vars(Store(w) \/ StoreFails(w) \/ StoreRefuses(w))

-----------------------------------------------------------------------------
(* Properties *)

\* Types of the files, the claims and what each actor holds in memory.
JournalTypeOK ==
    /\ pending \in SUBSET Id
    /\ attempts \in [Id -> Nat]
    /\ dead \in [Id -> {"none", "whole", "husk"}]
    /\ stored \in SUBSET Id
    /\ claim \in [Id -> [by : Process, epoch : Nat] \cup {NoClaim}]
    /\ epoch \in [Process -> Nat]
    /\ pc \in [Actor -> CallSteps \cup DrainSteps]
    /\ \A i \in Id : pc[i] \in CallSteps
    /\ \A w \in Worker : pc[w] \in DrainSteps
    /\ cur \in [Worker -> Id]
    /\ todo \in [Worker -> SUBSET Id]
    /\ known \in [Worker -> [Id -> Nat]]
    /\ journaled \in SUBSET Id
    /\ tried \in [Id -> Nat]
    /\ refused \in SUBSET Id

\* No accepted learning is silently lost: whatever dies and whichever drains and calls run
\* at once, it is stored, it has a dead letter, or its file waits for the next drain
\* (execute_learn: "the accepted learning is never silently lost").
EveryLearningIsAccounted ==
    \A i \in journaled : i \in pending \cup stored \/ dead[i] # "none"

\* A learning the store never refused is given up only after MaxAttempts replays of it really
\* ran to the store, although the count travels through listings that may be stale and
\* files that are rewritten from them (classify_replay, record_attempt).
BudgetNotCutShort ==
    \A i \in Id \ refused : dead[i] # "none" => MaxAttempts <= tried[i]

\* The journal empties in the end, whatever fails, crashes or is claimed: no record is
\* replayed for ever and none is stranded behind a claim.
JournalDrains == <>[](pending = {})

\* The claim keeps two drains from replaying the same record at the same time
\* (drain_pending: they "cannot both enter replay_fn for the same id").
OneReplayAtATime ==
    \A v, w \in Worker :
        v # w /\ pc[v] = "run" /\ pc[w] = "run" => cur[v] # cur[w]

\* The text of an accepted learning survives somewhere: pending, stored or in its dead
\* letter (dead_letter: "unlink-first would lose it outright").
PayloadSurvives ==
    \A i \in journaled : i \in pending \cup stored \/ dead[i] = "whole"

-----------------------------------------------------------------------------
(* Refinement: the files implement DurableQueue *)

Settled == stored \cup {i \in Id : dead[i] # "none"}

Queue == INSTANCE DurableQueue WITH
    owed <- journaled \ Settled,
    settled <- Settled,
    onDisk <- pending

\* Every file operation of every actor accepts, settles, forgets or recalls one learning,
\* forgets only what is settled, or changes nothing the queue sees.
ImplementsDurableQueue == Queue!Spec

================================================================================
