-------------------------- MODULE MailboxUpgradeProofs --------------------------
(***************************************************************************)
(* Proofs about MailboxUpgrade, for any number of openers, operators,      *)
(* calls and member transactions.  The strengthening says that a mailbox   *)
(* not published yet holds nothing (Unpublished), who holds the lock where *)
(* (LockHeld), what an upgrade between its steps may rely on               *)
(* (UpgradeProgress), that a rollback past its check still has a true      *)
(* record (RollbackProgress), and that no record names a backup still to   *)
(* be made, nor a counter the file has not reached (RecordBounds).         *)
(***************************************************************************)
EXTENDS MailboxUpgrade, TLAPS

\* While there is no file there is nothing a publication could lose.
Unpublished == file.schema = "none" => file.log = {}

\* The steps inside _exclusive: the lock is held from BEGIN EXCLUSIVE to the end.
LockHeld ==
    \A o \in Operator :
        at[o] \in {"locked", "backed_up", "committed", "restoring"} => lock = o

\* A running upgrade has drawn a name for its backup, a running rollback has a record.
Named ==
    \A o \in Operator :
        /\ at[o] \in {"locked", "backed_up", "committed"} => own[o] \in 1..calls
        /\ at[o] \in {"has_record", "restoring", "restored"} => held[o] # NoRecord

\* What an upgrade knows of the file and of its backup at each of its steps.
UpgradeProgress ==
    \A o \in Operator :
        /\ at[o] \in {"locked", "backed_up"} => file.schema = "old"
        /\ at[o] \in {"backed_up", "committed"} =>
               own[o] \in present /\ backups[own[o]] = file.log

\* Past its check a rollback's record is true of the file.
RollbackProgress ==
    \A o \in Operator :
        at[o] = "restoring" => file.schema = "current" /\ Unchanged(held[o])

\* No record is ahead of the file's counter or names the backup of a running upgrade.
Bounded(r) ==
    /\ r.counter <= file.counter
    /\ r.backup <= calls
    /\ \A o \in Operator :
           at[o] \in {"locked", "backed_up", "committed"} => r.backup # own[o]

RecordBounds ==
    /\ record # NoRecord => Bounded(record)
    /\ \A o \in Operator : held[o] # NoRecord => Bounded(held[o])

TypeInv == UpgradeTypeOK /\ Named

UpgradeInv ==
    /\ NothingDropped
    /\ Unpublished
    /\ RecordsAreEvidence
    /\ LockHeld
    /\ UpgradeProgress
    /\ RollbackProgress
    /\ RecordBounds

\* What no step of a publication before its link touches.
mailboxVars == <<file, backups, present, record, lock, at, held, own, written, calls>>

\* A step that leaves the mailbox, its record and the operators alone keeps the invariant.
LEMMA MailboxFrame ==
    ASSUME UpgradeInv, UNCHANGED mailboxVars
    PROVE  UpgradeInv'
<1> USE DEF mailboxVars
<1>1. NothingDropped' /\ Unpublished' /\ LockHeld'
  BY DEF UpgradeInv, NothingDropped, Unpublished, LockHeld
<1>2. RecordsAreEvidence'
  BY DEF UpgradeInv, RecordsAreEvidence, Evidence, Unchanged
<1>3. UpgradeProgress' /\ RollbackProgress'
  BY DEF UpgradeInv, UpgradeProgress, RollbackProgress, Unchanged
<1>4. RecordBounds'
  BY DEF UpgradeInv, RecordBounds, Bounded
<1> QED
  BY <1>1, <1>2, <1>3, <1>4 DEF UpgradeInv

\* A call that ends frees its lock and forgets its record, and may leave none on disk; with
\* the mailbox untouched, that keeps the invariant (Contended, AlreadyRolledBack,
\* RefuseRollback, RenameRecord, Crash).
LEMMA CallEnds ==
    ASSUME UpgradeInv, TypeInv, NEW o \in Operator, Ends(o), record' \in {record, NoRecord},
           UNCHANGED <<file, backups, present, own, written, calls>>
    PROVE  UpgradeInv'
<1>0. /\ at' = [at EXCEPT ![o] = "idle"] /\ held' = [held EXCEPT ![o] = NoRecord]
      /\ lock' = IF lock = o THEN Nobody ELSE lock
      /\ DOMAIN at = Operator /\ DOMAIN held = Operator
  BY DEF Ends, TypeInv, UpgradeTypeOK
<1>1. \A q \in Operator :
          /\ at'[q] = IF q = o THEN "idle" ELSE at[q]
          /\ held'[q] = IF q = o THEN NoRecord ELSE held[q]
  BY <1>0, TypeInv DEF TypeInv, UpgradeTypeOK
<1>2. NothingDropped' /\ Unpublished'
  BY DEF UpgradeInv, NothingDropped, Unpublished
<1>3. LockHeld'
  BY <1>0, <1>1 DEF UpgradeInv, LockHeld
<1>4. RecordsAreEvidence'
  BY <1>1 DEF UpgradeInv, RecordsAreEvidence, Evidence, Unchanged
<1>5. UpgradeProgress' /\ RollbackProgress'
  BY <1>1 DEF UpgradeInv, UpgradeProgress, RollbackProgress, Unchanged
<1>6. RecordBounds'
  BY <1>1 DEF UpgradeInv, RecordBounds, Bounded
<1> QED
  BY <1>2, <1>3, <1>4, <1>5, <1>6 DEF UpgradeInv

\* Typing of every reachable mailbox, record and call.
THEOREM UpgradeTyping == Spec => []TypeInv
<1>1. Init => TypeInv
  BY UpgradeAssumption DEF Init, TypeInv, UpgradeTypeOK, Named
<1>2. TypeInv /\ [Next]_vars => TypeInv'
  <2> SUFFICES ASSUME TypeInv, [Next]_vars
               PROVE  TypeInv'
    OBVIOUS
  <2> USE UpgradeAssumption DEF TypeInv, UpgradeTypeOK, Named
  <2>1. CASE Write
    <3>0. written' \in Nat
      BY <2>1 DEF Write
    <3>1. file' = [schema |-> file.schema, counter |-> file.counter + 1,
                   log |-> file.log \cup {written'}]
      BY <2>1 DEF Write
    <3>2. file' \in [schema : {"none", "old", "current"}, counter : Nat, log : SUBSET Nat]
      BY <3>0, <3>1
    <3> QED
      BY <2>1, <3>0, <3>2 DEF Write
  <2>2. ASSUME NEW o \in Operator, BeginUpgrade(o) PROVE TypeInv'
    BY <2>2 DEF BeginUpgrade, Calls
  <2>3. ASSUME NEW o \in Operator, Backup(o) PROVE TypeInv'
    <3>1. own[o] \in 1..MaxCalls
      BY <2>3 DEF Backup
    <3>2. present' \in SUBSET (1..MaxCalls) /\ backups' \in [1..MaxCalls -> SUBSET Nat]
      BY <2>3, <3>1 DEF Backup
    <3> QED
      BY <2>3, <3>2 DEF Backup
  <2>4. ASSUME NEW o \in Operator, UpgradeFails(o) PROVE TypeInv'
    BY <2>4 DEF UpgradeFails, Ends
  <2>5. ASSUME NEW o \in Operator, CommitUpgrade(o) PROVE TypeInv'
    <3>1. file' = [schema |-> "current", counter |-> file.counter + 1, log |-> file.log]
      BY <2>5 DEF CommitUpgrade
    <3>2. file' \in [schema : {"none", "old", "current"}, counter : Nat, log : SUBSET Nat]
      BY <3>1
    <3> QED
      BY <2>5, <3>2 DEF CommitUpgrade
  <2>6. ASSUME NEW o \in Operator, WriteRecord(o) PROVE TypeInv'
    BY <2>6 DEF WriteRecord, Ends, Record
  <2>7. ASSUME NEW o \in Operator, ReadRecord(o) PROVE TypeInv'
    BY <2>7 DEF ReadRecord, Calls
  <2>8. ASSUME NEW o \in Operator, AlreadyRolledBack(o) PROVE TypeInv'
    BY <2>8 DEF AlreadyRolledBack, Ends
  <2>9. ASSUME NEW o \in Operator, Contended(o) PROVE TypeInv'
    BY <2>9 DEF Contended, Ends
  <2>10. ASSUME NEW o \in Operator, BeginRollback(o) PROVE TypeInv'
    BY <2>10 DEF BeginRollback
  <2>11. ASSUME NEW o \in Operator, RefuseRollback(o) PROVE TypeInv'
    BY <2>11 DEF RefuseRollback, Ends
  <2>12. ASSUME NEW o \in Operator, Restore(o) PROVE TypeInv'
    <3>1. backups[held[o].backup] \in SUBSET Nat
      BY <2>12 DEF Restore, Record
    <3>2. file' \in [schema : {"none", "old", "current"}, counter : Nat, log : SUBSET Nat]
      BY <2>12, <3>1 DEF Restore
    <3> QED
      BY <2>12, <3>2 DEF Restore
  <2>13. ASSUME NEW o \in Operator, RenameRecord(o) PROVE TypeInv'
    BY <2>13 DEF RenameRecord, Ends
  <2>14. ASSUME NEW o \in Operator, Crash(o) PROVE TypeInv'
    BY <2>14 DEF Crash, Ends
  <2>15. CASE UNCHANGED vars
    BY <2>15 DEF vars
  <2>16. ASSUME NEW p \in Opener, Stage(p) PROVE TypeInv'
    BY <2>16 DEF Stage
  <2>17. ASSUME NEW p \in Opener, Prepare(p) PROVE TypeInv'
    BY <2>17 DEF Prepare
  <2>18. ASSUME NEW p \in Opener, Link(p) PROVE TypeInv'
    <3>1. file' \in [schema : {"none", "old", "current"}, counter : Nat, log : SUBSET Nat]
      BY <2>18 DEF Link
    <3> QED
      BY <2>18, <3>1 DEF Link
  <2>19. ASSUME NEW p \in Opener, GiveUp(p) PROVE TypeInv'
    BY <2>19 DEF GiveUp
  <2> QED
    BY <2>1, <2>2, <2>3, <2>4, <2>5, <2>6, <2>7, <2>8, <2>9, <2>10, <2>11, <2>12, <2>13,
       <2>14, <2>15, <2>16, <2>17, <2>18, <2>19
       DEF Next, Upgrade, Rollback, Publication
<1> QED
  BY <1>1, <1>2, PTL DEF Spec

\* Nothing is dropped, every record is evidence or refused, and a restore works on what the
\* rollback checked: for any number of openers, operators, calls and
\* transactions.
THEOREM UpgradeKeepsTraffic == Spec => []UpgradeInv
<1>1. Init => UpgradeInv
  BY DEF Init, UpgradeInv, NothingDropped, Unpublished, RecordsAreEvidence, LockHeld,
         UpgradeProgress, RollbackProgress, RecordBounds
<1>2. TypeInv /\ TypeInv' /\ UpgradeInv /\ [Next]_vars => UpgradeInv'
  <2> SUFFICES ASSUME TypeInv, TypeInv', UpgradeInv, [Next]_vars
               PROVE  UpgradeInv'
    OBVIOUS
  <2> USE UpgradeAssumption DEF TypeInv, UpgradeTypeOK, Named, UpgradeInv, NothingDropped,
          Unpublished, RecordsAreEvidence, Evidence, Unchanged, LockHeld, UpgradeProgress,
          RollbackProgress, RecordBounds, Bounded, Record
  <2>1. CASE Write
    BY <2>1 DEF Write
  <2>2. ASSUME NEW o \in Operator, BeginUpgrade(o) PROVE UpgradeInv'
    BY <2>2 DEF BeginUpgrade, Calls
  <2>3. ASSUME NEW o \in Operator, Backup(o) PROVE UpgradeInv'
    BY <2>3 DEF Backup
  <2>4. ASSUME NEW o \in Operator, UpgradeFails(o) PROVE UpgradeInv'
    BY <2>4 DEF UpgradeFails, Ends
  <2>5. ASSUME NEW o \in Operator, CommitUpgrade(o) PROVE UpgradeInv'
    BY <2>5 DEF CommitUpgrade
  <2>6. ASSUME NEW o \in Operator, WriteRecord(o) PROVE UpgradeInv'
    <3>1. /\ at' = [at EXCEPT ![o] = "idle"] /\ held' = [held EXCEPT ![o] = NoRecord]
          /\ at[o] = "committed" /\ lock = o /\ lock' = Nobody
          /\ record' = [backup |-> own[o], counter |-> file.counter]
          /\ UNCHANGED <<file, backups, present, own, written, calls>>
      BY <2>6 DEF WriteRecord, Ends
    <3>2. \A q \in Operator :
              /\ at'[q] = IF q = o THEN "idle" ELSE at[q]
              /\ held'[q] = IF q = o THEN NoRecord ELSE held[q]
      BY <3>1
    <3>3. \A q \in Operator :
              at'[q] \notin {"locked", "backed_up", "committed", "restoring"}
      BY <3>1, <3>2
    <3>4. NothingDropped' /\ Unpublished' /\ LockHeld'
      BY <3>1, <3>3
    <3>5. RecordsAreEvidence'
      BY <3>1, <3>2
    <3>6. UpgradeProgress' /\ RollbackProgress'
      BY <3>3
    <3>7. RecordBounds'
      BY <3>1, <3>2, <3>3
    <3> QED
      BY ONLY <3>4, <3>5, <3>6, <3>7 DEF UpgradeInv
  <2>7. ASSUME NEW o \in Operator, ReadRecord(o) PROVE UpgradeInv'
    <3>1. /\ at' = [at EXCEPT ![o] = "has_record"] /\ held' = [held EXCEPT ![o] = record]
          /\ own' = [own EXCEPT ![o] = calls'] /\ calls' = calls + 1
          /\ at[o] = "idle" /\ record # NoRecord
          /\ UNCHANGED <<file, backups, present, record, lock, written>>
      BY <2>7 DEF ReadRecord, Calls
    <3>2. \A q \in Operator :
              /\ at'[q] = IF q = o THEN "has_record" ELSE at[q]
              /\ held'[q] = IF q = o THEN record ELSE held[q]
              /\ own'[q] = IF q = o THEN calls' ELSE own[q]
      BY <3>1
    <3>3. NothingDropped' /\ Unpublished' /\ LockHeld'
      BY <3>1, <3>2
    <3>4. RecordsAreEvidence'
      BY <3>1, <3>2
    <3>5. UpgradeProgress' /\ RollbackProgress'
      BY <3>1, <3>2
    <3>6. RecordBounds'
      BY <3>1, <3>2
    <3> QED
      BY ONLY <3>3, <3>4, <3>5, <3>6 DEF UpgradeInv
  <2>8. ASSUME NEW o \in Operator, AlreadyRolledBack(o) PROVE UpgradeInv'
    BY ONLY TypeInv, UpgradeInv, <2>8, CallEnds DEF AlreadyRolledBack
  <2>9. ASSUME NEW o \in Operator, Contended(o) PROVE UpgradeInv'
    BY ONLY TypeInv, UpgradeInv, <2>9, CallEnds DEF Contended
  <2>10. ASSUME NEW o \in Operator, BeginRollback(o) PROVE UpgradeInv'
    BY <2>10 DEF BeginRollback
  <2>11. ASSUME NEW o \in Operator, RefuseRollback(o) PROVE UpgradeInv'
    BY ONLY TypeInv, UpgradeInv, <2>11, CallEnds DEF RefuseRollback
  <2>12. ASSUME NEW o \in Operator, Restore(o) PROVE UpgradeInv'
    BY <2>12 DEF Restore
  <2>13. ASSUME NEW o \in Operator, RenameRecord(o) PROVE UpgradeInv'
    BY ONLY TypeInv, UpgradeInv, <2>13, CallEnds DEF RenameRecord
  <2>14. ASSUME NEW o \in Operator, Crash(o) PROVE UpgradeInv'
    BY ONLY TypeInv, UpgradeInv, <2>14, CallEnds DEF Crash
  <2>15. CASE UNCHANGED vars
    BY ONLY UpgradeInv, <2>15, MailboxFrame DEF mailboxVars, vars
  <2>16. ASSUME NEW p \in Opener, Stage(p) PROVE UpgradeInv'
    BY ONLY UpgradeInv, <2>16, MailboxFrame DEF mailboxVars, Stage
  <2>17. ASSUME NEW p \in Opener, Prepare(p) PROVE UpgradeInv'
    BY ONLY UpgradeInv, <2>17, MailboxFrame DEF mailboxVars, Prepare
  <2>18. ASSUME NEW p \in Opener, Link(p) PROVE UpgradeInv'
    <3>1. CASE file.schema # "none"
      BY ONLY UpgradeInv, <2>18, <3>1, MailboxFrame DEF mailboxVars, Link
    <3>2. CASE file.schema = "none"
      <4>1. /\ file'.counter = file.counter + 1 /\ file'.log = {} /\ file'.schema # "none"
            /\ UNCHANGED <<backups, present, record, lock, at, held, own, written, calls>>
        BY <2>18, <3>2 DEF Link
      <4>2. NothingDropped' /\ Unpublished' /\ LockHeld'
        BY <3>2, <4>1
      <4>3. \A r \in Record : r.counter <= file.counter => ~Unchanged(r)'
        BY <4>1
      <4>4. RecordsAreEvidence'
        BY <4>1, <4>3
      <4>5. UpgradeProgress' /\ RollbackProgress'
        BY <3>2, <4>1
      <4>6. RecordBounds'
        BY <4>1
      <4> QED
        BY ONLY <4>2, <4>4, <4>5, <4>6 DEF UpgradeInv
    <3> QED
      BY <3>1, <3>2
  <2>19. ASSUME NEW p \in Opener, GiveUp(p) PROVE UpgradeInv'
    BY ONLY UpgradeInv, <2>19, MailboxFrame DEF mailboxVars, GiveUp
  <2> QED
    BY <2>1, <2>2, <2>3, <2>4, <2>5, <2>6, <2>7, <2>8, <2>9, <2>10, <2>11, <2>12, <2>13,
       <2>14, <2>15, <2>16, <2>17, <2>18, <2>19
       DEF Next, Upgrade, Rollback, Publication
<1> QED
  BY <1>1, <1>2, UpgradeTyping, PTL DEF Spec

\* The mailbox holds every transaction a member ever committed (upgrade, rollback).
THEOREM NothingIsDropped == Spec => []NothingDropped
BY UpgradeKeepsTraffic, PTL DEF UpgradeInv

\* Every upgrade record is true or refused by the counter check (rollback).
THEOREM EvidenceHolds == Spec => []RecordsAreEvidence
BY UpgradeKeepsTraffic, PTL DEF UpgradeInv

\* From the counter check to the copy, the file is the one that was checked (rollback).
THEOREM RestoreHoldsTheFile == Spec => []RestoreIsSafe
<1>1. UpgradeInv /\ TypeInv => RestoreIsSafe
  BY DEF UpgradeInv, TypeInv, Named, LockHeld, RollbackProgress, RecordsAreEvidence, Evidence,
         RestoreIsSafe
<1> QED
  BY <1>1, UpgradeKeepsTraffic, UpgradeTyping, PTL

\* Typing, as the runs state it.
THEOREM UpgradeTypes == Spec => []UpgradeTypeOK
BY UpgradeTyping, PTL DEF TypeInv
================================================================================
