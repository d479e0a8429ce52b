------------------------------ MODULE Database ------------------------------
(* storage/database.py: processes of several releases migrate one database, *)
(* write to it through its write-ahead log, and read its file without any   *)
(* lock, accepting what they read only if no file changed meanwhile.        *)
(*                                                                          *)
(* A content is [schema, rows]: the scripts that were run, in order, and a  *)
(* count that stands for everything else. A page holds a content; a file    *)
(* has a stamp that every write changes.                                    *)
EXTENDS Integers, Sequences, FiniteSets

CONSTANTS
  Processes,
  Known,     \* process -> the number of scripts its release packages
  Readers,   \* lock-free readers
  Pages,
  MaxWrites, \* bound on ordinary write transactions
  MaxCrashes,
  NONE

VARIABLES
  latest,    \* the content last committed
  main,      \* page -> content of the database file
  mainStamp,
  wal,       \* the content in the log, or NONE when its file is empty
  walStamp,
  migrating, \* process -> [pc, next]
  reading,   \* reader -> [kind, pc, stamps, pages]
  crashes

vars == <<latest, main, mainStamp, wal, walStamp, migrating, reading, crashes>>
files == <<latest, main, mainStamp, wal, walStamp>>

MaxKnown == CHOOSE n \in {Known[p] : p \in Processes} : \A p \in Processes : Known[p] <= n

----------------------------------------------------------------------------
(* The files.                                                              *)

(* A commit goes to the log.                                               *)
Commit(content) ==
  /\ latest' = content /\ wal' = content /\ walStamp' = walStamp + 1
  /\ UNCHANGED <<main, mainStamp>>

(* _managed_transaction: committed as a whole, or rolled back.             *)
WriteTransaction ==
  /\ latest.schema # <<>> /\ latest.rows < MaxWrites
  /\ Commit([latest EXCEPT !.rows = @ + 1])
  /\ UNCHANGED <<migrating, reading, crashes>>

(* A checkpoint copies the log page by page, and then empties it.          *)
CheckpointPage(p) ==
  /\ wal # NONE /\ main[p] # wal
  /\ main' = [main EXCEPT ![p] = wal]
  /\ mainStamp' = mainStamp + 1
  /\ UNCHANGED <<latest, wal, walStamp, migrating, reading, crashes>>

EmptyLog ==
  /\ wal # NONE /\ \A p \in Pages : main[p] = wal
  /\ wal' = NONE /\ walStamp' = walStamp + 1
  /\ UNCHANGED <<latest, main, mainStamp, migrating, reading, crashes>>

----------------------------------------------------------------------------
(* Database.initialize.                                                    *)

Begin(p) ==
  /\ migrating[p].pc = "off"
  /\ migrating' = [migrating EXCEPT ![p] = [pc |-> "history", next |-> 1]]
  /\ UNCHANGED <<files, reading, crashes>>

Step(p, step) == migrating' = [migrating EXCEPT ![p].pc = step]

IsKnownHistory(p) ==
  /\ Len(latest.schema) <= Known[p]
  /\ \A i \in DOMAIN latest.schema : latest.schema[i] = i

(* The history must be one that this release could have made.              *)
ValidateHistory(p) ==
  /\ migrating[p].pc \in {"history", "check"}
  /\ Step(p, IF ~IsKnownHistory(p) THEN "off"
             ELSE IF migrating[p].pc = "history" THEN "apply" ELSE "ready")
  /\ UNCHANGED <<files, reading, crashes>>

(* Mutant: what was applied is not looked up in the exclusive transaction. *)
NotAppliedBefore(version) == TRUE

NotApplied(version) == \A i \in DOMAIN latest.schema : latest.schema[i] # version

(* One script in one exclusive transaction, with its row in the history.   *)
ApplyMigration(p) ==
  LET version == migrating[p].next IN
  /\ migrating[p].pc = "apply" /\ version <= Known[p]
  /\ migrating' = [migrating EXCEPT ![p].next = @ + 1]
  /\ IF NotApplied(version)
     THEN Commit([latest EXCEPT !.schema = Append(@, version)])
     ELSE UNCHANGED files
  /\ UNCHANGED <<reading, crashes>>

Applied(p) ==
  /\ migrating[p].pc = "apply" /\ migrating[p].next > Known[p]
  /\ Step(p, "check")
  /\ UNCHANGED <<files, reading, crashes>>

(* A transaction that waits too long, or a process that dies: the          *)
(* transaction in progress is rolled back, and the process starts again.    *)
Crash(p) ==
  /\ crashes < MaxCrashes /\ migrating[p].pc # "off"
  /\ crashes' = crashes + 1
  /\ Step(p, "off")
  /\ UNCHANGED <<files, reading>>

----------------------------------------------------------------------------
(* Reading the file without locks.                                         *)

Resting == [kind |-> NONE, pc |-> "off", stamps |-> NONE, pages |-> [p \in {} |-> NONE]]

Quiescent == wal = NONE

(* Mutant: only the database file is looked at again.                      *)
FileStateOfMain == [main |-> mainStamp, wal |-> 0]

FileState == [main |-> mainStamp, wal |-> walStamp]

(* connect(readonly): the state of the files is taken first.               *)
OpenReadonly(r) ==
  /\ reading[r].pc = "off"
  /\ reading' = [reading EXCEPT ![r] =
       [Resting EXCEPT !.kind = "connection", !.pc = "sidecars", !.stamps = FileState]]
  /\ UNCHANGED <<files, migrating, crashes>>

(* ReadonlyDatabaseSnapshot: the log is looked at first.                   *)
OpenSnapshot(r) ==
  /\ reading[r].pc = "off" /\ Quiescent
  /\ reading' = [reading EXCEPT ![r] = [Resting EXCEPT !.kind = "snapshot", !.pc = "stat"]]
  /\ UNCHANGED <<files, migrating, crashes>>

CheckSidecars(r) ==
  /\ reading[r].pc = "sidecars"
  /\ reading' = IF Quiescent THEN [reading EXCEPT ![r].pc = "read"]
                ELSE [reading EXCEPT ![r] = Resting]
  /\ UNCHANGED <<files, migrating, crashes>>

StatDocument(r) ==
  /\ reading[r].pc = "stat"
  /\ reading' = [reading EXCEPT ![r].pc = "read", ![r].stamps = FileState]
  /\ UNCHANGED <<files, migrating, crashes>>

ReadPage(r, p) ==
  /\ reading[r].pc = "read" /\ p \notin DOMAIN reading[r].pages
  /\ reading' = [reading EXCEPT ![r].pages =
       [q \in DOMAIN @ \cup {p} |-> IF q = p THEN main[p] ELSE @[q]]]
  /\ UNCHANGED <<files, migrating, crashes>>

SameDocument(r) == reading[r].stamps.main = mainStamp /\ Quiescent

Unchanged(r) ==
  IF reading[r].kind = "connection" THEN reading[r].stamps = FileState ELSE SameDocument(r)

(* What was read is accepted if nothing changed.                           *)
FinishRead(r) ==
  /\ reading[r].pc = "read" /\ DOMAIN reading[r].pages = Pages
  /\ reading' = IF Unchanged(r) THEN [reading EXCEPT ![r].pc = "accepted"]
                ELSE [reading EXCEPT ![r] = Resting]
  /\ UNCHANGED <<files, migrating, crashes>>

Close(r) ==
  /\ reading[r].pc = "accepted"
  /\ reading' = [reading EXCEPT ![r] = Resting]
  /\ UNCHANGED <<files, migrating, crashes>>

----------------------------------------------------------------------------

(* A new database, or one that an earlier release left.                    *)
Init ==
  /\ \E n \in 0..MaxKnown : latest = [schema |-> [i \in 1..n |-> i], rows |-> 0]
  /\ main = [p \in Pages |-> latest] /\ mainStamp = 0
  /\ wal = NONE /\ walStamp = 0
  /\ migrating = [p \in Processes |-> [pc |-> "off", next |-> 1]]
  /\ reading = [r \in Readers |-> Resting]
  /\ crashes = 0

Migrate(p) ==
  Begin(p) \/ ValidateHistory(p) \/ ApplyMigration(p) \/ Applied(p) \/ Crash(p)

Read(r) ==
  \/ OpenReadonly(r) \/ OpenSnapshot(r) \/ CheckSidecars(r) \/ StatDocument(r)
  \/ (\E p \in Pages : ReadPage(r, p)) \/ FinishRead(r) \/ Close(r)

Next ==
  \/ WriteTransaction \/ EmptyLog \/ \E p \in Pages : CheckpointPage(p)
  \/ \E p \in Processes : Migrate(p)
  \/ \E r \in Readers : Read(r)

Spec == Init /\ [][Next]_vars

----------------------------------------------------------------------------
(* Properties.                                                             *)

(* What a lock-free reader accepts is the committed content, whole: never a *)
(* mixture of pages, never the file without what is in its log.            *)
AcceptsCommitted ==
  \A r \in Readers :
    reading[r].pc = "read" /\ reading'[r].pc = "accepted" =>
      \A p \in Pages : reading[r].pages[p] = latest

(* Whatever releases start together and die, every script has run once, in *)
(* order; and a process that is ready found every script it knows.          *)
MigratedOnce ==
  /\ \A i \in DOMAIN latest.schema : latest.schema[i] = i
  /\ \A p \in Processes : migrating[p].pc = "ready" => Len(latest.schema) >= Known[p]
=============================================================================
