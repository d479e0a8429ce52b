------------------------------ MODULE Ingestion ------------------------------
(***************************************************************************)
(* Incremental ingestion of one Codex session file.  A pass of ingestion   *)
(* reads the checkpoint, the file and the generation of the project        *)
(* registry, finds the project of every record, and only then opens the    *)
(* transaction that stores the records, puts those without a project       *)
(* aside, and advances the checkpoint.  Between these steps other passes,  *)
(* the registry, the file and the owner's recovery of deferred records     *)
(* move on; the transaction has to notice.                                 *)
(*                                                                         *)
(* What a capture does to the quarantine is in PendingCapture; here a      *)
(* stored record is the project its source_ref is bound to.                *)
(***************************************************************************)
EXTENDS Integers, Sequences, SequencesExt, FiniteSets

CONSTANTS
  Ingesters,     \* concurrent passes over the same scope
  Records,       \* trusted records (session:turn) Codex may write
  Projects,
  Paths,         \* record -> the projects above its cwd, deepest first
  Targets,       \* record -> the projects an owner may recover it into
  BatchSize,     \* records one pass reads
  MaxDeferred,   \* _MAX_PENDING_PER_SCOPE
  MaxGeneration, \* bound: changes of the registry
  MaxMoves,      \* bound: rewritten files, moved directories, upgrades
  MaxFailures,   \* bound: crashes and failing reads
  NONE

ASSUME PathsAssumption ==
  /\ NONE \notin Projects
  /\ Paths \in [Records -> Seq(Projects)]
  /\ Targets \in [Records -> SUBSET Projects]

ASSUME BoundsAssumption == BatchSize \in Nat \ {0} /\ MaxDeferred \in Nat

VARIABLES
  file,        \* the session file: its inode and the records in it
  policy,      \* parser policy of the installed adapter
  registry,    \* project -> "absent", "enabled" or "disabled"
  present,     \* projects whose directory is the one that was registered
  generation,  \* project_registry_state.generation
  checkpoint,  \* the scope's row in checkpoints
  stored,      \* source_refs: record -> its project, or NONE
  receipts,    \* import_receipts
  deferred,    \* codex_deferred_records
  pass,        \* ingester -> the locals of its ingest() call
  recovery,    \* locals of a running deferred recovery
  moves, failures

world == <<file, policy, registry, present, generation, moves>>
tables == <<checkpoint, stored, receipts, deferred>>
vars == <<world, tables, pass, recovery, failures>>

(* The cursor of a checkpoint names the file by inode and by the hash of    *)
(* the prefix that was read: here, the prefix itself.                       *)
NoCheckpoint == [inode |-> 0, policy |-> 0, prefix |-> <<>>]

Idle == [pc |-> "idle", retry |-> FALSE, policy |-> 0, base |-> NoCheckpoint,
         next |-> NoCheckpoint, batch |-> <<>>, gen |-> 0, found |-> <<>>]

NoRecovery == [record |-> NONE, project |-> NONE, rows |-> {}]

Init ==
  /\ file = [inode |-> 1, log |-> <<>>]
  /\ policy = 1
  /\ registry \in [Projects -> {"absent", "enabled"}]
  /\ present = Projects
  /\ generation = 0
  /\ checkpoint = NoCheckpoint
  /\ stored = [r \in Records |-> NONE]
  /\ receipts = {}
  /\ deferred = {}
  /\ pass = [i \in Ingesters |-> Idle]
  /\ recovery = NoRecovery
  /\ moves = 0 /\ failures = 0

-----------------------------------------------------------------------------
(* Around the service.                                                      *)

(* Codex completes a task and appends its record.                           *)
AppendRecord(r) ==
  /\ r \notin ToSet(file.log)
  /\ file' = [file EXCEPT !.log = Append(@, r)]
  /\ UNCHANGED <<policy, registry, present, generation, moves,
                 tables, pass, recovery, failures>>

Moved == moves < MaxMoves /\ moves' = moves + 1

(* The file is truncated in place, or replaced by a copy of its start.      *)
Rewrite(n, inode) ==
  /\ Moved
  /\ inode \in {file.inode, file.inode + 1}
  /\ n < Len(file.log) \/ inode # file.inode
  /\ file' = [inode |-> inode, log |-> SubSeq(file.log, 1, n)]
  /\ UNCHANGED <<policy, registry, present, generation,
                 tables, pass, recovery, failures>>

(* A new version of the hub, with another parser policy, is installed.      *)
Upgrade ==
  /\ Moved
  /\ policy' = policy + 1
  /\ UNCHANGED <<file, registry, present, generation,
                 tables, pass, recovery, failures>>

(* A project's directory disappears or comes back: no row changes.          *)
MoveDirectory(p) ==
  /\ Moved
  /\ present' = IF p \in present THEN present \ {p} ELSE present \cup {p}
  /\ UNCHANGED <<file, policy, registry, generation,
                 tables, pass, recovery, failures>>

(* A project is registered, disabled or enabled; a trigger counts it.       *)
ChangeRegistry(p) ==
  /\ generation < MaxGeneration
  /\ registry' = [registry EXCEPT
                    ![p] = IF @ = "enabled" THEN "disabled" ELSE "enabled"]
  /\ generation' = generation + 1
  /\ UNCHANGED <<file, policy, present, moves,
                 tables, pass, recovery, failures>>

-----------------------------------------------------------------------------
(* find_by_cwd: the deepest registered project above the cwd, provided it   *)
(* is enabled and its directory is still the registered one.                *)
First(rows, r) == {n \in 1..Len(Paths[r]) :
                     /\ rows[Paths[r][n]] # "absent"
                     /\ \A m \in 1..(n - 1) : rows[Paths[r][m]] = "absent"}
Deepest(rows, r) == IF First(rows, r) = {} THEN NONE
                    ELSE Paths[r][CHOOSE n \in First(rows, r) : TRUE]
Current(p) == registry[p] = "enabled" /\ p \in present
Find(r) == LET p == Deepest(registry, r)
           IN IF p # NONE /\ Current(p) THEN p ELSE NONE

(* Mutant of Offset: the prefix is trusted for its length.                  *)
OffsetByLength(cp, pol) ==
  IF cp.inode = file.inode /\ cp.policy = pol /\ Len(cp.prefix) <= Len(file.log)
  THEN Len(cp.prefix) ELSE 0

(* _resume_state: where to read on, the start if the file or the policy is  *)
(* not the checkpoint's any more.                                           *)
Offset(cp, pol) ==
  IF cp.inode = file.inode /\ cp.policy = pol /\ IsPrefix(cp.prefix, file.log)
  THEN Len(cp.prefix) ELSE 0

(* One pass of ingest().                                                    *)
ReadCheckpoint(i) ==
  /\ pass[i].pc = "idle"
  /\ pass' = [pass EXCEPT
                 ![i].pc = "source", ![i].base = checkpoint,
                 ![i].policy = IF pass[i].retry THEN @ ELSE policy]
  /\ UNCHANGED <<world, tables, recovery, failures>>

ReadSource(i) ==
  /\ pass[i].pc = "source"
  /\ LET from == Offset(pass[i].base, pass[i].policy)
         upto == IF from + BatchSize < Len(file.log)
                 THEN from + BatchSize ELSE Len(file.log)
     IN pass' = [pass EXCEPT
          ![i].pc = "generation",
          ![i].batch = SubSeq(file.log, from + 1, upto),
          ![i].next = [inode |-> file.inode, policy |-> pass[i].policy,
                       prefix |-> SubSeq(file.log, 1, upto)]]
  /\ UNCHANGED <<world, tables, recovery, failures>>

ReadGeneration(i) ==
  /\ pass[i].pc = "generation"
  /\ pass' = [pass EXCEPT ![i].pc = "prepare", ![i].gen = generation]
  /\ UNCHANGED <<world, tables, recovery, failures>>

Prepare(i) ==
  /\ pass[i].pc = "prepare"
  /\ LET n == Len(pass[i].found) + 1
     IN IF n <= Len(pass[i].batch)
        THEN pass' = [pass EXCEPT ![i].found = Append(@, Find(pass[i].batch[n]))]
        ELSE pass' = [pass EXCEPT ![i].pc = "commit"]
  /\ UNCHANGED <<world, tables, recovery, failures>>

(* What the transaction is about to write.                                  *)
Bindings(i) == {[record |-> pass[i].batch[n], project |-> pass[i].found[n]] :
                  n \in 1..Len(pass[i].batch)}
Prepared(i) == {b \in Bindings(i) : b.project # NONE}
PreparedRecords(i) == {b.record : b \in Prepared(i)}

(* Mutant of Receipted: the receipts of the whole batch are written.        *)
ReceiptedBatch(i) == receipts \cup ToSet(pass[i].batch)

Receipted(i) == receipts \cup PreparedRecords(i)

(* The rows of the records without a project; a row of the same record,     *)
(* file and policy is left as it is.                                        *)
Locator(r, cp) == [record |-> r, inode |-> cp.inode, policy |-> cp.policy,
                   prefix |-> cp.prefix, state |-> "pending"]

SameLocator(d, e) == /\ d.record = e.record
                     /\ d.inode = e.inode
                     /\ d.policy = e.policy
PendingRows(rows) == {d \in rows : d.state = "pending"}

NewLocators(i) == {d \in {Locator(b.record, pass[i].next) :
                            b \in Bindings(i) \ Prepared(i)} :
                     ~\E e \in deferred : SameLocator(d, e)}

(* Mutant of DeferredAfter: a full table drops the locators.                *)
DeferredDroppingExcess(i) ==
  IF Cardinality(PendingRows(deferred \cup NewLocators(i))) <= MaxDeferred
  THEN deferred \cup NewLocators(i) ELSE deferred

DeferredAfter(i) == deferred \cup NewLocators(i)

(* Mutant of Guarded: the generation is not compared.                       *)
GuardedByDirectory(i) == \A b \in Prepared(i) : Current(b.project)

(* The registry is the one the projects were found in, their directories    *)
(* are still theirs.                                                        *)
Guarded(i) == /\ pass[i].gen = generation
              /\ \A b \in Prepared(i) : Current(b.project)

(* Mutant of Compatible: the project of an existing source_ref is not read. *)
CompatibleAnyProject(i) == \A b \in Prepared(i) :
  b.record \in receipts => stored[b.record] # NONE

(* An existing source_ref must be bound to the same project, and a record   *)
(* with a receipt must have one.                                            *)
Compatible(i) == \A b \in Prepared(i) :
                   /\ stored[b.record] \in {NONE, b.project}
                   /\ b.record \in receipts => stored[b.record] # NONE

HasCapacity(i) == Cardinality(PendingRows(DeferredAfter(i))) <= MaxDeferred

Accepted(i) == Guarded(i) /\ Compatible(i) /\ HasCapacity(i)

(* Mutant of Unmoved: the compare-and-swap compares the parser policy only. *)
UnmovedPolicy(i) == checkpoint.policy = pass[i].base.policy

Unmoved(i) == checkpoint = pass[i].base

Commit(i) ==
  /\ pass[i].pc = "commit"
  /\ Accepted(i) /\ Unmoved(i)
  /\ stored' = [r \in Records |->
                  IF r \in PreparedRecords(i)
                  THEN (CHOOSE b \in Prepared(i) : b.record = r).project
                  ELSE stored[r]]
  /\ receipts' = Receipted(i)
  /\ deferred' = DeferredAfter(i)
  /\ checkpoint' = pass[i].next
  /\ pass' = [pass EXCEPT ![i] = Idle]
  /\ UNCHANGED <<world, recovery, failures>>

(* A checkpoint conflict, or a read under a writer, starts the pass again   *)
(* once; any other failure of the transaction ends it with nothing written. *)
Again(i) == IF pass[i].retry THEN Idle
            ELSE [Idle EXCEPT !.retry = TRUE, !.policy = pass[i].policy]

Conflict(i) ==
  /\ pass[i].pc = "commit"
  /\ Accepted(i) /\ ~Unmoved(i)
  /\ pass' = [pass EXCEPT ![i] = Again(i)]
  /\ UNCHANGED <<world, tables, recovery, failures>>

Reject(i) ==
  /\ pass[i].pc = "commit"
  /\ ~Accepted(i)
  /\ pass' = [pass EXCEPT ![i] = Idle]
  /\ UNCHANGED <<world, tables, recovery, failures>>

Interrupt(i) ==
  /\ pass[i].pc # "idle"
  /\ failures < MaxFailures
  /\ failures' = failures + 1
  /\ \/ pass' = [pass EXCEPT ![i] = Idle]
     \/ /\ pass[i].pc \in {"source", "generation", "prepare"}
        /\ pass' = [pass EXCEPT ![i] = Again(i)]
  /\ UNCHANGED <<world, tables, recovery>>

-----------------------------------------------------------------------------
(* Deferred recovery.  The owner names a registered project for a record.   *)
(* Every locator of the record must still replay: same file, same policy,   *)
(* same prefix.                                                             *)
RowsOf(r) == {d \in deferred : d.record = r}
Replays(d) == /\ d.inode = file.inode
              /\ d.policy = policy
              /\ IsPrefix(d.prefix, file.log)

RecoverReplay(r, p) ==
  /\ recovery = NoRecovery
  /\ p \in Targets[r] /\ Current(p)
  /\ PendingRows(RowsOf(r)) # {}
  /\ \A d \in RowsOf(r) : Replays(d)
  /\ recovery' = [record |-> r, project |-> p, rows |-> PendingRows(RowsOf(r))]
  /\ UNCHANGED <<world, tables, pass, failures>>

(* The transaction of the recovery: it does not look at the generation.     *)
RecoverCommit ==
  /\ recovery # NoRecovery
  /\ LET r == recovery.record
         p == recovery.project
     IN /\ Current(p)
        /\ stored[r] \in {NONE, p}
        /\ recovery.rows \subseteq deferred
        /\ stored' = [stored EXCEPT ![r] = p]
        /\ receipts' = receipts \cup {r}
        /\ deferred' = (deferred \ recovery.rows) \cup
                       {[d EXCEPT !.state = "recovered"] : d \in recovery.rows}
  /\ recovery' = NoRecovery
  /\ UNCHANGED <<world, checkpoint, pass, failures>>

RecoverAbandon ==
  /\ recovery # NoRecovery
  /\ recovery' = NoRecovery
  /\ UNCHANGED <<world, tables, pass, failures>>

-----------------------------------------------------------------------------
Step(i) == \/ ReadCheckpoint(i) \/ ReadSource(i) \/ ReadGeneration(i)
           \/ Prepare(i) \/ Commit(i) \/ Conflict(i) \/ Reject(i)

Next ==
  \/ \E i \in Ingesters : Step(i) \/ Interrupt(i)
  \/ \E r \in Records : AppendRecord(r) \/ \E p \in Projects : RecoverReplay(r, p)
  \/ RecoverCommit \/ RecoverAbandon
  \/ \E n \in 0..Len(file.log), inode \in 1..(MaxMoves + 1) : Rewrite(n, inode)
  \/ Upgrade
  \/ \E p \in Projects : MoveDirectory(p) \/ ChangeRegistry(p)

Spec == Init /\ [][Next]_vars

-----------------------------------------------------------------------------
Locators == [record : Records, inode : Nat, policy : Nat,
             prefix : Seq(Records), state : {"pending", "recovered"}]

Cursors == [inode : Nat, policy : Nat, prefix : Seq(Records)]

(* Type correctness.                                                        *)
TypeOK ==
  /\ file \in [inode : Nat, log : Seq(Records)]
  /\ policy \in Nat /\ generation \in Nat /\ moves \in Nat /\ failures \in Nat
  /\ registry \in [Projects -> {"absent", "enabled", "disabled"}]
  /\ present \subseteq Projects
  /\ checkpoint \in Cursors
  /\ stored \in [Records -> Projects \cup {NONE}]
  /\ receipts \subseteq Records
  /\ deferred \subseteq Locators
  /\ pass \in [Ingesters ->
       [pc : {"idle", "source", "generation", "prepare", "commit"},
        retry : BOOLEAN, policy : Nat, base : Cursors, next : Cursors,
        batch : Seq(Records), gen : Nat, found : Seq(Projects \cup {NONE})]]
  /\ recovery \in [record : Records \cup {NONE}, project : Projects \cup {NONE},
                   rows : SUBSET Locators]

(* The checkpoint never runs ahead: every record behind it is stored, or    *)
(* waits among the deferred ones.  Nothing is lost however many passes,     *)
(* crashes, rewritten files and capacity limits there were.                 *)
AckedHandled ==
  \A r \in ToSet(checkpoint.prefix) :
    stored[r] # NONE \/ \E d \in deferred : d.record = r

(* A receipt always has its source_ref; a deferred record has no receipt of *)
(* its own.  Otherwise the first pass after its project is registered fails,*)
(* and every later one.                                                     *)
ReceiptHasRef == \A r \in receipts : stored[r] # NONE

(* At most one locator of a record waits per file and policy, and never     *)
(* more of them than the limit.                                             *)
LocatorsBounded ==
  /\ Cardinality(PendingRows(deferred)) <= MaxDeferred
  /\ \A d, e \in deferred : SameLocator(d, e) => d = e

(* Whatever the passes, crashes, moves and limits, no record is lost behind *)
(* the checkpoint, no receipt stands alone, and the locators stay bounded.  *)
Handled == TypeOK /\ AckedHandled /\ ReceiptHasRef /\ LocatorsBounded

(* A stored record keeps its project, a recovered locator is never pending  *)
(* again, and a receipt stays.                                              *)
NothingUndone ==
  [][/\ \A r \in Records : stored[r] # NONE => stored'[r] = stored[r]
     /\ receipts \subseteq receipts'
     /\ \A d \in deferred : \E e \in deferred' :
          SameLocator(d, e) /\ (d.state = "recovered" => e = d)
    ]_vars

(* Two passes that read the same checkpoint do not undo each other: as long *)
(* as the file only grows and the parser stays, the checkpoint only extends.*)
CheckpointForward ==
  [][moves = 0 => IsPrefix(checkpoint.prefix, checkpoint'.prefix)]_vars

(* Ingestion decides by the registry of the instant it commits: a record is *)
(* stored under the deepest registered project above its cwd, and while no  *)
(* directory moved it is put aside only if it has no current project.       *)
DecidedByCurrentRegistry ==
  [][checkpoint' # checkpoint =>
       \A r \in Records :
         /\ stored'[r] # stored[r] => stored'[r] = Find(r)
         /\ (\E d \in deferred' \ deferred : d.record = r) /\ moves = 0
              => Find(r) = NONE
    ]_vars

(* A record is in the file and neither stored nor deferred.                *)
Waits(r) == /\ r \in ToSet(file.log)
            /\ stored[r] = NONE
            /\ ~\E d \in deferred : d.record = r

(* The checkpoint is the one of another policy.                             *)
RescanPending == checkpoint.policy # policy /\ file.log # <<>>

-----------------------------------------------------------------------------
(* Ingestion implements the ledger.                                         *)
Ledger == INSTANCE RecordLedger WITH
  stored <- {r \in Records : stored[r] # NONE},
  deferred <- {d.record : d \in deferred},
  acked <- ToSet(checkpoint.prefix)

ImplementsLedger == Ledger!Spec
=============================================================================
