----------------------------- MODULE Progress -----------------------------
(* What the hub promises to finish: every pass of ingestion that keeps      *)
(* being repeated, the daily reconcile with its markers, and an apply that  *)
(* was interrupted.                                                         *)
EXTENDS Integers, Sequences

CONSTANTS
  Ingesters, Records, Projects, Paths, Targets, BatchSize, MaxDeferred,
  MaxGeneration, MaxMoves, MaxFailures,                                  \* ingestion
  Runners, Reconciled, Scopes, Identities,
  MaxEvents, MaxUpgrades, MaxFaults,                                     \* reconcile
  Workers, Proposals, Signatures, Branches,
  MaxCommits, MaxOwnerEvents, MaxGitFaults,                              \* proposals
  NONE

VARIABLES
  focus,    \* the component that moves
  file, policy, registry, present, generation, checkpoint, stored, receipts,
  deferred, pass, recovery, moves, failures,
  lock, catchup, codexMarker, success, report, enabled, known, home,
  parserPolicy, scanned, retry, dormant, codexOn, run, drifted, rewritten,
  events, faults,
  status, subject, plan, applied, applyLock, head, tip, clean, ref, trees,
  work, made, ownerEvents, gitFaults

Ingest == INSTANCE Ingestion
Rec == INSTANCE Reconcile WITH
  policy <- parserPolicy, Projects <- Reconciled
Improve == INSTANCE Proposals WITH
  lock <- applyLock, events <- ownerEvents, faults <- gitFaults, MaxEvents <-
  MaxOwnerEvents, MaxFaults <- MaxGitFaults

ingestionVars == <<file, policy, registry, present, generation, checkpoint,
                   stored, receipts, deferred, pass, recovery, moves, failures>>
reconcileVars == <<lock, catchup, codexMarker, success, report, enabled,
                   known, home, parserPolicy, scanned, retry, dormant,
                   codexOn, run, drifted, rewritten, events, faults>>
proposalsVars == <<status, subject, plan, applied, applyLock, head, tip,
                   clean, ref, trees, work, made, ownerEvents, gitFaults>>
vars == <<focus, ingestionVars, reconcileVars, proposalsVars>>

IngestIdle ==
  /\ file = NONE /\ policy = NONE /\ registry = NONE /\ present = NONE
  /\ generation = NONE /\ checkpoint = NONE /\ stored = NONE
  /\ receipts = NONE /\ deferred = NONE /\ pass = NONE /\ recovery = NONE
  /\ moves = NONE /\ failures = NONE
RecIdle ==
  /\ lock = NONE /\ catchup = NONE /\ codexMarker = NONE /\ success = NONE
  /\ report = NONE /\ enabled = NONE /\ known = NONE /\ home = NONE
  /\ parserPolicy = NONE /\ scanned = NONE /\ retry = NONE /\ dormant = NONE
  /\ codexOn = NONE /\ run = NONE /\ drifted = NONE /\ rewritten = NONE
  /\ events = NONE /\ faults = NONE
ImproveIdle ==
  /\ status = NONE /\ subject = NONE /\ plan = NONE /\ applied = NONE
  /\ applyLock = NONE /\ head = NONE /\ tip = NONE /\ clean = NONE
  /\ ref = NONE /\ trees = NONE /\ work = NONE /\ made = NONE
  /\ ownerEvents = NONE /\ gitFaults = NONE

(* The components share no variable, so each is followed on its own and the *)
(* others are idle.                                                         *)
Init ==
  \/ /\ focus = "ingestion"
     /\ Ingest!Init
     /\ RecIdle /\ ImproveIdle
  \/ /\ focus = "reconcile"
     /\ Rec!Init
     /\ IngestIdle /\ ImproveIdle
  \/ /\ focus = "proposals"
     /\ Improve!Init
     /\ IngestIdle /\ RecIdle

IngestMoves ==
  /\ focus = "ingestion"
  /\ UNCHANGED <<focus, reconcileVars, proposalsVars>>
RecMoves ==
  /\ focus = "reconcile"
  /\ UNCHANGED <<focus, ingestionVars, proposalsVars>>
ImproveMoves ==
  /\ focus = "proposals"
  /\ UNCHANGED <<focus, ingestionVars, reconcileVars>>

Next ==
  \/ \E i \in Ingesters : \/ IngestMoves /\ Ingest!Step(i)
                          \/ IngestMoves /\ Ingest!Interrupt(i)
  \/ \E r \in Records : \/ IngestMoves /\ Ingest!AppendRecord(r)
                        \/ \E p \in Projects :
                             IngestMoves /\ Ingest!RecoverReplay(r, p)
  \/ IngestMoves /\ Ingest!RecoverCommit
  \/ IngestMoves /\ Ingest!RecoverAbandon
  \/ IngestMoves /\ Ingest!Upgrade
  \/ IngestMoves /\ \E n \in 0..Len(file.log), inode \in 1..(MaxMoves + 1) :
                      Ingest!Rewrite(n, inode)
  \/ \E p \in Projects : \/ IngestMoves /\ Ingest!MoveDirectory(p)
                         \/ IngestMoves /\ Ingest!ChangeRegistry(p)
  \/ RecMoves /\ Rec!Environment
  \/ \E r \in Runners : \/ \E force \in BOOLEAN : RecMoves /\ Rec!Start(r, force)
                        \/ RecMoves /\ Rec!Step(r)
                        \/ RecMoves /\ Rec!Crash(r)
  \/ ImproveMoves /\ Improve!OwnerActs
  \/ \E w \in Workers : \/ \E p \in Proposals : ImproveMoves /\ Improve!Open(w, p)
                        \/ ImproveMoves /\ Improve!Proceed(w)
                        \/ ImproveMoves /\ Improve!Crash(w)

Spec == Init /\ [][Next]_vars

----------------------------------------------------------------------------
(* The daily reconcile keeps running passes, and a pass runs to its end.    *)
IngestionFairness ==
  \A i \in Ingesters : WF_vars(IngestMoves /\ Ingest!Step(i))

(* Days pass, a due reconcile is started (the daily automation, the next    *)
(* start of the control panel) and a started run goes on.                   *)
ReconcileFairness ==
  /\ WF_vars(RecMoves /\ Rec!Day)
  /\ WF_vars(RecMoves /\ \E r \in Runners : Rec!Start(r, FALSE))
  /\ \A r \in Runners : WF_vars(RecMoves /\ Rec!Step(r))

Applying(p) == focus = "proposals" /\ status[p] = "applying"

(* A call that runs goes on, and the owner applies a proposal that stays    *)
(* interrupted, with nobody else at work, again.                            *)
ProposalFairness ==
  /\ \A w \in Workers : WF_vars(ImproveMoves /\ Improve!Proceed(w))
  /\ \A p \in Proposals :
       WF_vars(ImproveMoves /\ Applying(p)
                 /\ \E w \in Workers : Improve!Open(w, p))

FairSpec == Spec /\ IngestionFairness /\ ReconcileFairness /\ ProposalFairness

----------------------------------------------------------------------------
Unhandled(r) == focus = "ingestion" /\ Ingest!Waits(r)
RescanDue == focus = "ingestion" /\ Ingest!RescanPending
Rescanned == focus = "ingestion" => checkpoint.policy = policy

(* Every record Codex writes is stored or deferred in the end, unless the   *)
(* file is rewritten without it, and after an upgrade the source is scanned *)
(* to its end under the new policy, whatever failed, was interrupted or     *)
(* lost a race on the way. (adapters/base.py; Ingestion)                    *)
IngestionProgress ==
  /\ \A r \in Records : Unhandled(r) ~> ~Unhandled(r)
  /\ RescanDue ~> Rescanned

Orderly == focus = "reconcile" /\ Rec!Settled
AllEnabled == focus = "reconcile" => \A p \in Reconciled : enabled[p]
Cleared == focus = "reconcile" => ~catchup /\ codexMarker = NONE
Dormant(p) == focus = "reconcile" /\ p \in dormant

(* Once the owner has put things right, the daily runs clear both markers   *)
(* again and again, and, with every project enabled, one of them compacts a *)
(* dormant project. (services/reconcile.py; Reconcile)                      *)
ReconcileProgress ==
  /\ <>[]Orderly => []<>Cleared
  /\ <>[](Orderly /\ AllEnabled)
       => \A p \in Reconciled : Dormant(p) ~> ~Dormant(p)

Ended(p) == focus = "proposals" => status[p] \in {"applied", "failed"}
Stranded(p) == focus = "proposals" /\ <<p, "stale">> \in trees

(* A proposal whose apply was interrupted and that is applied again gets an *)
(* outcome, unless a cleanup has left its worktree registered without its   *)
(* directory. (improvement/service.py; Proposals)                           *)
ProposalProgress == \A p \in Proposals : Applying(p) ~> Ended(p) \/ Stranded(p)

(* tests/integration/test_proposal_git.py:755, "post_commit_cleanup_        *)
(* failure_remains_recoverable", and docs/operations.md:340: applying an    *)
(* interrupted proposal again finishes it. (improvement/git_apply.py:670)   *)
RemainsRecoverable == \A p \in Proposals : Applying(p) ~> Ended(p)
============================================================================
