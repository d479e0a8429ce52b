# TLA+ models of project-memory-hub

Project-memory-hub keeps, on one machine and in one SQLite database, what coding agents did in a
person's projects. It reads the agents' own logs (trusted records), takes what agents say about
their work (untrusted captures), keeps a registry of projects and their directories, runs a daily
*reconcile*, answers recalls, and lets its owner approve improvement proposals that are committed
to the hub's own repository. Several processes share the database and the files: the control panel,
the command line, the MCP broker, hooks and the daily automation.

This directory holds TLA+ modules of those parts whose correctness depends on the order of steps
of several actors, configurations that check them with TLC on small instances, and theorems that
TLAPS proves for every value of the constants. Paths below are relative to the package
`src/project_memory_hub/` unless they begin with `docs/` or `scripts/`.

1. Inventory - 2. Modules - 3. Runs and bounds - 4. Fairness - 5. What the runs show - 6. Findings -
7. Proofs - 8. Not modelled, and known limits - 9. Plan

## 1. Inventory

| Component | State | Operations | Talks to |
|---|---|---|---|
| Capture and quarantine (`services/capture.py`, `services/pending_recovery.py`, expiry in `services/reconcile.py`) | `pending_captures`, `pending_capture_history`, `source_refs`, `behavior_memories` | untrusted capture, trusted ingestion of one record, recovery by the owner, expiry, trimming of the history | registry (is the project current), ingestion |
| Ingestion (`adapters/base.py`, `storage/checkpoints.py`, retry in `container.py`) | `checkpoints`, `import_receipts` | a pass per session file: read, resolve, commit; rescan | adapter, registry, capture, deferred records |
| Deferred Codex records (`storage/deferred_records.py`, `services/deferred_recovery.py`) | `codex_deferred_records` | defer, list, recover into a project | ingestion, adapter |
| Codex adapter (`adapters/codex.py`) | a cursor and open contexts in the checkpoint | read from a cursor, resume or restart, replay a record, find the running model | session files |
| ChatGPT import (`adapters/chatgpt.py`) | `source_refs`, `import_receipts` | import an archive, one transaction per conversation | registry, capture |
| Reconcile (`services/reconcile.py`, `services/locking.py`) | `app_state` (two markers, last success, report), `reconcile.lock` | a run of ten stages, completion, failure report, `should_run` | everything below |
| Project registry (`storage/projects.py`, `storage/path_identity.py`) | `projects`, `project_registry_state.generation` | register, relink, enable, disable, backfill of identities | every service |
| Discovery (`discovery/`, `storage/discovery.py`) | findings | walk an allowed root, fingerprint, store duplicates | registry |
| Retry queue (`services/retry_queue.py`) | `retry_items` | enqueue, drain | pending capture, reconcile |
| Memories and compaction (`storage/memories.py`, `storage/resolutions.py`, `services/compaction.py`) | `behavior_memories`, `memory_issue_resolutions`, retrospectives, project state | insert, resolve, change by the owner, compact a namespace, mark inactive | capture, reconcile, recall |
| Facts and promotions (`services/project_facts.py`, `storage/facts.py`, `storage/promotions.py`) | `project_facts`, `memory_promotions` | scan through an anchor, supersede, request and approve a rule | registry, recall |
| Recall (`services/recall.py`) | none | read facts and memories between checks of the project, select within a budget | facts, memories, registry |
| Improvement proposals (`improvement/`, `storage/proposals.py`) | `improvement_proposals`, proposal branches, private worktrees, `proposal-apply.lock` | create, approve, reject, apply, recover, roll back | Git, reconcile, panel |
| Bounded processes (`improvement/git_apply.py`, `services/project_facts.py`) | a child, its group and pipes | run Git or a verification command | proposals, facts |
| Database (`storage/database.py`) | the file, its log, `schema_migrations` | migrate, transaction, lock-free snapshot, backup | all |
| Configuration (`config.py`, `container.py`, `services/control.py`) | the configuration file and its lock | default, load, save with or without a revision | panel, command line |
| AGENTS files (`integration/agents.py`) | an `AGENTS.md` and its backup | install, update, remove the managed block | command line |
| MCP broker (`integration/mcp_broker.py`) | one session | read a line, answer it, call two tools | pending capture, reconcile |
| Control panel (`security/web.py`, `web/`) | token file, sessions, requests | log in, check, read a form, handle | all services |
| Probes (`probes/`) | a lease | list, open, compare again, count, aggregate | session memory of other programs |
| Public snapshot (`scripts/prepare_public_snapshot.py`) | a branch, a worktree, its metadata | reserve, build, rename into place, roll back | Git |
| Analyzer, automation and doctor, privacy and redaction, command line and demo, release scripts | none or files | pure functions, inspections, rendering | the above |

What is hard, and what has to be true of it:

* **Quarantine.** A claim, the trusted records that may verify it, the owner's recovery and the
  expiry arrive in any order, repeated, and about claims whose history entry is gone. A verified
  claim was verified by a record of the same agent, project, model and content; no claim may be in a
  state in which the next trusted record hits a unique key (that would stop the ingestion of its whole
  log); tables stay within hard limits.
* **Ingestion and import.** A pass reads checkpoint, file and registry, works without a transaction,
  and commits optimistically. The checkpoint must never run ahead of what was stored or put aside, two
  passes must not undo each other, and the project of a record or conversation must be that of the
  registry of the commit.
* **Parser.** A session file is read in bounded chunks from a cursor that was stored with the state of
  the parse, while it grows or is replaced. However it is cut, the records must be those of one read.
* **Reconcile.** Owner, directories, captures, upgrades and crashes come between its stages. A marker
  must not be lost to a run that did not do what it asks for, and a success must not be recorded beside
  a project that is not in its place.
* **Memories, facts, recall.** Compaction selects, writes a retrospective and turns rows cold while
  captures and the owner add and change rows; scans overtake one another; a brief is made of reads
  between which the project may be moved, and by a counter that may fail and be replaced half-way.
* **Proposals.** Git and database cannot commit together, a step may fail and the process may die
  between any two, and the owner uses the repository and the proposal's branch at the same time.
* **Files that others write too.** The configuration, `AGENTS.md`, the token file, the snapshot and the
  database file are replaced or read beside an editor, another process, a crash or a power loss; probes
  and discovery read directories that are swapped under them.
* **Bounded service.** Helper processes have a deadline, a limit and descendants; the broker and the
  panel read lines and bodies of any size from clients that may go away.
* **Progress.** Passes, daily runs and interrupted applies must come to an end.

The hazards behind these sentences are listed in `PROJECT.json`, each at its line, with the
properties that cover it or the reason why none does.

## 2. Modules

| Module | What it is |
|---|---|
| `PendingCapture` | capture, verification, recovery, expiry and history of the quarantine |
| `RecordLedger` | abstract specification of what ingestion promises about the records of a source |
| `Ingestion` | passes over one session file, registry, deferred records; implements `RecordLedger` |
| `Reconcile` | runs of the reconcile, markers, lock, registry, environment |
| `Proposals` | proposal rows, apply, recover, roll back, the repository |
| `WorktreeCleanup` | every step of the removal of the private worktree of a proposal, beside programs that use its names |
| `Progress` | `Ingestion`, `Reconcile` and `Proposals` with fairness: what has to happen in the end |
| `CodexParser`, `ChatGPTImport`, `Discovery`, `Probes` | what comes in; composed in `Intake` |
| `Memories`, `ProjectFacts`, `Recall`, `RetryQueue` | what is known and given back; composed in `Knowledge` |
| `Database`, `Configuration`, `AgentsFile`, `McpBroker`, `WebBoundary`, `BoundedProcess`, `PublicSnapshot` | what the hub stands on and shows; composed, with `WorktreeCleanup`, in `Platform` |
| `MC...` | instances for TLC: files, archives, captures, nesting of projects, symmetry sets |
| `PendingCaptureProofs`, `IngestionProofs`, `ReconcileProofs`, `ProposalsProofs`, `IntakeProofs`, `KnowledgeProofs`, `PlatformProofs` | theorems about the module of the name and, for a composition, about its parts |
| `FoldTheorems` | theorems about folds over finite sets and sequences: the sums of probes and briefs, and the lines, reads and replays of the parser |

The modules meet in shared abstractions rather than in one product: `Ingestion` has for a stored
record only the project its `source_ref` is bound to, and what the capture of that record does to the
quarantine is in `PendingCapture` and to the memory rows in `Memories`; the batch of records it
commits is what `CodexParser` returns; `Reconcile` has for the Codex stage only the policy of each
scope's checkpoint, and how a pass gets there is `Ingestion`; its retry stage is `RetryQueue`, its
compaction stage `Memories`, its fact stage `ProjectFacts`; its proposal stage stores drafts, whose
life is `Proposals`; and the rows that `Recall` selects from may change under it as those modules change
them. `Intake`, `Knowledge`, `Platform` and `Progress` instantiate their components over separate
variables. As the components share no variable, an interleaving of two of them shows nothing that
neither shows alone, and the product would only multiply states: `focus` chooses the component that
moves and the variables of the others are null. Each action of a component is a disjunct of the
composition's `Next` (`focus = "queue" /\ Inst!A /\ Alone`), and a property of the composition says of the
component in focus what the component's own definition says.

Operators that no action uses and whose comment says "Mutant" are deliberately wrong variants of the
definition after them; they show that each property can fail.

### PendingCapture

State: `pending` (created_at of each quarantined claim), `history` (final states), `refs`
(`source_refs` of captures with their correlation), `receipts`, `current` (projects that are enabled
and in place). One action is one `BEGIN IMMEDIATE` transaction; a check that fails rolls it back, and
so is a stutter. The wall clock is not a variable: each action takes any instant of `Times`, so clocks
that jump are covered. A pending id is a fresh UUID, so the unique key of a row stands for it. Payloads
are their hashes.

| Action | Code |
|---|---|
| `CaptureUntrusted` | `CaptureService.capture` without verification: history and binding lookups, limits, insert |
| `IngestNew`, `IngestReplay` | `capture_prepared_on_connection` for a new record, and for one whose `source_ref` exists |
| `RecoverPending` | `PendingRecoveryService.recover`: the owner's mappings from claims to trusted records, all or none |
| `ExpirePending` | the stage of the reconcile: expiry in batches, trimming of the history |
| `ProjectChanges` | enabling, disabling, moving, as seen by the checks in the transactions |

### Ingestion and RecordLedger

State: the file (`inode`, records), installed parser `policy`, `registry` with `generation`, `present`
directories, `checkpoint`, `stored`, `receipts`, `deferred`, and the locals of each pass and of a
running recovery. A pass has the steps idle, source, generation, prepare, commit, as
`IngestionService.ingest` has: read the checkpoint and the file, read the generation, find the
projects (through a readonly snapshot that may fail), commit with every comparison of
`TrustedIngestionTransaction`. A lost race is repeated once, as the container does.
Records are model values; the cursor's prefix hash is the prefix itself; the project of a record is the
deepest registered project above its cwd (`Paths`).

`RecordLedger` says: a batch is delivered at once, each record is stored or put aside, only that makes
it acknowledged, and nothing stored or put aside is undone. The refinement mapping takes the set of
records with a project for `stored`, the records of all locators for `deferred`, and the prefix behind
the checkpoint for `acked`; `ImplementsLedger` is checked as a property.

### Reconcile

State: the lock, both markers, last success and report, the registry (`enabled`, `known` identity),
`home` (identity of what is at the path), the `scanned` policy of each scope, the retry queue, dormant
projects, the stage and flags of each run. `Step(r)` runs the next stage of run `r` with all outcomes the
code distinguishes (ok, issues, exception, failed write); the last is the completion transaction, with
its comparison of the snapshot and its compare-and-delete of the Codex token. `Environment` is the owner
(enable, disable, relink, switching Codex), the file system, captures that fail, upgrades and days.

Two abstractions: the generation is only ever compared for equality with the snapshot, so the model
keeps the answer (`drifted`); the time of the last success is kept as what `should_run` makes of it.
`rewritten` is a history variable: when, within a run, the marker was last written.

### Proposals

State: rows (`status`, `subject`, `plan`, `applied`), the lock, the owner's repository (`head`, `tip`,
`clean`), each proposal's branch `ref` and worktrees, and the step of every call. Calls of `apply`,
`recover` and `rollback` proceed through preflight, begin, branch, stage, verify, commit, check, cleanup,
mark, and through the recovery of an `applying` proposal, as `service.py` and `git_apply.py` do. Any step
may fail or be the last of its process. The owner commits, switches, edits, moves, deletes and checks
out proposal branches, and approves or rejects without the lock. `made` is a history variable.

A worktree is here one thing that is there, half there (its directory is gone but Git still lists it: `stale`)
or not there. How it comes to be half there is in `WorktreeCleanup`: the names of the directory and of its
metadata are looked at, moved aside and deleted one call at a time, any call may fail, and other programs may
take the names in between. `Proposals` takes over the outcomes of that module, and while nothing else shows
of the removal its steps are one action.

### Intake

* `CodexParser`. A file is a sequence of units of abstract lines, so that a read may stop within a line.
  `OpenRead`, `ParseRead` and `VerifyRead` are `read_incremental`: resume from the stored cursor if the
  prefix is still there and restart if not, feed the lines of one bounded chunk to `ProcessLine` (sessions,
  contexts, blocked turns, oversized lines), compare the file again. `ReplayDeferred`, `ReplayRecords` and
  `ReadRuntimeModel` are the other readers. Codex appends; something else truncates or replaces the file.
* `ChatGPTImport`. `Start` takes the generation and the rows, `VerifySnapshot` compares the directories,
  `HashArchive` and `ReadArchive` read the file under one stamp, and then `Decide` chooses branch and project
  and `CommitConversation` runs one transaction, whose guard (`Guarded`) compares generation and winners.
  Projects are enabled, bound and replaced, the archive is overwritten, and another import runs.
* `Discovery`. A walk that lists and canonicalises by path and reads metadata through descriptors (`OpenMetadata`,
  then `CheckComponents` once for each component, from the deepest up, and `CheckRoot`), beside `Change`:
  directories that become others or links, between any two of these looks. `placed` is a history variable: what
  was found in what since the metadata was opened.
* `Probes`. `ReserveStructure`, `Run`, `FinishRun`, `Close`, `Release` are the lease and its threads; the steps
  of the probe list, read headers, open candidates again, count, verify (`VerifyOpenCandidate`), aggregate and
  stop at budget or deadline, while the owner of the files writes logs, checkpoints and replaces.

### Knowledge

* `Memories`. `Prepare` and `Capture` are the two halves of a verified capture; `Compact` the steps of
  `CompactionService` (select dormant projects, one transaction per namespace that builds a retrospective from
  what fits, the final one that marks the project inactive); `SetLifecycle`, `ObserveChange` and `SetEnabled` the owner.
* `ProjectFacts`. `OpenAnchor`, the reads of the Git configuration, of Git and of files, `Stamp`, and
  `ObserveMany` (one transaction, with the checks that the directory is still registered); promotions are
  requested and approved. Files, configuration, directory and row change between any two.
* `Recall`. Two checks of the project around four searches, then the selection one comparison at a time, as the
  counter may fail at any call, after which the whole selection begins again with the conservative one.
* `RetryQueue`. `Enqueue`, `StartDrain` (selection and order), `OpenItem`, `CaptureItem`, `RecordFailure`, a
  kill between any two, projects disabled and moved.

### Platform

* `Database`. `Migrate` takes the next step of a process (begin, look at the history, one script, check) or
  kills it, in processes of two releases; `Read` the next step of a lock-free read (sidecars, stamps, a page, the
  stamps again), beside `WriteTransaction`, which writes to the log, and `CheckpointPage` and `EmptyLog`, which copy
  it page by page.
* `Configuration`. `Start`/`LinkDefault`/`UnlinkCandidate` publish the default file; `SetSourceEnabled` and
  `SaveSettings` read the revision, `LockAndRead` ... `SyncParent` replace under the lock, beside an editor
  that takes no lock, kills, and a power loss that may drop an entry that was not synchronised.
* `AgentsFile`. `Change`, the backup by link, the look at the target, `Replace`, beside an editor and kills.
* `McpBroker`. `ReadLine`, `DrainLine` and `RefuseLine` are the bounded reader; one action per branch of the handler.
* `WebBoundary`. `LoadToken` ... `LoadAfterRace` agree on the token file; a request enters, streams its body, is
  checked for its CSRF value and handled, while sessions are evicted.
* `BoundedProcess`. The parent's loop (`SendInput`, `ReadOutput`, `LoopExpires`, `Kill`, `Reap`), the child and a
  helper that keeps the pipe or leaves the group. `flavour` is which of the two functions runs.
* `PublicSnapshot`. A builder reserves, makes a branch, a worktree and its binding, writes, verifies, renames into
  place and, if anything fails, puts aside, inspects and removes or puts back, beside another builder and other
  programs that rename directories and move the branch.
* `WorktreeCleanup`. The removal at the end of an apply (`AskRegistered`, `ReadMetadata`, `ListWorktrees`,
  `StatTree`, `MoveTree`, `StatMetadata`, `MoveMetadata`, `CompareMetadata`, `LookAgain` and the deletions) and the
  same again by a recovery; a call that fails puts back what was moved, as far as the names are still free.

### Progress

`Ingestion`, `Reconcile` and `Proposals` with `FairSpec`, for liveness only.

## 3. Runs and bounds

| Run | Question | Instance |
|---|---|---|
| `quarantine` | All orders of claims, records, recovery, expiry and eviction, in two namespaces with equal ids and contents | one project, two agents, three claim ids, two source ids, two instants, limit 2, history of one |
| `ingestion` | Concurrent passes, changing registry, full deferred table; truncated or replaced files, moved directories and upgrades beside one pass; the refinement | two passes, two records, nested projects, batches of two, room for one deferred record, two moves, one failure |
| `reconcile` | Safety of markers and completions | two runs, one project, one scope, two identities, 2 events, 2 upgrades, 1 fault |
| `proposals` | What is applied is approved, exact, single and clean | two processes, two proposals, two signatures, 1 commit, 2 events, 2 faults |
| `progress` | What has to happen in the end | one pass, projects side by side, 1 move, 1 failure; one runner, one project, 1 event, 1 upgrade, 1 fault; two processes, one proposal, 1 commit, 2 events, 2 faults |
| `intake` | Parser, import, discovery, probes beside those who write what they read | twelve lines in eight session files, room for two contexts, one truncation or replacement; two importers, two nested projects, three archives, one change of the registry, one move; four directories within the root and one outside, two changes; two requests, two files, one of them nested, one change |
| `knowledge` | Memories, facts, recall, retries | one project, one namespace, three captures, two compactors; two scanners, two directories, one promotion, one change; three rows of one or four characters, two tasks, a budget of 6, at most three characters of a shortened row, one event; three items of which two fit in a drain |
| `platform` | Database, configuration, AGENTS file, broker, panel, processes, snapshot, removal of a worktree | two releases, one reader, two pages, one crash; two writers, three changes; two installers; lines one byte below, at and above the limit, three of them; two servers, two requests, one session; deadline 2, output 2, input 2, pipe 1; two builders, one fault, two swaps; two strays (a directory and a file), one other worktree, two changes by others, one fault |
| `reconcile_marker` | *violated*: a run leaves markers it did not serve | one runner, one project, 2 events |
| `progress_cleanup` | *violated*: what is applied again gets an outcome | one process, one proposal, 1 commit, 1 fault |
| `proposals_recover` | *violated*: Recover leaves no worktree | one process, one proposal, 1 event, 1 fault |
| `settings` | *violated*: no last write wins | two writers, 2 changes |

Why the bounds are enough to be of interest:

* Three claims and two sources are the least in which a claim is evicted from a history of one and
  submitted again while another one is verified; two agents with the same ids show that namespaces stay
  apart. With two instants, a window of 0 and a lifetime of 1, every instant is on one of the two sides of
  each boundary, and right at it. That the limits hold for all values and any number of projects is a theorem.
* Two records and two passes are the least in which one pass overtakes the other with part of its work: what
  is appended between the reads makes their batches one and two records long. Room for one deferred record makes
  the second one overflow; a nested project is the least in which registering one changes the owner of a record.
  `CONSTRAINT MovesBesideOnePass` lets the file, the directories and the parser change only beside a single pass
  that nothing has failed: the two dimensions together are too many states. That they do not add up to something
  worse is a theorem.
* A run of the reconcile is disturbed by an event before and one after its snapshot; two upgrades give a
  token that is replaced by another; two runners are needed for the lock, for a crash and for a run that
  writes the marker while another begins.
* One fault interrupts an apply and the second one its recovery; two processes compete for the lock; one
  commit of the owner makes a planned commit outdated.
* The session files hold what changes the meaning of a line: a session with an alias, a second context of the
  same or of another turn, a blocked or an oversized line between context and end, a turn that ends twice, one
  context too many. Reads of three units cut lines in every place. Three archives repeat a conversation with the
  same and with another content, with a cycle, with a nested project and with labels that are refused.
* Three captures open an issue, resolve it and open it again, and two failures that differ in a dynamic part
  share an entry; a source limit and a text limit that not all rows fit in make compaction partial.
* Three rows in two places and a budget of 6 give briefs in which everything fits, mandatory rows are cut, rows are
  dropped, and a row is shortened to the most that is allowed, with a counter that fails at any call. Two of three items in a drain show overtaking.
* A stray directory and a stray file are the two kinds of thing that may get a worktree's name, and the metadata
  of one other worktree may get the name of its metadata; two changes put one in a way and take it out again.
* Two pages are the least that can be mixed; two releases the least where one finds a script it does not know;
  two writers, installers, servers and builders the least that race; a third change of a file gives a race after
  which a third party still writes; three lines are the handshake and a call.

The counters called `Max...` that a comment names as bounds (of changes, moves, events, faults, crashes,
swaps, clocks, upgrades, commits) are bounds of the model, never of the code; the limits of the code
(capacity, history, deferred records, batch sizes, contexts, source limit, sessions, chunks, output) are
constants of their own and are small so that they are reached.

Symmetry is used for ids that are compared for equality only (claims and sources, passes, processes,
importers, scanners, compactors, writers, builders, pages), and never in runs with liveness. Deadlock is
checked in `quarantine`, `ingestion` and the reconcile runs. In the others the system
really stops: all proposals may be decided, an import, a walk or a process is over, and the bounded changes are used up.

Every property of a passing run has a mutant in `PROJECT.json`: a definition of the model, changed the way
a plausible slip would change its code, for which TLC finds the property violated.

## 4. Fairness

All of it is weak, and is stated in `Progress`; the runs without it check safety only.

* `IngestionFairness`: each pass. Every run of the reconcile calls `ingest` for every scope, and
  a call that runs takes its next step. Nothing is assumed of the owner, the files or the registry.
* `ReconcileFairness`: the passing of days, starting a run that is due (daily automation, every start of the
  control panel, and the MCP broker's `reconcile_if_due`) and each step of a run. `ReconcileProgress` assumes
  that the owner settles in the end (`<>[]Settled`), which the environment may or may not do. `Settled` is as
  strong as it is because a disabled project whose directory was replaced (discovery refuses it, without
  looking at `enabled`, `storage/projects.py:130`) and a retry item of a disabled project each keep every run
  incomplete.
* `ProposalFairness`: the steps of a call, and applying an interrupted proposal again once nobody else holds
  the lock. The code does not do that by itself: the operations guide asks the owner to. `ProposalProgress` is
  what that advice promises, except for a proposal whose cleanup has left its worktree listed without its directory
  (`Stranded`): finding 4 is that the advice does not help there.

## 5. What the passing runs show

* `quarantine`: the quarantine cannot wedge (`QuarantineSafe`): no claim waits that is final or bound, a record
  verifies one claim and a claim is verified by one record of its namespace, a receipt has its source, and all
  tables stay within their limits. Bindings outlive the bounded history (`BindingIsForever`), and a claim
  leaves only with a reason (`FinalizedWithReason`).
* `ingestion`: nothing behind the checkpoint is neither stored nor put aside, a receipt has its
  source, and locators stay bounded (`Handled`); two passes never move the checkpoint back
  (`CheckpointForward`); a record is stored where the registry of the commit puts it
  (`DecidedByCurrentRegistry`); repeated scans undo nothing (`NothingUndone`); every step is a step of
  `RecordLedger` (`ImplementsLedger`).
* `reconcile`: the Codex marker of an outdated scope and the catch-up of a project without identity are never
  lost (`MarkersKept`), nor any marker written after the snapshot (`LateMarkerKept`), and a run completes only
  while every enabled project is in place (`CompletionIsCurrent`).
* `proposals`: only an approved patch reaches Git (`OnlyApprovedRuns`); it is committed once, exactly that commit
  is recorded, and no private worktree is left (`AppliedOnce`); one proposal per signature is active
  (`OneActivePerSignature`).
* `progress`: every record is handled and a rescan gets to the end of the file, as long as no project lies in
  another (`IngestionProgress`); both markers are cleared again and again and a dormant project is compacted once
  the owner has settled (`ReconcileProgress`); an interrupted apply that is applied again gets an outcome, unless it is stranded
  (`ProposalProgress`).
* `intake`: records are those of one read of the file however it was cut, with a context of their own turn, and
  replays and the running model speak of the file that was read (`ParserIsExact`); a conversation is stored only
  for the project that the registry of its commit gives it (`DecidedByCurrentRegistry`) and its receipt stands for
  what was stored (`ReceiptsAccount`); a fingerprint is of a directory whose every component was found in the one above it since its file was read,
  below the root that is there (`FingerprintOfItsPath`; that all of them were there at one instant holds for up to
  two changes of the tree and is false for four, as the code looks at one after the other); one structure probe runs at a time, and its count is that of the files it listed
  (`ProbesAreExact`).
* `knowledge`: a project is inactive only when nothing of it is left to compact, every cold row is in one
  retrospective, and a resolved issue had been reported (`MemoriesAreKept`); the current fact of a slot is the last
  observed (`CurrentIsLatest`), read in the directory the project is bound to (`ReadWhereRegistered`); a brief keeps
  its budget and is the selection of one counter (`BriefAsCounted`) for a project that is still in place
  (`BriefOfLiveProject`); a queued capture is delivered once or kept, and failures do not overtake
  (`QueueDiscipline`).
* `platform`: a lock-free reader accepts only the committed content, whole (`AcceptsCommitted`); every script is run
  once, in order (`MigratedOnce`); a save keeps what its user could not see (`SavesKeepOthers`) and survives a power
  loss once it was reported (`ReportedSurvives`); the owner's text in `AGENTS.md` is kept, and
  nothing is replaced before there is a backup that is the owner's (`OwnerTextKept`); every request line gets one answer of its own
  (`OneAnswerPerLine`); servers agree on a token and a request is handled only for its live session
  (`BoundaryHolds`); output is whole and processes are stopped in time (`ProcessIsBounded`); a snapshot is whole
  or gone (`SnapshotAllOrNothing`), and nothing of others is removed (`OthersKept`); the removal of a worktree
  deletes no metadata of another one, and where it ends well nothing of its own is left (`CleanupHolds`).

## 6. Findings

Four runs end in a counterexample to a sentence of the documentation or a test. Each checks one property.

1. `reconcile_marker`: the design (docs/superpowers/specs/2026-07-12-codex-memory-hub-design.md:129) says a run
   must not clear a marker that came up during it. The run compares the generation with a snapshot taken only
   after discovery, facts, retries and Codex; a project enabled between those stages and the snapshot loses its
   marker to that run.
2. `proposals_recover`: docs/operations.md:340-343 says Recover cleans the private worktree up. After a crash
   between making the worktree and the commit, Recover marks the proposal failed and leaves the worktree.
3. `settings`: docs/security.md:66-69 says a concurrent managed change returns a conflict instead of the last
   write winning. A settings form is submitted without the revision it was rendered from (`web/routes.py:431`),
   and puts back every field that another change has set since.
4. `progress_cleanup`: tests/integration/test_proposal_git.py:755 calls a cleanup that fails after the commit
   recoverable, and docs/operations.md:340 says to apply the proposal again. When a call of `_git_cleanup` fails
   before the metadata are removed, it puts back what it moved, and the step after it removes the directory all the
   same (`improvement/git_apply.py:1534`) while Git lists the worktree; every later apply or recovery raises at that
   entry, and the proposal stays `applying` until somebody prunes the worktree.

## 7. Proofs

All theorems are of the specifications that TLC checks, for every value of the constants under the
assumptions below. The sets of projects, records, runners, workers, builders, pages and so on need not be finite
except where something is counted. Every state invariant of a passing run, every action property and the refinement
are the conclusion of a theorem; only what is to happen in the end is left to TLC.

What is assumed of the constants, and why the code justifies it:

* Null is no value: `NONE` stands for SQL's null, Python's `None` or a missing file, and is none of the values of
  that place (`NoneAssumption`, parts of `DatabaseAssumption`, `ConfigurationAssumption`, `AgentsAssumption`,
  `WebAssumption`, `SnapshotAssumption`, `CleanupAssumption`, `ImportAssumption`).
* Names of two kinds differ: the slot of a promoted rule is not that of a scan (`PromotionsAssumption`: the former is
  made of the promotion's id), a link is no directory (`ScanAssumption`), what others put at a name is not the
  service's own (`CleanupAssumption`), Codex is an agent (`CodexAssumption`).
* Limits are natural numbers, positive where the code's own checks make them so (`SizesAssumption`,
  `BoundsAssumption`, `MemoriesAssumption`, `RetryAssumption`, `ProcessAssumption`, `BrokerAssumption`): batch sizes
  and timeouts are at least one, and a full table or a drain of no items is allowed. Instants are integers
  (`TimesAssumption`).
* `PathsAssumption`: a record's cwd has a sequence of directories above it, and what a record may be deferred for is a
  set of projects; null is no project.
* `ParserAssumption`: the limits of the parser are numbers, those of records and lines positive, and a record that is
  parsed is no longer than one that is passed over, all of which the constructor checks (`adapters/codex.py:194-219`);
  a line has a positive length and is of one of five kinds; null is no directory.
* `ProbeAssumption`: databases hold a number of records, the nested candidates are candidates, and null is neither a
  number nor a file. `ImportAssumption` also says that an archive is a sequence.
* `RecallAssumption`: a project has finitely many rows, numbered in their order (they are those of a database); contents
  are not empty; the budget, the conservative counter's tokens and the characters a shortened content keeps are numbers.
* `MemoriesAssumption`: a capture is stored sooner after it was prepared than a project is dormant. The one is a matter
  of seconds, the other of days; the model would otherwise allow a project to be drained under a capture.

**The core.**

* **PendingCaptureProofs**: `TypeCorrectness`, `Invariance`, `Provenance`, `NeverWedged`, `Capacity`,
  `BindingsAreForever`, and `QuarantineIsSafe`, which joins them to the invariant that the run checks;
  `LeavesWithReason`. The properties are not inductive one by one: that a trusted record can be bound needs that
  its claim is not bound already, which rests on claims that wait being unbound, which rests on eviction from the
  history not forgetting bindings. `IInv` is their conjunction with types, `OneSourcePerClaim` and `ReceiptHasSource`;
  there is one lemma per action, and lemmas about the finalization and the trimming of the history that several
  actions share. `Capacity` adds that finite sets shrink by the excess that is removed; `LeavesWithReason` that a
  recovery binds every claim it takes away (`RecoveryBinds`).
* **IngestionProofs**: `Invariance`, `HandledAlways`, `NothingIsUndone`, `CheckpointMovesForward`,
  `CommitsByCurrentRegistry` and `LedgerImplemented`, the refinement of `RecordLedger`. That nothing behind the
  checkpoint is lost is decided long before the commit that could lose it: the pass has read a cursor, a batch and the
  answers of the registry, and each may be out of date. `IInv` says what survives: the cursor a pass wants to write
  covers its batch and the cursor it read (`Covered`); while the generation is the one it saw its answers hold
  (`LookedUp`); while nothing was rewritten every cursor is a prefix of the file and a pass moves its own forward
  (`Follows`, `Forward`); a recovery still has pending rows of its own record (`Recovering`). In the refinement
  every step that writes the tables maps to delivering a batch or to recovering a record, and every other one to a
  stutter.
* **ReconcileProofs**: `TypeCorrectness`, `Invariance`, `CodexMarkerOutlives`, `UnboundStaysDue` and, from both,
  `MarkersStayDue`; `CompletionsAreCurrent`; `LateMarkersAreKept`. The Codex marker is deleted only if it equals the
  token of the run; why that loses nothing needs to know what the token says. `IInv` adds `MarkerNamesPolicy` (a marker
  is the stamp of the installed policy) and, per run (`RunnerInv`), that it holds the lock, that its token is the stamp
  of its own policy, that a policy installed since has left a marker, that with Codex off the run is pending
  from the start, and that scopes have the run's policy if its Codex stage did not flag it. The completion is
  the only step that needs all five. `LateMarkersAreKept` rests on `LateIsDrift`: a marker written after the
  snapshot came with a generation that is not the snapshot's.
* **ProposalsProofs**: `TypeCorrectness`, `Invariance`, `OnlyApprovedTouchGit`, `PatchCommittedOnce`,
  `AppliedCommitsAreExact`, `AppliedLeavesNoWorktree` and, from the last three, `AppliedExactlyOnce`;
  `SignaturesStayUnique`. `IInv` adds that begun proposals have a plan (`Planned`), that a commit of the service on
  a branch was made by it (`RefMade`), and per worker that it holds the lock (`Holds`), that it alone moves its
  proposal out of applying and has committed nothing before its own commit (`Owns`), and that what it is about to
  record is exact (`Found`).

**The compositions.** A theorem about `Intake`, `Knowledge` or `Platform` has three steps: while the focus is on a
component it moves alone (`MemoriesMove`, `RetriesMove`, ...); the component's own invariant is inductive under that
component's `Next`; and the focus never changes, so that the property of the composition follows.

* **IntakeProofs**: `ReceiptsAlwaysAccount` and `DecidedByTheRegistry` from `ImportInv`, whose parts say for each step
  of an import what is still known: the rows it took are the registry's while the generation is (`AsSeen`), the
  archive under its stamp is the one it hashed (`AsHashed`), and what is about to be committed is what those rows say
  of the conversation (`AsDecided`). `FingerprintsAreOfTheirPath` from `Opened`: the components that were looked at a
  second time were where they had been opened, although each at a time of its own. `OneProbeAtATime` from `LeaseInv`:
  the lock is held by exactly one request in one of three situations, of which the lease, the thread that runs and the
  thread that closes each know a part. `ProbesAlwaysExact` from `ProbeInv`: a probe knows of each candidate what it was
  when it was listed, and versions only grow (`AsListed`); as long as nothing was warned about, what it has counted is
  all but what it has still to look at (`Exact`); and a file that is open is the candidate that was compared (`Reading`).
  That a file compared before and after was the same in between follows from the first.
  `ParserAlwaysExact` is the largest proof. It has four layers, each about a fold. *Lines*: a file of one more unit has
  the lines of before and the one that this unit completes (`LinesGrow`), so that whether a read may be cut
  somewhere is seen from the last unit alone (`Cut`). *States*: after any lines the contexts of a state are of its
  session, and each that is not blocked was given by a line and contradicted by none since (`Good`), which is why a record made
  at the end of its turn has a context of its own (`Honest`). *Reads*: what a read makes of further units keeps
  `SoFar`, that the state is the one a single read of all the lines would be in (`Chunked`). Two versions of this
  are needed. A replay goes through the file in one process and is in exactly the same state (`Replayed`). A
  checkpoint was written and read back by another process, which sorts the turns: its state has the same contexts in
  another order (`View`), which agree as long as no context is evicted; hence the exemption of `Crowded`. *Answers*:
  what the search for the running model has heard is what the same lines make the parser keep (`Scanned`). `CodexInv` is
  that every checkpoint, read and answer is so of the bytes it anchors, while the file may be extended, rewritten
  and replaced at any time.
* **KnowledgeProofs**: `MemoriesKept` from `MemoriesInv`: `Timely` (what is prepared is stored before its project
  could be dormant), `Surveyed` (a compactor whose project nobody disturbed knows the namespaces of all its active
  rows: the reason why marking it inactive leaves nothing), `KeysUnique` and `Folded` (a row a retrospective speaks of
  is never active again). `BriefsAreLive`. `BriefsAreAsCounted` from `RecallInv`: while every answer since the
  selection began was that of one counter (`Sure`), all beyond the upper bound of a binary search does not fit and its
  lower bound does (`PrefixSearch`, `LimitSearch`), so that it ends at the greatest (`LargestSize`, `LargestLimit`);
  and the optional rows that were tried are those before all the others, each taken if it fitted (`OptionalSoFar`).
  Both need that less fits where more does (`FewerFit`): characters grow with the rows and with the limit, a statement
  about a sum over a finite set. A counter that changes its answer ends `Sure`, and only then may a brief be enforced
  or trimmed. `QueueIsDisciplined` from `RetryInv`: an item waits once and was not delivered, what a drain still has
  to try waits and is there once (`StillWaiting`), and the project of an open transaction is enabled (`Opened`).
  `CurrentIsAlwaysLatest` and `FactsAreReadWhereRegistered` from `FactsInv`: for each slot what is cold is not newer
  than what is current (`Ordered`), a scan's findings are of the directory it opened, one for each slot (`FoundHere`),
  and Git was asked under a configuration found safe (`AskedSafely`). The configuration is read before and after Git,
  which shows only that its version is the same twice; that it was the same in between needs versions that only grow.
* **PlatformProofs**, one invariant for each component:
  `DatabaseInv` (`ScriptsRunOnce`, `ReadersAcceptCommitted`): the log holds what was last committed or is empty and all
  pages do; a process at a script has seen to all before it (`RunSoFar`); while the stamps are those a reader took, its
  pages are those of the file (`AsStamped`).
  `ConfigurationInv` (`ReportedSavesSurvive`, `SavesKeepWhatOthersSaved`): what the disk holds of names not yet
  synchronised (`DiskHolds`), and what a writer under the lock merged is what it read with what it was asked
  (`WriterInv`).
  `AgentsInv` (`OwnersTextIsKept`): once one file was replaced there is a backup, and an installer that is past the
  backup knows whose it is (`InstallerInv`).
  `BrokerInv` (`EveryLineAnsweredOnce`): what is left of a long line is measured (`Measured`), and the handshake's state
  is what the lines before said (`Remembered`).
  `WebInv` (`BoundaryAlwaysHolds`): one server at a time makes a token (`OneMaker`).
  `ProcessInv` (`CommandsAreBounded`): nothing of what was written is lost between pipe and parent (`Pipes`), who may
  still live at which step (`Killed`), and past the deadline each tick was paid for with a step to the end (`InTime`).
  `SnapshotInv` (`SnapshotIsAllOrNothing`, `OthersAreKept`): one run has the branch (`OneOwner`), a directory is at one
  of its own places (`AtHome`), what was put aside is watched by its run or back (`AsideOrBack`, `OneAside`), and while
  nobody interferes a run finds everything where it left it (`Alone`, `InPlace`), which is what makes a roll back
  complete.
  `CleanupInv` (`OnlyTheOwnWorktreeGoes`): a thing is at one place (`OnePlace`), the call knows what it looked at
  (`Selected`), a cleanup that goes well has not lost the tree (`NoneLost`), the directory goes when nothing is
  registered (`NotRegistered`), and a recovery that finds the registration alone fails (`StaleFails`).

The inductive invariants were checked with TLC before they were proved, the larger ones on instances of their own
(`MemoriesInv` 699,172 states, `FactsInv` 5.1 million, `SnapshotInv` 12.8 million with three builders). In this way the
claim that all of a fingerprint's path was there at one instant was found to be an effect of a bound.

Two techniques are worth knowing when reading. That a finite set of numbers has a least element, and with it induction
over numbers, comes from the well-foundedness of `<` and a minimal counterexample (`LeastExists`), since the library's
induction rules take an operator as a parameter. And some definitions are written for the prover: a drain selects any
order that is in turn (`InTurn`) rather than sorting, and rows change state by a union and not by nested `EXCEPT`.

* **FoldTheorems** is about the folds of the community modules, which take an element out of a finite set by a choice
  and fold the rest: the result is the same wherever the operations agree (`FoldSame`), a property that every step
  keeps holds of it (`FoldInduction`), any element may be taken out first if the order does not matter (`FoldTake`), and a
  fold over a sequence does the elements before and then the last one (`FoldAppend`), which gives induction along a sequence
  (`SeqInduction`). The folds are recursive functions, so these are inductions over the size of a set, done with a
  minimal counterexample. No theorem here has an operator as a parameter, since the provers could not
  instantiate it: the operation, the choice and the property are CONSTANTS of the module, and the proofs have one
  instance of it for each fold they speak of, in which the property takes what it depends on as an argument. A sum of integers
  is one fold (`SumType`, `SumTake`), and grows with the summands and with the set (`SumMonotone`).

**Only model-checked.** Liveness: `IngestionProgress`, `ReconcileProgress` and `ProposalProgress`, since the prover does
not reach fairness and ENABLED.

The attempt to prove `ParserIsExact` corrected a part of it: that a replay agrees with one read of the
whole file (`ReplayAgrees`) is false with longer lines, when what follows the last complete line is rewritten to the
same length between the parse and the comparison of the file. It is now said of the bytes that the answer anchors,
which are what the code compares (`source_hash`).

## 8. Not modelled, and known limits

Parsing of JSON, unpacking, rendering, redaction and other pure functions of text, read-only inspections
(automation, doctor), the analyzer's thresholds, the command line, the demo and the release scripts are left out:
no property here depends on them. Full-text search, the patch validator, the sandbox, the previews, the
wiring of the container and the wording of reports are left out of the components that are modelled. Git, SQLite and the file
system are external; what the model has of them is what the code relies on: transactions that are serial and
atomic, `flock` that a dying process releases, rename and link that are atomic, `git worktree` and refs that may
change at any time through the owner.

Met while modelling; no sentence of the repository promises otherwise, and the properties say so where they
make an exception:

* Ingestion: a record stored under an outer project whose cwd now lies in a nested registered one is refused with
  its whole batch on every pass (`services/capture.py:875`), so that a rescan never gets past it.
* Reconcile: the fact scan warns about every disabled project whose directory exists (`services/reconcile.py:582`);
  a warning makes the run degraded, and a degraded run does not compact.
* Parser: with more turns than contexts are kept for, the one dropped after a resumption is the alphabetically
  first one (`adapters/codex.py:1066`); `Crowded` exempts that.
* Import: a conversation stored with another content stops the import of its archive; `RefuseConversation` is that.
* Compaction: an optional entry that never fits keeps its project from becoming inactive
  (`services/compaction.py:425`); a resolution of an issue that has gone cold is recorded as not found. The run
  assumes that a capture is stored within `MaxGap`, less than the days after which a project is dormant.
* Facts: the time of a scan is taken after the reading, and a fact whose evidence disappeared stays current.
* Worktrees: a directory that gets the worktree's name between the look and the rename is moved aside and stays
  under its `.proposal-cleanup-` name (`improvement/git_apply.py:1567`), since it is put back only if it is what was
  looked at.
* Discovery: markers are looked up by path and may be those of another directory; only fingerprints are exact.
* Configuration: a crash between link and unlink of the default file leaves a second name, and the file is refused
  until that is removed (`container.py:929-933`); a retry after an uncertain commit finds its revision and reports
  success without synchronising (`config.py:150-153`); what an editor writes between the last look and the
  replacement is lost, which `late` exempts. The same holds for `AGENTS.md` (`integration/agents.py`), where a change
  that fails after making the backup leaves the document of that instant as the backup for ever.
* Retries: when recording a failure fails, its item stays first; a steady stream of new items starves those that
  fail; an item of a disabled project stays.
* Panel: a token file that is written in part is refused until it is removed (`security/web.py:131`), and two tokens
  may be in use after a failed synchronisation (149-156, `withdrawn`). A second cancellation of the shutdown is not
  modelled.
* Recall: two searches are two snapshots (`services/recall.py:165-184`); a brief may hold rows that never were
  active together.
* Processes: a command whose pipes fail is not killed with its group when it is gone already
  (`improvement/git_apply.py:1989-2003`), and one that succeeds may leave helpers.
* Snapshot: a fault between the creation of the branch and its return leaves the branch, and one while a directory
  is taken away leaves it under the name it was put aside with; a parent of the worktree that is replaced, and a branch moved away and
  back, are not modelled.

`PROJECT.json` gives what is left out of each part of the system.

## 9. Plan

1. **Done**: all modules of section 2, their composition and their runs; the proofs of section 7.
2. What section 8 says of the components that are modelled in part, where it turns out to carry state.
