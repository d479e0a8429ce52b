----------------------------- MODULE Platform -----------------------------
(* What the hub stands on and shows: its database, its configuration and    *)
(* the AGENTS file it writes into, the MCP broker and the control panel,    *)
(* the processes it runs, the snapshot that its release is published from,  *)
(* and the private worktree of a proposal that is removed after an apply.   *)
EXTENDS Integers, Sequences

CONSTANTS
  Processes, Known, Readers, Pages, MaxWrites, MaxCrashes,   \* the database
  Writers,                                                   \* the configuration
  Installers, Launcher, Texts,                               \* the AGENTS file
  MaxChanges,                                                \* bound on the changes of either
  MaxLine, Items, MaxLines,                                  \* the broker
  Servers, Main, Requests, MaxSessions, MaxChunks, MaxMade,  \* the panel
  Timeout, MaxOutput, MaxInput, PipeSize,                    \* the processes
  Builders, MaxSwaps,                                        \* the snapshot
  MaxFaults,                                                 \* bound on the faults of both
  Strays, Worktrees, Directories, MaxMeddling,               \* the removal of a worktree
  NONE

VARIABLES
  focus,    \* the component that moves
  latest, main, mainStamp, wal, walStamp, migrating, reading, crashes,
  file, disk, lock, save, late, promised,
  agents, backup, change, surprised, replaced,
  asked, left, state, initializeSeen, initialized, answers, recorded,
  tokenFile, server, tokens, withdrawn, sessions, made, request,
  flavour, input, parent, child, helper, stdin, stdout, written, clock,
  at, content, gitdir, ref, clean, aside, pc, todo, bound, created, faults,
  swaps,
  named, hidden, removed, call, meddled, failing

Db == INSTANCE Database
Config == INSTANCE Configuration
Agents == INSTANCE AgentsFile WITH
  late <- surprised, Writers <- Installers
Broker == INSTANCE McpBroker
Web == INSTANCE WebBoundary WITH
  file <- tokenFile
Process == INSTANCE BoundedProcess
Snapshot == INSTANCE PublicSnapshot
Cleanup == INSTANCE WorktreeCleanup WITH
  at <- named, changes <- meddled, faults <- failing, MaxChanges <-
  MaxMeddling

(* Null is none of the things that it stands for the absence of: a content  *)
(* of the database, a document and a file of the configuration, a writer, an *)
(* AGENTS file and its backup, a token file. A release packages some number *)
(* of scripts, and a form may have some number of chunks.                   *)
ASSUME DatabaseAssumption ==
  /\ Known \in [Processes -> Nat]
  /\ NONE \notin [schema : Seq(Nat), rows : Nat]
ASSUME ConfigurationAssumption ==
  LET documents == [config : Config!Configs, layout : {"hub", "edited"}]
  IN NONE \notin documents \cup [doc : documents, stamp : Nat, links : {1, 2},
                                synced : BOOLEAN] \cup Writers
ASSUME AgentsAssumption ==
  LET documents == [above : Seq(Texts), block : Agents!Blocks, below : Seq(Texts)]
  IN NONE \notin [doc : documents, stamp : Nat] \cup [owned : BOOLEAN, links : {1, 2}]
ASSUME WebAssumption == MaxChunks \in Nat /\ NONE \notin [token : Nat, whole : BOOLEAN]

(* A command has some time, and its caller an amount of input.              *)
ASSUME ProcessAssumption ==
  Timeout \in Nat \ {0} /\ MaxOutput \in Nat /\ MaxInput \in Nat

(* A line may have some number of bytes.                                    *)
ASSUME BrokerAssumption == MaxLine \in Nat

(* Null is no directory and no branch, and others do something some number   *)
(* of times.                                                                *)
ASSUME SnapshotAssumption ==
  /\ MaxSwaps \in Nat
  /\ NONE \notin Snapshot!Inodes
                 \cup [oid : {"snapshot", "other"}, by : Builders \cup {NONE}]

(* What others put at the names of a worktree and of its metadata is neither *)
(* of these, and no metadata are at both.                                   *)
ASSUME CleanupAssumption ==
  /\ {"tree", "metadata", "husk", NONE} \cap (Strays \cup Worktrees) = {}
  /\ NONE \notin {"tree", "metadata", "husk"} /\ Strays \cap Worktrees = {}

databaseVars == <<latest, main, mainStamp, wal, walStamp, migrating, reading,
                  crashes>>
configurationVars == <<file, disk, lock, save, late, promised>>
agentsVars == <<agents, backup, change, surprised, replaced>>
brokerVars == <<asked, left, state, initializeSeen, initialized, answers,
                recorded>>
webVars == <<tokenFile, server, tokens, withdrawn, sessions, made, request>>
processVars == <<flavour, input, parent, child, helper, stdin, stdout,
                 written, clock>>
snapshotVars == <<at, content, gitdir, ref, clean, aside, pc, todo, bound,
                  created, faults, swaps>>
worktreeVars == <<named, hidden, removed, call, meddled, failing>>
vars == <<focus, databaseVars, configurationVars, agentsVars, brokerVars,
          webVars, processVars, snapshotVars, worktreeVars>>

DbIdle ==
  /\ latest = NONE /\ main = NONE /\ mainStamp = NONE /\ wal = NONE
  /\ walStamp = NONE /\ migrating = NONE /\ reading = NONE /\ crashes = NONE
ConfigIdle ==
  /\ file = NONE /\ disk = NONE /\ lock = NONE /\ save = NONE /\ late = NONE
  /\ promised = NONE
AgentsIdle ==
  /\ agents = NONE /\ backup = NONE /\ change = NONE /\ surprised = NONE
  /\ replaced = NONE
BrokerIdle ==
  /\ asked = NONE /\ left = NONE /\ state = NONE /\ initializeSeen = NONE
  /\ initialized = NONE /\ answers = NONE /\ recorded = NONE
WebIdle ==
  /\ tokenFile = NONE /\ server = NONE /\ tokens = NONE /\ withdrawn = NONE
  /\ sessions = NONE /\ made = NONE /\ request = NONE
ProcessIdle ==
  /\ flavour = NONE /\ input = NONE /\ parent = NONE /\ child = NONE
  /\ helper = NONE /\ stdin = NONE /\ stdout = NONE /\ written = NONE
  /\ clock = NONE
SnapshotIdle ==
  /\ at = NONE /\ content = NONE /\ gitdir = NONE /\ ref = NONE
  /\ clean = NONE /\ aside = NONE /\ pc = NONE /\ todo = NONE
  /\ bound = NONE /\ created = NONE /\ faults = NONE /\ swaps = NONE
CleanupIdle ==
  /\ named = NONE /\ hidden = NONE /\ removed = NONE /\ call = NONE
  /\ meddled = NONE /\ failing = NONE

(* The components share no variable, so each is followed on its own and the *)
(* others are idle.                                                         *)
Init ==
  \/ /\ focus = "database"
     /\ Db!Init
     /\ ConfigIdle /\ AgentsIdle /\ BrokerIdle /\ WebIdle /\ ProcessIdle
     /\ SnapshotIdle /\ CleanupIdle
  \/ /\ focus = "configuration"
     /\ Config!Init
     /\ DbIdle /\ AgentsIdle /\ BrokerIdle /\ WebIdle /\ ProcessIdle
     /\ SnapshotIdle /\ CleanupIdle
  \/ /\ focus = "agents"
     /\ Agents!Init
     /\ DbIdle /\ ConfigIdle /\ BrokerIdle /\ WebIdle /\ ProcessIdle
     /\ SnapshotIdle /\ CleanupIdle
  \/ /\ focus = "broker"
     /\ Broker!Init
     /\ DbIdle /\ ConfigIdle /\ AgentsIdle /\ WebIdle /\ ProcessIdle
     /\ SnapshotIdle /\ CleanupIdle
  \/ /\ focus = "web"
     /\ Web!Init
     /\ DbIdle /\ ConfigIdle /\ AgentsIdle /\ BrokerIdle /\ ProcessIdle
     /\ SnapshotIdle /\ CleanupIdle
  \/ /\ focus = "process"
     /\ Process!Init
     /\ DbIdle /\ ConfigIdle /\ AgentsIdle /\ BrokerIdle /\ WebIdle
     /\ SnapshotIdle /\ CleanupIdle
  \/ /\ focus = "snapshot"
     /\ Snapshot!Init
     /\ DbIdle /\ ConfigIdle /\ AgentsIdle /\ BrokerIdle /\ WebIdle
     /\ ProcessIdle /\ CleanupIdle
  \/ /\ focus = "worktree"
     /\ Cleanup!Init
     /\ DbIdle /\ ConfigIdle /\ AgentsIdle /\ BrokerIdle /\ WebIdle
     /\ ProcessIdle /\ SnapshotIdle

DbAlone ==
  UNCHANGED <<focus, configurationVars, agentsVars, brokerVars, webVars,
              processVars, snapshotVars, worktreeVars>>
ConfigAlone ==
  UNCHANGED <<focus, databaseVars, agentsVars, brokerVars, webVars,
              processVars, snapshotVars, worktreeVars>>
AgentsAlone ==
  UNCHANGED <<focus, databaseVars, configurationVars, brokerVars, webVars,
              processVars, snapshotVars, worktreeVars>>
BrokerAlone ==
  UNCHANGED <<focus, databaseVars, configurationVars, agentsVars, webVars,
              processVars, snapshotVars, worktreeVars>>
WebAlone ==
  UNCHANGED <<focus, databaseVars, configurationVars, agentsVars, brokerVars,
              processVars, snapshotVars, worktreeVars>>
ProcessAlone ==
  UNCHANGED <<focus, databaseVars, configurationVars, agentsVars, brokerVars,
              webVars, snapshotVars, worktreeVars>>
SnapshotAlone ==
  UNCHANGED <<focus, databaseVars, configurationVars, agentsVars, brokerVars,
              webVars, processVars, worktreeVars>>
CleanupAlone ==
  UNCHANGED <<focus, databaseVars, configurationVars, agentsVars, brokerVars,
              webVars, processVars, snapshotVars>>

Next ==
  \/ focus = "database" /\ Db!WriteTransaction /\ DbAlone
  \/ focus = "database" /\ Db!EmptyLog /\ DbAlone
  \/ \E p \in Pages :
       \/ focus = "database" /\ Db!CheckpointPage(p) /\ DbAlone
  \/ \E p \in Processes :
       \/ focus = "database" /\ Db!Migrate(p) /\ DbAlone
  \/ \E r \in Readers :
       \/ focus = "database" /\ Db!Read(r) /\ DbAlone
  \/ focus = "configuration" /\ Config!Edit /\ ConfigAlone
  \/ \E w \in Writers, kind \in {"settings", "setup", "toggle"} :
       focus = "configuration" /\ Config!Load(w, kind) /\ ConfigAlone
  \/ \E w \in Writers :
       \/ focus = "configuration" /\ Config!Start(w) /\ ConfigAlone
       \/ focus = "configuration" /\ Config!LinkDefault(w) /\ ConfigAlone
       \/ focus = "configuration" /\ Config!UnlinkCandidate(w) /\ ConfigAlone
       \/ focus = "configuration" /\ Config!SetSourceEnabled(w) /\ ConfigAlone
       \/ focus = "configuration" /\ Config!SaveSettings(w) /\ ConfigAlone
       \/ focus = "configuration" /\ Config!LockAndRead(w) /\ ConfigAlone
       \/ focus = "configuration" /\ Config!WriteTemporary(w) /\ ConfigAlone
       \/ focus = "configuration" /\ Config!CheckLatest(w) /\ ConfigAlone
       \/ focus = "configuration" /\ Config!Replace(w) /\ ConfigAlone
       \/ focus = "configuration" /\ Config!SyncParent(w) /\ ConfigAlone
       \/ focus = "configuration" /\ Config!Kill(w) /\ ConfigAlone
  \/ focus = "configuration" /\ Config!PowerLoss /\ ConfigAlone
  \/ focus = "agents" /\ Agents!Edit /\ AgentsAlone
  \/ \E w \in Installers :
       \/ focus = "agents" /\ Agents!Change(w) /\ AgentsAlone
       \/ focus = "agents" /\ Agents!CheckBackup(w) /\ AgentsAlone
       \/ focus = "agents" /\ Agents!LinkBackup(w) /\ AgentsAlone
       \/ focus = "agents" /\ Agents!UnlinkTemporary(w) /\ AgentsAlone
       \/ focus = "agents" /\ Agents!CheckTarget(w) /\ AgentsAlone
       \/ focus = "agents" /\ Agents!Replace(w) /\ AgentsAlone
       \/ focus = "agents" /\ Agents!Kill(w) /\ AgentsAlone
  \/ focus = "broker" /\ Broker!ReadLine /\ BrokerAlone
  \/ focus = "broker" /\ Broker!DrainLine /\ BrokerAlone
  \/ focus = "broker" /\ Broker!RefuseLine /\ BrokerAlone
  \/ focus = "broker" /\ Broker!Malformed /\ BrokerAlone
  \/ focus = "broker" /\ Broker!HandleNotification /\ BrokerAlone
  \/ focus = "broker" /\ Broker!Initialize /\ BrokerAlone
  \/ focus = "broker" /\ Broker!UnknownMethod /\ BrokerAlone
  \/ focus = "broker" /\ Broker!NotInitialized /\ BrokerAlone
  \/ focus = "broker" /\ Broker!Ping /\ BrokerAlone
  \/ focus = "broker" /\ Broker!CallTool /\ BrokerAlone
  \/ focus = "broker" /\ Broker!NewSession /\ BrokerAlone
  \/ \E w \in Servers :
       \/ focus = "web" /\ Web!LoadToken(w) /\ WebAlone
       \/ focus = "web" /\ Web!CreateToken(w) /\ WebAlone
       \/ focus = "web" /\ Web!WriteToken(w) /\ WebAlone
       \/ focus = "web" /\ Web!SyncToken(w) /\ WebAlone
       \/ focus = "web" /\ Web!LoadAfterRace(w) /\ WebAlone
       \/ focus = "web" /\ Web!Stop(w) /\ WebAlone
  \/ \E r \in Requests, supplied \in 1..MaxMade :
       \/ focus = "web" /\ Web!LogIn(r, supplied) /\ WebAlone
       \/ focus = "web" /\ Web!RequireCsrf(r, supplied) /\ WebAlone
  \/ \E r \in Requests, cookie \in 1..MaxMade, safe, body, sameOrigin \in BOOLEAN :
       focus = "web" /\ Web!Enter(r, cookie, safe, body, sameOrigin) /\ WebAlone
  \/ \E r \in Requests :
       \/ focus = "web" /\ Web!ReceiveChunk(r) /\ WebAlone
       \/ focus = "web" /\ Web!Handle(r) /\ WebAlone
       \/ focus = "web" /\ Web!EndRequest(r) /\ WebAlone
       \/ focus = "web" /\ Web!Again(r) /\ WebAlone
  \/ focus = "process" /\ Process!ChildWrites /\ ProcessAlone
  \/ focus = "process" /\ Process!ChildReads /\ ProcessAlone
  \/ focus = "process" /\ Process!ChildCloses /\ ProcessAlone
  \/ focus = "process" /\ Process!ChildForks /\ ProcessAlone
  \/ focus = "process" /\ Process!HelperMoves /\ ProcessAlone
  \/ focus = "process" /\ Process!Launch /\ ProcessAlone
  \/ focus = "process" /\ Process!LoopExpires /\ ProcessAlone
  \/ focus = "process" /\ Process!SendInput /\ ProcessAlone
  \/ focus = "process" /\ Process!ReadOutput /\ ProcessAlone
  \/ focus = "process" /\ Process!LoopFails /\ ProcessAlone
  \/ focus = "process" /\ Process!AwaitExit /\ ProcessAlone
  \/ focus = "process" /\ Process!Kill /\ ProcessAlone
  \/ focus = "process" /\ Process!Reap /\ ProcessAlone
  \/ focus = "process" /\ Process!Tick /\ ProcessAlone
  \/ focus = "snapshot" /\ Snapshot!Swap /\ SnapshotAlone
  \/ focus = "snapshot" /\ Snapshot!MoveRef /\ SnapshotAlone
  \/ focus = "snapshot" /\ Snapshot!ChangeSource /\ SnapshotAlone
  \/ \E b \in Builders :
       \/ focus = "snapshot" /\ Snapshot!Run(b) /\ SnapshotAlone
  \/ focus = "worktree" /\ Cleanup!AskRegistered /\ CleanupAlone
  \/ focus = "worktree" /\ Cleanup!ReadMetadata /\ CleanupAlone
  \/ focus = "worktree" /\ Cleanup!ListWorktrees /\ CleanupAlone
  \/ focus = "worktree" /\ Cleanup!StatTree /\ CleanupAlone
  \/ focus = "worktree" /\ Cleanup!MoveTree /\ CleanupAlone
  \/ focus = "worktree" /\ Cleanup!StatMetadata /\ CleanupAlone
  \/ focus = "worktree" /\ Cleanup!MoveMetadata /\ CleanupAlone
  \/ focus = "worktree" /\ Cleanup!CompareMetadata /\ CleanupAlone
  \/ focus = "worktree" /\ Cleanup!LookAgain /\ CleanupAlone
  \/ focus = "worktree" /\ Cleanup!DeleteMetadata /\ CleanupAlone
  \/ focus = "worktree" /\ Cleanup!AskUnregistered /\ CleanupAlone
  \/ focus = "worktree" /\ Cleanup!DeleteTree /\ CleanupAlone
  \/ focus = "worktree" /\ Cleanup!UndoMetadata /\ CleanupAlone
  \/ focus = "worktree" /\ Cleanup!UndoTree /\ CleanupAlone
  \/ focus = "worktree" /\ Cleanup!RestoreTree /\ CleanupAlone
  \/ focus = "worktree" /\ Cleanup!LookForDirectory /\ CleanupAlone
  \/ focus = "worktree" /\ Cleanup!StatDirectory /\ CleanupAlone
  \/ focus = "worktree" /\ Cleanup!MoveDirectory /\ CleanupAlone
  \/ focus = "worktree" /\ Cleanup!DeleteDirectory /\ CleanupAlone
  \/ focus = "worktree" /\ Cleanup!Recover /\ CleanupAlone
  \/ focus = "worktree" /\ Cleanup!Kill /\ CleanupAlone
  \/ focus = "worktree" /\ Cleanup!Prune /\ CleanupAlone
  \/ \E e \in Strays :
       focus = "worktree" /\ Cleanup!Put("worktree", e) /\ CleanupAlone
  \/ \E e \in Worktrees :
       focus = "worktree" /\ Cleanup!Put("metadata", e) /\ CleanupAlone

Spec == Init /\ [][Next]_vars

----------------------------------------------------------------------------
(* A lock-free reader accepts only what is committed, whole.                *)
(* (storage/database.py; Database)                                          *)
AcceptsCommitted == [][focus = "database" => Db!AcceptsCommitted]_vars

(* Processes that start together on an old schema run every script once.    *)
(* (storage/database.py:359; Database)                                      *)
MigratedOnce == focus = "database" => Db!MigratedOnce

(* A save of the configuration keeps what others saved since it was shown.  *)
(* (config.py; Configuration)                                               *)
SavesKeepOthers == [][focus = "configuration" => Config!SavesKeepOthers]_vars

(* A save that was reported survives a crash and a power loss.              *)
(* (config.py:161; Configuration)                                           *)
ReportedSurvives == focus = "configuration" => Config!ReportedSurvives

(* Replacing the AGENTS file keeps what its owner wrote, and the backup is  *)
(* what the owner had before the hub first wrote. (integration/agents.py;   *)
(* AgentsFile)                                                              *)
OwnerTextKept ==
  [][focus = "agents" => Agents!OwnerTextKept /\ Agents!BackupOfTheOwner']_vars

(* Every request line gets one answer, of its own id and in order.          *)
(* (integration/mcp_broker.py; McpBroker)                                   *)
OneAnswerPerLine == focus = "broker" => Broker!OneAnswerPerLine

(* Servers that start together agree on a token, and a request is handled   *)
(* only for the live session and the form token it came with.               *)
(* (security/web.py, web/app.py; WebBoundary)                               *)
BoundaryHolds == focus = "web" => Web!OneToken /\ Web!HandledForItsSession

(* What a process printed is used only when it is whole, and a process out  *)
(* of time leaves none of its group behind. (improvement/git_apply.py,      *)
(* services/project_facts.py; BoundedProcess)                               *)
ProcessIsBounded ==
  focus = "process" => Process!OutputIsWhole /\ Process!StoppedInTime

(* What is at the path of a snapshot is the audited tree, or nothing of the *)
(* run is left. (scripts/prepare_public_snapshot.py; PublicSnapshot)        *)
SnapshotAllOrNothing == focus = "snapshot" => Snapshot!SnapshotAllOrNothing

(* Taking a failed snapshot back removes nothing that another program put   *)
(* there. (scripts/prepare_public_snapshot.py; PublicSnapshot)              *)
OthersKept == [][focus = "snapshot" => Snapshot!OthersKept]_vars

(* The removal of a proposal's worktree removes no metadata of another      *)
(* worktree, and one that ends well leaves Git no worktree of the proposal. *)
(* (improvement/git_apply.py:1320, 1514; WorktreeCleanup)                   *)
CleanupHolds ==
  focus = "worktree" => Cleanup!OnlyOwnRemoved /\ Cleanup!OkIsGone
============================================================================
