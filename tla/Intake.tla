------------------------------ MODULE Intake ------------------------------
(* What the hub takes in from outside: the Codex session parser, the import *)
(* of ChatGPT archives, the discovery of project directories and the source *)
(* probes. Each reads files that others change meanwhile.                   *)
EXTENDS Integers, Sequences

CONSTANTS
  Lines, Scripts, Threads, Cwds, Weight(_), MaxContext, MaxRecord,
  MaxNonsemantic, MaxRead, MaxRecords, MaxUnits, MaxDisturbances,        \* the parser
  Importers, Projects, Archives, Within(_, _), MaxGeneration, MaxMoves,  \* the import
  Inside, Outside, Marked, MaxDepth, IsWorkspace, MaxTreeChanges,
  MaxScans, LinkIn, LinkOut,                                             \* discovery
  Requests, Files, Nested, MaxCount, Counts, MaxChanges,                 \* the probes
  NONE

VARIABLES
  focus,    \* the component that moves
  files, path, disturbed, checkpoint, taken, locators, job, answer,
  registry, generation, live, zip, sources, receipts, run,
  root, child, scan, candidates, findings, placed, treeChanges, scans,
  lock, lease, runner, closer, late, file, directory, limit, probe, changes

(* The limits of the parser are positive, a record that is parsed is no     *)
(* longer than one that is passed over, and a working directory is something.*)
ASSUME ParserAssumption ==
  /\ MaxRecords \in Nat \ {0} /\ MaxNonsemantic \in Nat \ {0}
  /\ MaxRecord \in Nat /\ MaxRecord <= MaxNonsemantic
  /\ MaxRead \in Nat /\ MaxUnits \in Nat /\ MaxDisturbances \in Nat
  /\ NONE \notin Cwds
  /\ \A n \in DOMAIN Lines :
       /\ Lines[n].size \in Nat \ {0}
       /\ Lines[n].type \in {"ignored", "unsafe", "meta", "context", "end"}
       /\ Lines[n].type = "context" => Lines[n].turn \in Int

(* The directories of a tree are no links; a project is something, and an   *)
(* archive has its conversations one after the other.                       *)
ASSUME ScanAssumption ==
  /\ MaxDepth \in Nat
  /\ {LinkIn, LinkOut, NONE} \cap (Inside \cup {Outside}) = {}
ASSUME ImportAssumption ==
  /\ NONE \notin Projects
  /\ \A a \in DOMAIN Archives : DOMAIN Archives[a] = 1..Len(Archives[a])

(* Databases hold some number of records, the nested candidates are some,    *)
(* and null is neither a number nor a file.                                  *)
ASSUME ProbeAssumption ==
  Counts \subseteq Nat /\ Nested \subseteq Files /\ NONE \notin Int \cup Files

Codex == INSTANCE CodexParser
ChatGPT == INSTANCE ChatGPTImport
Scan == INSTANCE Discovery WITH
  changes <- treeChanges, MaxChanges <- MaxTreeChanges
Probe == INSTANCE Probes

codexVars == <<files, path, disturbed, checkpoint, taken, locators, job,
               answer>>
chatgptVars == <<registry, generation, live, zip, sources, receipts, run>>
discoveryVars == <<root, child, scan, candidates, findings, placed,
                   treeChanges, scans>>
probesVars == <<lock, lease, runner, closer, late, file, directory, limit,
                probe, changes>>
vars == <<focus, codexVars, chatgptVars, discoveryVars, probesVars>>

CodexIdle ==
  /\ files = NONE /\ path = NONE /\ disturbed = NONE /\ checkpoint = NONE
  /\ taken = NONE /\ locators = NONE /\ job = NONE /\ answer = NONE
ChatGPTIdle ==
  /\ registry = NONE /\ generation = NONE /\ live = NONE /\ zip = NONE
  /\ sources = NONE /\ receipts = NONE /\ run = NONE
ScanIdle ==
  /\ root = NONE /\ child = NONE /\ scan = NONE /\ candidates = NONE
  /\ findings = NONE /\ placed = NONE /\ treeChanges = NONE /\ scans = NONE
ProbeIdle ==
  /\ lock = NONE /\ lease = NONE /\ runner = NONE /\ closer = NONE
  /\ late = NONE /\ file = NONE /\ directory = NONE /\ limit = NONE
  /\ probe = NONE /\ changes = NONE

(* The components share no variable, so each is followed on its own and the *)
(* others are idle.                                                         *)
Init ==
  \/ /\ focus = "codex"
     /\ Codex!Init
     /\ ChatGPTIdle /\ ScanIdle /\ ProbeIdle
  \/ /\ focus = "chatgpt"
     /\ ChatGPT!Init
     /\ CodexIdle /\ ScanIdle /\ ProbeIdle
  \/ /\ focus = "discovery"
     /\ Scan!Init
     /\ CodexIdle /\ ChatGPTIdle /\ ProbeIdle
  \/ /\ focus = "probes"
     /\ Probe!Init
     /\ CodexIdle /\ ChatGPTIdle /\ ScanIdle

CodexAlone ==
  UNCHANGED <<focus, chatgptVars, discoveryVars, probesVars>>
ChatGPTAlone ==
  UNCHANGED <<focus, codexVars, discoveryVars, probesVars>>
ScanAlone ==
  UNCHANGED <<focus, codexVars, chatgptVars, probesVars>>
ProbeAlone ==
  UNCHANGED <<focus, codexVars, chatgptVars, discoveryVars>>

Next ==
  \/ focus = "codex" /\ Codex!Write /\ CodexAlone
  \/ focus = "codex" /\ Codex!Truncate /\ CodexAlone
  \/ focus = "codex" /\ Codex!ReplaceFile /\ CodexAlone
  \/ focus = "codex" /\ Codex!OpenRead /\ CodexAlone
  \/ focus = "codex" /\ Codex!ParseRead /\ CodexAlone
  \/ focus = "codex" /\ Codex!ReplayDeferred /\ CodexAlone
  \/ focus = "codex" /\ Codex!ReplayRecords /\ CodexAlone
  \/ focus = "codex" /\ Codex!ReadRuntimeModel /\ CodexAlone
  \/ focus = "codex" /\ Codex!VerifyRead /\ CodexAlone
  \/ focus = "codex" /\ Codex!VerifyAnswer /\ CodexAlone
  \/ focus = "chatgpt" /\ ChatGPT!ToggleEnabled /\ ChatGPTAlone
  \/ focus = "chatgpt" /\ ChatGPT!BindDirectory /\ ChatGPTAlone
  \/ focus = "chatgpt" /\ ChatGPT!ReplaceDirectory /\ ChatGPTAlone
  \/ focus = "chatgpt" /\ ChatGPT!OverwriteArchive /\ ChatGPTAlone
  \/ \E i \in Importers :
       focus = "chatgpt" /\ ChatGPT!Import(i) /\ ChatGPTAlone
  \/ focus = "discovery" /\ Scan!OpenAllowedRoot /\ ScanAlone
  \/ focus = "discovery" /\ Scan!ListDirectory /\ ScanAlone
  \/ focus = "discovery" /\ Scan!Canonicalise /\ ScanAlone
  \/ focus = "discovery" /\ Scan!OpenMetadata /\ ScanAlone
  \/ focus = "discovery" /\ Scan!CheckComponents /\ ScanAlone
  \/ focus = "discovery" /\ Scan!CheckRoot /\ ScanAlone
  \/ focus = "discovery" /\ Scan!Descend /\ ScanAlone
  \/ focus = "discovery" /\ Scan!SyncFindings /\ ScanAlone
  \/ focus = "discovery" /\ Scan!Change /\ ScanAlone
  \/ \E r \in Requests :
       focus = "probes" /\ Probe!Lease(r) /\ ProbeAlone
  \/ focus = "probes" /\ Probe!Inspect /\ ProbeAlone
  \/ focus = "probes" /\ Probe!Expire /\ ProbeAlone
  \/ focus = "probes" /\ Probe!ReplaceDirectory /\ ProbeAlone
  \/ \E f \in Files :
       \/ focus = "probes" /\ Probe!WriteLog(f) /\ ProbeAlone
       \/ focus = "probes" /\ Probe!Checkpoint(f) /\ ProbeAlone
       \/ focus = "probes" /\ Probe!Replace(f) /\ ProbeAlone

Spec == Init /\ [][Next]_vars

----------------------------------------------------------------------------
(* A parser that resumes after a lost or replaced checkpoint reads what one *)
(* does that reads the whole file, and a replay or a namespace answer       *)
(* speaks of the file that was read. (CodexParser)                          *)
ParserIsExact ==
  focus = "codex" => Codex!ReadsAsWritten /\ Codex!AnswersAsRead

(* A conversation is captured only for the project that the registry of     *)
(* that instant gives it. (ChatGPTImport)                                   *)
DecidedByCurrentRegistry ==
  [][focus = "chatgpt" => ChatGPT!DecidedByCurrentRegistry]_vars

(* Receipts of an archive stand for what its conversations left.            *)
(* (ChatGPTImport)                                                          *)
ReceiptsAccount == focus = "chatgpt" => ChatGPT!ReceiptsAccount

(* A directory is fingerprinted under a path it had in this scan.           *)
(* (Discovery)                                                              *)
FingerprintOfItsPath ==
  [][focus = "discovery" => Scan!FingerprintOfItsPath]_vars

(* One structure probe runs at a time, and what it recognizes is what the   *)
(* previewed file held. (Probes)                                            *)
ProbesAreExact ==
  focus = "probes" => Probe!OneStructureProbe /\ Probe!RecognizedIsExact
============================================================================
