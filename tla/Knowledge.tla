----------------------------- MODULE Knowledge -----------------------------
(* What the hub knows of its projects and gives back: captured memories and *)
(* their retrospectives, the facts read from the directories, the brief a   *)
(* recall makes of both, and the captures queued for another try.           *)
EXTENDS Naturals, FiniteSets

CONSTANTS
  Projects, Namespaces, Sources, Compactors, Size(_), Signature(_),
  InactiveDays, SourceLimit, MaxEntry, MaxText,
  MaxClock, MaxGap, MaxPrepared, MaxOwner,                           \* the memories
  Scanners, Directories, Promotions, MaxFactClock, MaxChanges,       \* the facts
  Rows, Kinds, Lengths, SourceOf, Tasks, Budget, CandidateLimit,
  Wide, MaxShortened, MaxEvents,                                     \* the brief
  Items, MaxItems, MaxRetryClock,                                    \* the retry queue
  NONE

(* A capture is stored long before its project could be dormant: MaxGap     *)
(* stands for seconds, InactiveDays for days. What it declares is a list.   *)
ASSUME MemoriesAssumption ==
  /\ MaxGap \in Nat /\ InactiveDays \in Nat /\ MaxGap < InactiveDays
  /\ SourceLimit \in Nat
  /\ \A s \in Sources :
       s.project \in Projects /\ s.ns \in Namespaces /\ IsFiniteSet(s.rows)

(* The slot of a rule names its promotion, that of a scan what was read.    *)
ASSUME PromotionsAssumption == "git" \notin Promotions /\ "files" \notin Promotions

(* A drain takes some number of items.                                      *)
ASSUME RetryAssumption == MaxItems \in Nat

(* The rows and their contents are finitely many and of positive length,    *)
(* and what is counted and shown of them is bounded by numbers.             *)
ASSUME RecallAssumption ==
  /\ IsFiniteSet(Rows) /\ Rows \subseteq Nat
  /\ IsFiniteSet(Lengths) /\ Lengths \subseteq Nat \ {0}
  /\ Budget \in Nat /\ Wide \in Nat /\ MaxShortened \in Nat \ {0}

VARIABLES
  focus,    \* the component that moves
  clock, projects, memories, refs, resolutions, retros, prepared, run, owner,
  factClock, here, files, git, row, facts, promotions, scan, changes,
  rows, active, project, directory, steady, call, events,
  queue, delivered, enabled, inPlace, drain, retryClock

Kept == INSTANCE Memories
Facts == INSTANCE ProjectFacts WITH
  clock <- factClock, MaxClock <- MaxFactClock
Brief == INSTANCE Recall WITH
  row <- rows
Retry == INSTANCE RetryQueue WITH
  clock <- retryClock, MaxClock <- MaxRetryClock

memoriesVars == <<clock, projects, memories, refs, resolutions, retros,
                  prepared, run, owner>>
factsVars == <<factClock, here, files, git, row, facts, promotions, scan,
               changes>>
recallVars == <<rows, active, project, directory, steady, call, events>>
retriesVars == <<queue, delivered, enabled, inPlace, drain, retryClock>>
vars == <<focus, memoriesVars, factsVars, recallVars, retriesVars>>

KeptIdle ==
  /\ clock = NONE /\ projects = NONE /\ memories = NONE /\ refs = NONE
  /\ resolutions = NONE /\ retros = NONE /\ prepared = NONE /\ run = NONE
  /\ owner = NONE
FactsIdle ==
  /\ factClock = NONE /\ here = NONE /\ files = NONE /\ git = NONE
  /\ row = NONE /\ facts = NONE /\ promotions = NONE /\ scan = NONE
  /\ changes = NONE
BriefIdle ==
  /\ rows = NONE /\ active = NONE /\ project = NONE /\ directory = NONE
  /\ steady = NONE /\ call = NONE /\ events = NONE
RetryIdle ==
  /\ queue = NONE /\ delivered = NONE /\ enabled = NONE /\ inPlace = NONE
  /\ drain = NONE /\ retryClock = NONE

(* The components share no variable, so each is followed on its own and the *)
(* others are idle.                                                         *)
Init ==
  \/ /\ focus = "memories"
     /\ Kept!Init
     /\ FactsIdle /\ BriefIdle /\ RetryIdle
  \/ /\ focus = "facts"
     /\ Facts!Init
     /\ KeptIdle /\ BriefIdle /\ RetryIdle
  \/ /\ focus = "recall"
     /\ Brief!Init
     /\ KeptIdle /\ FactsIdle /\ RetryIdle
  \/ /\ focus = "retries"
     /\ Retry!Init
     /\ KeptIdle /\ FactsIdle /\ BriefIdle

KeptAlone ==
  UNCHANGED <<focus, factsVars, recallVars, retriesVars>>
FactsAlone ==
  UNCHANGED <<focus, memoriesVars, recallVars, retriesVars>>
BriefAlone ==
  UNCHANGED <<focus, memoriesVars, factsVars, retriesVars>>
RetryAlone ==
  UNCHANGED <<focus, memoriesVars, factsVars, recallVars>>

Next ==
  \/ focus = "memories" /\ Kept!Tick /\ KeptAlone
  \/ \E s \in Sources :
       focus = "memories" /\ Kept!Prepare(s) /\ KeptAlone
  \/ focus = "memories" /\ (\E p \in prepared : Kept!Capture(p)) /\ KeptAlone
  \/ \E p \in Projects :
       \/ focus = "memories" /\ Kept!ObserveChange(p) /\ KeptAlone
       \/ focus = "memories" /\ Kept!SetEnabled(p) /\ KeptAlone
  \/ focus = "memories" /\ (\E m \in memories : Kept!SetLifecycle(m)) /\ KeptAlone
  \/ \E c \in Compactors :
       focus = "memories" /\ Kept!Compact(c) /\ KeptAlone
  \/ focus = "facts" /\ Facts!Tick /\ FactsAlone
  \/ focus = "facts" /\ Facts!EditFile /\ FactsAlone
  \/ focus = "facts" /\ Facts!EditGitConfig /\ FactsAlone
  \/ focus = "facts" /\ Facts!ReplaceDirectory /\ FactsAlone
  \/ focus = "facts" /\ Facts!ChangeRow /\ FactsAlone
  \/ \E s \in Scanners :
       focus = "facts" /\ Facts!Scan(s) /\ FactsAlone
  \/ \E p \in Promotions :
       \/ focus = "facts" /\ Facts!RequestPromotion(p) /\ FactsAlone
       \/ focus = "facts" /\ Facts!ApprovePromotion(p) /\ FactsAlone
  \/ focus = "recall" /\ Brief!FindProject /\ BriefAlone
  \/ focus = "recall" /\ Brief!Identify /\ BriefAlone
  \/ focus = "recall" /\ Brief!CheckReads /\ BriefAlone
  \/ \E source \in Brief!Places, query \in Brief!Queries :
       focus = "recall" /\ Brief!Search(source, query) /\ BriefAlone
  \/ focus = "recall" /\ Brief!TakeMandatory /\ BriefAlone
  \/ focus = "recall" /\ Brief!FitPrefix /\ BriefAlone
  \/ focus = "recall" /\ Brief!KeepPrefix /\ BriefAlone
  \/ focus = "recall" /\ Brief!FitLimit /\ BriefAlone
  \/ focus = "recall" /\ Brief!KeepLimit /\ BriefAlone
  \/ focus = "recall" /\ Brief!Enforce /\ BriefAlone
  \/ focus = "recall" /\ Brief!TryOptional /\ BriefAlone
  \/ focus = "recall" /\ Brief!CountBrief /\ BriefAlone
  \/ focus = "recall" /\ Brief!Trim /\ BriefAlone
  \/ focus = "recall" /\ Brief!GiveBrief /\ BriefAlone
  \/ focus = "recall" /\ Brief!ChangeRows /\ BriefAlone
  \/ focus = "recall" /\ Brief!ChangeProject /\ BriefAlone
  \/ focus = "recall" /\ Brief!MoveDirectory /\ BriefAlone
  \/ \E i \in Items, p \in Projects :
       focus = "retries" /\ Retry!Enqueue(i, p) /\ RetryAlone
  \/ focus = "retries" /\ Retry!StartDrain /\ RetryAlone
  \/ focus = "retries" /\ Retry!EndDrain /\ RetryAlone
  \/ focus = "retries" /\ Retry!OpenItem /\ RetryAlone
  \/ focus = "retries" /\ Retry!CaptureItem /\ RetryAlone
  \/ focus = "retries" /\ Retry!RecordFailure /\ RetryAlone
  \/ focus = "retries" /\ Retry!Kill /\ RetryAlone
  \/ \E p \in Projects :
       \/ focus = "retries" /\ Retry!SetEnabled(p) /\ RetryAlone
       \/ focus = "retries" /\ Retry!Move(p) /\ RetryAlone

Spec == Init /\ [][Next]_vars

----------------------------------------------------------------------------
(* Compaction, however it is raced by captures and by the owner, makes a    *)
(* project inactive only when nothing of it is left to compact, and what it *)
(* takes away is in a retrospective. (services/compaction.py; Memories)     *)
MemoriesAreKept ==
  focus = "memories" => Kept!InactiveIsDrained /\ Kept!NothingLost

(* However scans overtake one another, the current fact of a slot is the    *)
(* one last observed. (storage/facts.py; ProjectFacts)                      *)
CurrentIsLatest == focus = "facts" => Facts!CurrentIsLatest

(* A fact is stored only for the directory it was read in, while the        *)
(* project is bound to that directory. (services/project_facts.py;          *)
(* ProjectFacts)                                                            *)
ReadWhereRegistered == [][focus = "facts" => Facts!ReadWhereRegistered]_vars

(* A brief stays within its budget and is the selection one counter stands  *)
(* for, although a failing counter is replaced half-way.                    *)
(* (services/recall.py; Recall)                                             *)
BriefAsCounted == focus = "recall" => Brief!BriefAsCounted

(* A brief is given only for a project that is still enabled and still in   *)
(* its directory. (services/recall.py; Recall)                              *)
BriefOfLiveProject == [][focus = "recall" => Brief!BriefOfLiveProject]_vars

(* A queued capture is delivered once or stays queued, and one that fails   *)
(* is not tried again before those that wait. (services/retry_queue.py;     *)
(* RetryQueue)                                                              *)
QueueDiscipline ==
  [][focus = "retries" => Retry!DeliveredOrKept /\ Retry!NoOvertaking]_vars
============================================================================
