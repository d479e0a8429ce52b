-------------------------- MODULE ReconcileProofs --------------------------
(***************************************************************************)
(* Proofs about the catch-up markers of reconcile, for every number of     *)
(* runners, projects, session files, upgrades, failures and crashes.       *)
(***************************************************************************)
EXTENDS Reconcile, TLAPS

AfterCodex == {"registry", "chatgpt", "pending", "compact", "improve", "finish"}

(* The Codex marker and the tokens of runs are stamps of upgrades; a run   *)
(* only reads the newest.                                                  *)
MarkerNamesPolicy == codexMarker # NONE => codexMarker = policy

(* What a run knows: it holds the lock, its token is the stamp of its own  *)
(* policy, a newer policy has left the marker, with Codex off the run is   *)
(* pending from the start, and if its Codex stage left it unflagged then   *)
(* every scope has the run's own policy.                                   *)
Holds(r) == Active(r) => lock = r

TokenNamesPolicy(r) == run[r].token # NONE => run[r].token = run[r].policy

OvertakenIsDue(r) ==
  /\ run[r].policy <= policy
  /\ Active(r) /\ run[r].policy # policy => codexMarker # NONE

PendingWithoutCodex(r) ==
  Active(r) /\ run[r].token # NONE /\ ~run[r].codex => "pending" \in run[r].flags

Rescanned(r) ==
  run[r].pc \in AfterCodex /\ run[r].token # NONE /\ ~Incomplete(r)
    => \A s \in Scopes : run[r].policy = policy => scanned[s] = policy

RunnerInv(r) ==
  /\ Holds(r) /\ TokenNamesPolicy(r) /\ OvertakenIsDue(r)
  /\ PendingWithoutCodex(r) /\ Rescanned(r)

(* The inductive invariant: a completion that deletes the Codex marker     *)
(* finds it equal to its token, so its own policy is the installed one, and*)
(* its unflagged Codex stage has left no scope behind.                     *)
IInv == /\ TypeOK
        /\ MarkerNamesPolicy
        /\ CodexCatchupKept
        /\ UnboundIsDue
        /\ \A r \in Runners : RunnerInv(r)

(* The initial state satisfies the inductive invariant.                    *)
LEMMA InitInv == Init => IInv
<1> SUFFICES ASSUME Init PROVE IInv
  OBVIOUS
<1> USE BoundsAssumption, NoneAssumption
<1>1. TypeOK
  BY DEF Init, TypeOK, Asleep, Locals
<1>2. MarkerNamesPolicy /\ CodexCatchupKept
  BY DEF Init, MarkerNamesPolicy, CodexCatchupKept, Stale
<1>3. UnboundIsDue
  BY DEF Init, UnboundIsDue
<1>4. \A r \in Runners : RunnerInv(r)
  <2>1. policy = 0
    BY DEF Init
  <2>2. \A r \in Runners :
          run[r].pc = "idle" /\ run[r].token = NONE /\ run[r].policy = 0
    BY DEF Init, Asleep
  <2>3. ASSUME NEW r \in Runners PROVE OvertakenIsDue(r)
    <3>1. run[r].policy = policy /\ 0 <= 0
      BY <2>1, <2>2
    <3>2. QED
      BY <2>1, <3>1 DEF OvertakenIsDue
  <2>4. \A r \in Runners : Holds(r) /\ TokenNamesPolicy(r) /\ PendingWithoutCodex(r)
    BY <2>2 DEF Holds, TokenNamesPolicy, PendingWithoutCodex, Active
  <2>5. \A r \in Runners : Rescanned(r)
    BY <2>2 DEF Rescanned, AfterCodex
  <2>6. QED
    BY <2>3, <2>4, <2>5 DEF RunnerInv
<1>5. QED
  BY <1>1, <1>2, <1>3, <1>4 DEF IInv

(* What passing from one stage to the next changes.                        *)
StageEffect(r, here, next, raised) ==
  /\ run' \in [Runners -> Locals]
  /\ run[r].pc = here
  /\ run'[r].pc = next
  /\ run'[r].flags = run[r].flags \cup raised
  /\ run'[r].token = run[r].token
  /\ run'[r].policy = run[r].policy
  /\ run'[r].codex = run[r].codex
  /\ \A q \in Runners \ {r} : run'[q] = run[q]

LEMMA MoveOn ==
  ASSUME NEW x \in Locals, NEW next \in Stages, NEW raised \in SUBSET Flags
  PROVE  [x EXCEPT !.pc = next, !.flags = @ \cup raised] \in Locals
BY DEF Locals

LEMMA StageHasEffect ==
  ASSUME TypeOK, NEW r \in Runners, NEW here, NEW next \in Stages,
         NEW raised \in SUBSET Flags, Stage(r, here, next, raised)
  PROVE  StageEffect(r, here, next, raised)
<1>1. run[r] \in Locals
  BY DEF TypeOK
<1>2. run' = [run EXCEPT ![r] = [run[r] EXCEPT !.pc = next, !.flags = @ \cup raised]]
  BY DEF Stage, TypeOK, Locals
<1>3. run' \in [Runners -> Locals]
  BY <1>2, MoveOn DEF TypeOK
<1>4. run'[r] = [run[r] EXCEPT !.pc = next, !.flags = @ \cup raised]
  BY <1>2 DEF TypeOK
<1>5. \A q \in Runners \ {r} : run'[q] = run[q]
  BY <1>2 DEF TypeOK
<1>6. QED
  BY <1>1, <1>3, <1>4, <1>5 DEF StageEffect, Stage, Locals

(* The same of discovery, which also notes the projects it found.          *)
LEMMA DiscoverHasEffect ==
  ASSUME TypeOK, NEW r \in Runners, Discover(r)
  PROVE  \E raised \in SUBSET Flags : StageEffect(r, "discover", "facts", raised)
<1>1. PICK found \in SUBSET Projects, raised \in SUBSET Flags :
        run' = [run EXCEPT ![r].pc = "facts", ![r].found = found,
                           ![r].flags = @ \cup raised]
  <2>1. PICK found \in SUBSET Projects, failed \in BOOLEAN :
          run' = [run EXCEPT ![r].pc = "facts", ![r].found = found,
                             ![r].flags = @ \cup (IF failed THEN {"core"} ELSE {})]
    BY Zenon DEF Discover, Registrable
  <2>2. (IF failed THEN {"core"} ELSE {}) \in SUBSET Flags
    BY DEF Flags
  <2>3. QED
    BY <2>1, <2>2
<1>2. run[r] \in Locals /\ run[r].pc = "discover"
  BY DEF TypeOK, Discover
<1> DEFINE next == [run[r] EXCEPT !.pc = "facts", !.found = found, !.flags = @ \cup raised]
<1>3. next \in Locals
  BY <1>2 DEF Locals, Stages
<1>4. run' = [run EXCEPT ![r] = next]
  BY <1>1, <1>2 DEF TypeOK, Locals
<1>5. run' \in [Runners -> Locals] /\ run'[r] = next
  BY <1>3, <1>4 DEF TypeOK
<1>6. \A q \in Runners \ {r} : run'[q] = run[q]
  BY <1>4 DEF TypeOK
<1>7. QED
  BY <1>2, <1>5, <1>6 DEF StageEffect, Locals

(* A rolled back completion only goes on to another stage.                 *)
LEMMA CompletionFailsEffect ==
  ASSUME TypeOK, NEW r \in Runners, CompletionFails(r)
  PROVE  \E next \in {"drift", "report"} : StageEffect(r, "finish", next, {})
<1>1. PICK next \in {"drift", "report"} : run' = [run EXCEPT ![r].pc = next]
  BY DEF CompletionFails
<1>2. run[r] \in Locals /\ run[r].pc = "finish"
  BY DEF TypeOK, CompletionFails
<1>3. [run[r] EXCEPT !.pc = next] \in Locals
  BY <1>2 DEF Locals, Stages
<1>4. run' = [run EXCEPT ![r] = [run[r] EXCEPT !.pc = next]]
  BY <1>1, <1>2 DEF TypeOK, Locals
<1>5. run' \in [Runners -> Locals] /\ run'[r] = [run[r] EXCEPT !.pc = next]
  BY <1>3, <1>4 DEF TypeOK
<1>6. \A q \in Runners \ {r} : run'[q] = run[q]
  BY <1>4 DEF TypeOK
<1>7. QED
  BY <1>2, <1>5, <1>6 DEF StageEffect, Locals

(* The passing of a day changes no more of a run than its age.             *)
LEMMA DayEffect ==
  ASSUME TypeOK, Day
  PROVE  /\ run' \in [Runners -> Locals]
         /\ \A r \in Runners : /\ run'[r].pc = run[r].pc
                               /\ run'[r].token = run[r].token
                               /\ run'[r].policy = run[r].policy
                               /\ run'[r].codex = run[r].codex
                               /\ run'[r].flags = run[r].flags
<1> DEFINE older(r) == [run[r] EXCEPT !.aged = TRUE]
<1>1. \A r \in Runners : run[r] \in Locals
  BY DEF TypeOK
<1>2. \A r \in Runners :
        /\ older(r) \in Locals
        /\ older(r).pc = run[r].pc /\ older(r).token = run[r].token
        /\ older(r).policy = run[r].policy /\ older(r).codex = run[r].codex
        /\ older(r).flags = run[r].flags
  BY <1>1 DEF Locals
<1> HIDE DEF older
<1>3. run' = [r \in Runners |-> IF Active(r) THEN older(r) ELSE run[r]]
  BY DEF Day, older
<1>4. QED
  BY <1>1, <1>2, <1>3

(* A runner that leaves is asleep and frees the lock; the others stay.     *)
LEMMA LeaveEffect ==
  ASSUME TypeOK, NEW r \in Runners, Leave(r)
  PROVE  /\ run' \in [Runners -> Locals]
         /\ lock' \in Runners \cup {NONE}
         /\ run'[r] = Asleep
         /\ \A q \in Runners \ {r} : run'[q] = run[q]
<1>1. Asleep \in Locals
  BY BoundsAssumption DEF Asleep, Locals
<1>2. QED
  BY <1>1 DEF Leave, TypeOK

LEMMA WriteCatchupType ==
  ASSUME WriteCatchup
  PROVE  catchup' \in BOOLEAN /\ rewritten' \in [Runners -> {"no", "early", "late"}]
BY DEF WriteCatchup

(* Every step keeps the type invariant.                                    *)
LEMMA TypeStep == TypeOK /\ [Next]_vars => TypeOK'
<1> SUFFICES ASSUME TypeOK, [Next]_vars PROVE TypeOK'
  OBVIOUS
<1> USE BoundsAssumption, NoneAssumption DEF TypeOK
<1> USE DEF markers, registry, world
<1>1. CASE UNCHANGED vars
  BY <1>1 DEF vars
<1>2. ASSUME NEW p \in Projects, NEW on \in BOOLEAN, SetEnabled(p, on) PROVE TypeOK'
  BY <1>2, WriteCatchupType DEF SetEnabled, Event, RegistryChanges
<1>3. ASSUME NEW p \in Projects, Relink(p) PROVE TypeOK'
  BY <1>3 DEF Relink, Event, RegistryChanges
<1>4. ASSUME NEW p \in Projects, MoveDirectory(p) PROVE TypeOK'
  BY <1>4 DEF MoveDirectory, Event
<1>5. ASSUME NEW p \in Projects, Enqueue(p) PROVE TypeOK'
  BY <1>5 DEF Enqueue, Event
<1>6. ASSUME NEW p \in Projects, FallDormant(p) PROVE TypeOK'
  BY <1>6 DEF FallDormant, Event
<1>7. CASE SwitchCodex
  BY <1>7 DEF SwitchCodex, Event
<1>8. CASE Upgrade
  BY <1>8 DEF Upgrade
<1>9. CASE Day
  BY <1>9, DayEffect DEF Day
<1>10. ASSUME NEW r \in Runners, NEW force \in BOOLEAN, Start(r, force) PROVE TypeOK'
  BY <1>10 DEF Start, Flags, Stages, Locals
<1>11. ASSUME NEW r \in Runners, Discover(r) PROVE TypeOK'
  <2>1. run' \in [Runners -> Locals]
    BY <1>11, DiscoverHasEffect DEF StageEffect
  <2>2. known' \in [Projects -> Identities \cup {NONE}]
    BY <1>11 DEF Discover
  <2>3. drifted' \subseteq Runners /\ faults' \in 0..MaxFaults
    BY <1>11 DEF Discover, RegistryChanges, Fault
  <2>4. QED
    BY <1>11, <2>1, <2>2, <2>3 DEF Discover
<1>12. ASSUME NEW r \in Runners, ScanFacts(r) PROVE TypeOK'
  <2>1. PICK raised \in SUBSET Flags : Stage(r, "facts", "retry", raised)
    BY <1>12 DEF ScanFacts, Flags
  <2>2. run' \in [Runners -> Locals]
    BY <2>1, StageHasEffect DEF StageEffect, Stages
  <2>3. QED
    BY <1>12, <2>2 DEF ScanFacts, Fault
<1>13. ASSUME NEW r \in Runners, DrainRetries(r) PROVE TypeOK'
  <2>1. PICK raised \in SUBSET Flags : Stage(r, "retry", "codex", raised)
    BY <1>13 DEF DrainRetries, Flags
  <2>2. run' \in [Runners -> Locals]
    BY <2>1, StageHasEffect DEF StageEffect, Stages
  <2>3. QED
    BY <1>13, <2>2 DEF DrainRetries, Fault
<1>14. ASSUME NEW r \in Runners, IngestCodex(r) PROVE TypeOK'
  <2>1. PICK raised \in SUBSET Flags : Stage(r, "codex", "registry", raised)
    BY <1>14 DEF IngestCodex, CodexFailure, Flags
  <2>2. run' \in [Runners -> Locals]
    BY <2>1, StageHasEffect DEF StageEffect, Stages
  <2>3. QED
    <3>1. run[r].policy \in 0..MaxUpgrades
      BY DEF Locals
    <3>2. QED
      BY <1>14, <2>2, <3>1 DEF IngestCodex, Fault
<1>15. ASSUME NEW r \in Runners, SnapshotRegistry(r) PROVE TypeOK'
  <2>1. PICK raised \in SUBSET Flags : Stage(r, "registry", "chatgpt", raised)
    BY <1>15 DEF SnapshotRegistry, Flags
  <2>2. run' \in [Runners -> Locals]
    BY <2>1, StageHasEffect DEF StageEffect, Stages
  <2>3. QED
    BY <1>15, <2>2 DEF SnapshotRegistry, Fault
<1>16. ASSUME NEW r \in Runners, ImportInbox(r) PROVE TypeOK'
  <2>1. PICK raised \in SUBSET Flags : Stage(r, "chatgpt", "pending", raised)
    BY <1>16 DEF ImportInbox, Flags
  <2>2. run' \in [Runners -> Locals]
    BY <2>1, StageHasEffect DEF StageEffect, Stages
  <2>3. QED
    BY <1>16, <2>2 DEF ImportInbox, Fault
<1>17. ASSUME NEW r \in Runners, ExpirePending(r) PROVE TypeOK'
  <2>1. PICK raised \in SUBSET Flags : Stage(r, "pending", "compact", raised)
    BY <1>17 DEF ExpirePending, Flags
  <2>2. run' \in [Runners -> Locals]
    BY <2>1, StageHasEffect DEF StageEffect, Stages
  <2>3. QED
    BY <1>17, <2>2 DEF ExpirePending, Fault
<1>18. ASSUME NEW r \in Runners, Compact(r) PROVE TypeOK'
  <2>1. PICK raised \in SUBSET Flags : Stage(r, "compact", "improve", raised)
    BY <1>18 DEF Compact, Flags
  <2>2. run' \in [Runners -> Locals]
    BY <2>1, StageHasEffect DEF StageEffect, Stages
  <2>3. QED
    BY <1>18, <2>2 DEF Compact, Fault
<1>19. ASSUME NEW r \in Runners, Improve(r) PROVE TypeOK'
  <2>1. PICK raised \in SUBSET Flags : Stage(r, "improve", "finish", raised)
    BY <1>19 DEF Improve, Flags
  <2>2. run' \in [Runners -> Locals]
    BY <2>1, StageHasEffect DEF StageEffect, Stages
  <2>3. QED
    BY <1>19, <2>2 DEF Improve, Fault
<1>20. ASSUME NEW r \in Runners, Complete(r) PROVE TypeOK'
  BY <1>20, LeaveEffect DEF Complete
<1>21. ASSUME NEW r \in Runners, CompletionFails(r) PROVE TypeOK'
  BY <1>21, CompletionFailsEffect DEF CompletionFails, StageEffect, Fault
<1>22. ASSUME NEW r \in Runners, RecordIncomplete(r) PROVE TypeOK'
  BY <1>22, LeaveEffect, WriteCatchupType DEF RecordIncomplete, Fault
<1>23. ASSUME NEW r \in Runners, RecordFailure(r) PROVE TypeOK'
  BY <1>23, LeaveEffect DEF RecordFailure, Fault
<1>24. ASSUME NEW r \in Runners, Crash(r) PROVE TypeOK'
  BY <1>24, LeaveEffect DEF Crash, Fault
<1>25. QED
  BY <1>1, <1>2, <1>3, <1>4, <1>5, <1>6, <1>7, <1>8, <1>9, <1>10, <1>11, <1>12,
     <1>13, <1>14, <1>15, <1>16, <1>17, <1>18, <1>19, <1>20, <1>21, <1>22, <1>23,
     <1>24 DEF Next, Environment, Step
-----------------------------------------------------------------------------
(* What is the same before and after a step that does not concern the      *)
(* Codex marker: the step neither upgrades nor scans nor completes.        *)
CodexFrame == UNCHANGED <<codexMarker, policy, scanned>>

(* A step that leaves the control of every run alone.                      *)
LEMMA WorldStep ==
  ASSUME IInv, TypeOK', UnboundIsDue', CodexFrame, UNCHANGED lock,
         \A r \in Runners : /\ run'[r].pc = run[r].pc
                            /\ run'[r].token = run[r].token
                            /\ run'[r].policy = run[r].policy
                            /\ run'[r].codex = run[r].codex
                            /\ run'[r].flags = run[r].flags
  PROVE  IInv'
<1> USE DEF IInv, CodexFrame
<1>1. MarkerNamesPolicy' /\ CodexCatchupKept'
  BY DEF MarkerNamesPolicy, CodexCatchupKept, Stale
<1>2. ASSUME NEW r \in Runners PROVE RunnerInv(r)'
  BY DEF RunnerInv, Holds, TokenNamesPolicy, OvertakenIsDue, PendingWithoutCodex,
         Rescanned, Active, Incomplete
<1>3. QED
  BY <1>1, <1>2

(* A run goes on to another stage than the one after Codex: flags are only *)
(* ever added.                                                             *)
LEMMA StageStep ==
  ASSUME IInv, TypeOK', UnboundIsDue', CodexFrame, UNCHANGED lock,
         NEW r \in Runners, NEW here, NEW next, NEW raised,
         StageEffect(r, here, next, raised),
         here # "idle", next \in AfterCodex => here \in AfterCodex
  PROVE  IInv'
<1> USE DEF IInv, CodexFrame, StageEffect
<1>1. MarkerNamesPolicy' /\ CodexCatchupKept'
  BY DEF MarkerNamesPolicy, CodexCatchupKept, Stale
<1>2. RunnerInv(r)'
  BY DEF RunnerInv, Holds, TokenNamesPolicy, OvertakenIsDue, PendingWithoutCodex,
         Rescanned, Active, Incomplete
<1>3. ASSUME NEW q \in Runners \ {r} PROVE RunnerInv(q)'
  BY DEF RunnerInv, Holds, TokenNamesPolicy, OvertakenIsDue, PendingWithoutCodex,
         Rescanned, Active, Incomplete
<1>4. QED
  BY <1>1, <1>2, <1>3

(* A run ends.  The runner that leaves has nothing left to know, and no    *)
(* other runner is active, since it would hold the lock.                   *)
LEMMA LeaveStep ==
  ASSUME IInv, TypeOK', UnboundIsDue', MarkerNamesPolicy', CodexCatchupKept',
         UNCHANGED <<policy, scanned>>,
         NEW r \in Runners, Active(r), Leave(r)
  PROVE  IInv'
<1> USE DEF IInv
<1>1. /\ run'[r] = Asleep
      /\ \A q \in Runners \ {r} : run'[q] = run[q]
  BY LeaveEffect
<1>2. RunnerInv(r)'
  BY <1>1, BoundsAssumption
     DEF TypeOK, RunnerInv, Holds, TokenNamesPolicy, OvertakenIsDue,
         PendingWithoutCodex, Rescanned, Active, Asleep, AfterCodex
<1>3. ASSUME NEW q \in Runners \ {r} PROVE RunnerInv(q)'
  <2>1. ~Active(q)
    BY DEF RunnerInv, Holds
  <2>2. QED
    BY <1>1, <2>1
       DEF RunnerInv, Holds, TokenNamesPolicy, OvertakenIsDue, PendingWithoutCodex,
           Rescanned, Active, AfterCodex
<1>4. QED
  BY <1>2, <1>3

(* The Codex stage of a run: unless it is flagged, it has brought every    *)
(* scope to the run's own policy.                                          *)
LEMMA CodexStep ==
  ASSUME IInv, TypeOK', NEW r \in Runners, IngestCodex(r)
  PROVE  IInv'
<1> USE DEF IInv
<1>1. PICK failing \in SUBSET Scopes :
        /\ failing = {} \/ run[r].codex
        /\ scanned' = [s \in Scopes |-> IF run[r].codex /\ s \notin failing
                                        THEN run[r].policy ELSE scanned[s]]
        /\ Stage(r, "codex", "registry", IF failing = {} THEN {} ELSE CodexFailure(r))
  BY DEF IngestCodex
<1>2. UNCHANGED <<lock, codexMarker, policy, catchup, enabled, known>>
  BY DEF IngestCodex, markers, registry, world
<1> DEFINE raised == IF failing = {} THEN {} ELSE CodexFailure(r)
<1>3. StageEffect(r, "codex", "registry", raised)
  <2>1. raised \in SUBSET Flags
    BY DEF CodexFailure, Flags
  <2>2. QED
    BY <1>1, <2>1, StageHasEffect DEF Stages
<1>4. Active(r) /\ lock = r
  BY <1>3 DEF StageEffect, Active, RunnerInv, Holds
<1>5. MarkerNamesPolicy' /\ UnboundIsDue'
  BY <1>2 DEF MarkerNamesPolicy, UnboundIsDue
<1>6. CodexCatchupKept'
  BY <1>1, <1>2, <1>4 DEF CodexCatchupKept, Stale, RunnerInv, OvertakenIsDue
<1>7. Rescanned(r)'
  <2> SUFFICES ASSUME run'[r].token # NONE, ~Incomplete(r)'
               PROVE  \A s \in Scopes : scanned'[s] = run'[r].policy
    BY <1>2 DEF Rescanned
  <2>1. failing = {}
    BY <1>3 DEF Incomplete, StageEffect, CodexFailure
  <2>2. run[r].codex
    BY <1>3, <1>4 DEF Incomplete, StageEffect, RunnerInv, PendingWithoutCodex
  <2>3. QED
    BY <1>1, <1>3, <2>1, <2>2 DEF StageEffect
<1>8. RunnerInv(r)'
  BY <1>2, <1>3, <1>7
     DEF StageEffect, RunnerInv, Holds, TokenNamesPolicy, OvertakenIsDue,
         PendingWithoutCodex, Active
<1>9. ASSUME NEW q \in Runners \ {r} PROVE RunnerInv(q)'
  <2>1. ~Active(q)
    BY <1>4 DEF RunnerInv, Holds
  <2>2. run'[q] = run[q]
    BY <1>3 DEF StageEffect
  <2>3. QED
    BY <1>2, <2>1, <2>2
       DEF RunnerInv, Holds, TokenNamesPolicy, OvertakenIsDue, PendingWithoutCodex,
           Rescanned, Active, AfterCodex
<1>10. QED
  BY <1>5, <1>6, <1>8, <1>9

(* A completion: the marker it deletes is its own token, and so its work   *)
(* is done; the catch-up marker is deleted with every project in place.    *)
LEMMA CompleteStep ==
  ASSUME IInv, TypeOK', NEW r \in Runners, Complete(r)
  PROVE  IInv'
<1> USE DEF IInv
<1>1. UnboundIsDue'
  BY DEF Complete, Current, Untrusted, Trusted, UnboundIsDue, registry
<1>2. MarkerNamesPolicy'
  BY DEF Complete, MarkerNamesPolicy, world
<1>3. UNCHANGED <<policy, scanned>>
  BY DEF Complete, world
<1>4. CASE run[r].token = NONE
  <2>1. CodexCatchupKept'
    BY <1>3, <1>4 DEF Complete, CodexCatchupKept, Stale
  <2>2. QED
    BY <1>1, <1>2, <1>3, <2>1, LeaveStep DEF Complete, Active
<1>5. CASE run[r].token # NONE
  <2>1. run[r].token = codexMarker
    BY <1>5 DEF Complete, TokenMatches
  <2>2. run[r].policy = policy
    BY <1>5, <2>1 DEF MarkerNamesPolicy, RunnerInv, TokenNamesPolicy
  <2>3. Stale = {}
    BY <1>5, <2>2 DEF Complete, RunnerInv, Rescanned, AfterCodex, Stale
  <2>4. CodexCatchupKept'
    BY <1>3, <2>3 DEF CodexCatchupKept, Stale
  <2>5. QED
    BY <1>1, <1>2, <1>3, <2>4, LeaveStep DEF Complete, Active
<1>6. QED
  BY <1>4, <1>5

(* A run begins, with the newest token and the installed policy.           *)
LEMMA StartStep ==
  ASSUME IInv, TypeOK', NEW r \in Runners, NEW force \in BOOLEAN, Start(r, force)
  PROVE  IInv'
<1> USE DEF IInv
<1>1. UNCHANGED <<codexMarker, policy, scanned, catchup, enabled, known>> /\ lock' = r
  BY DEF Start, registry, world
<1>2. MarkerNamesPolicy' /\ CodexCatchupKept' /\ UnboundIsDue'
  BY <1>1 DEF MarkerNamesPolicy, CodexCatchupKept, UnboundIsDue, Stale
<1>3. /\ run'[r].pc = "discover" /\ run'[r].token = codexMarker
      /\ run'[r].policy = policy
      /\ codexMarker # NONE /\ ~run'[r].codex => "pending" \in run'[r].flags
      /\ \A q \in Runners \ {r} : run'[q] = run[q]
  BY DEF Start, TypeOK
<1>4. RunnerInv(r)'
  BY <1>1, <1>3
     DEF TypeOK, MarkerNamesPolicy, RunnerInv, Holds, TokenNamesPolicy, OvertakenIsDue,
         PendingWithoutCodex, Rescanned, AfterCodex
<1>5. ASSUME NEW q \in Runners \ {r} PROVE RunnerInv(q)'
  <2>1. ~Active(q)
    BY NoneAssumption DEF Start, LockFree, RunnerInv, Holds
  <2>2. QED
    BY <1>1, <1>3, <2>1
       DEF RunnerInv, Holds, TokenNamesPolicy, OvertakenIsDue, PendingWithoutCodex,
           Rescanned, Active, AfterCodex
<1>6. QED
  BY <1>2, <1>4, <1>5

(* An upgrade voids every checkpoint and leaves its marker.                *)
LEMMA UpgradeStep ==
  ASSUME IInv, TypeOK', Upgrade
  PROVE  IInv'
<1> USE DEF IInv
<1>1. UNCHANGED <<lock, scanned, catchup, enabled, known, run>>
  BY DEF Upgrade, registry
<1>2. codexMarker' = policy' /\ policy' = policy + 1 /\ policy \in Nat
  BY BoundsAssumption DEF Upgrade, TypeOK
<1>3. MarkerNamesPolicy' /\ CodexCatchupKept' /\ UnboundIsDue'
  BY <1>1, <1>2, NoneAssumption DEF MarkerNamesPolicy, CodexCatchupKept, UnboundIsDue
<1>4. ASSUME NEW r \in Runners PROVE RunnerInv(r)'
  <2>1. run[r].policy \in Nat /\ run[r].policy <= policy
    BY BoundsAssumption DEF TypeOK, Locals, RunnerInv, OvertakenIsDue
  <2>2. run[r].policy # policy' /\ run[r].policy <= policy'
    BY <1>2, <2>1
  <2>3. codexMarker' # NONE
    BY <1>2, NoneAssumption
  <2>4. QED
    BY <1>1, <2>2, <2>3
       DEF RunnerInv, Holds, TokenNamesPolicy, OvertakenIsDue, PendingWithoutCodex,
           Rescanned, Active, Incomplete
<1>5. QED
  BY <1>3, <1>4
(* Every step keeps the inductive invariant.                               *)
LEMMA InvStep == IInv /\ [Next]_vars => IInv'
<1> SUFFICES ASSUME IInv, [Next]_vars PROVE IInv'
  OBVIOUS
<1> USE DEF IInv
<1>0. TypeOK'
  BY TypeStep
<1> USE DEF markers, registry, world
<1>1. CASE UNCHANGED vars
  <2>1. UnboundIsDue' /\ CodexFrame /\ UNCHANGED <<lock, run>>
    BY <1>1 DEF vars, UnboundIsDue, CodexFrame
  <2>2. QED
    BY <1>0, <2>1, WorldStep
<1>2. ASSUME NEW p \in Projects, NEW on \in BOOLEAN, SetEnabled(p, on) PROVE IInv'
  <2>1. UnboundIsDue'
    BY <1>2 DEF SetEnabled, UnboundIsDue, WriteCatchup, TypeOK
  <2>2. CodexFrame /\ UNCHANGED <<lock, run>>
    BY <1>2 DEF SetEnabled, CodexFrame
  <2>3. QED
    BY <1>0, <2>1, <2>2, WorldStep
<1>3. ASSUME NEW p \in Projects, Relink(p) PROVE IInv'
  <2>0. PICK i \in Identities : known' = [known EXCEPT ![p] = i]
    BY <1>3 DEF Relink
  <2>1. UnboundIsDue'
    <3>1. enabled' = enabled /\ catchup' = catchup
      BY <1>3 DEF Relink
    <3>2. \A q \in Projects : known'[q] = NONE => known[q] = NONE
      BY <2>0, NoneAssumption DEF TypeOK
    <3>3. QED
      BY <3>1, <3>2 DEF UnboundIsDue
  <2>2. CodexFrame /\ UNCHANGED <<lock, run>>
    BY <1>3 DEF Relink, CodexFrame
  <2>3. QED
    BY <1>0, <2>1, <2>2, WorldStep
<1>4. ASSUME NEW p \in Projects, MoveDirectory(p) PROVE IInv'
  <2>1. UnboundIsDue' /\ CodexFrame /\ UNCHANGED <<lock, run>>
    BY <1>4 DEF MoveDirectory, UnboundIsDue, CodexFrame
  <2>2. QED
    BY <1>0, <2>1, WorldStep
<1>5. ASSUME NEW p \in Projects, Enqueue(p) PROVE IInv'
  <2>1. UnboundIsDue' /\ CodexFrame /\ UNCHANGED <<lock, run>>
    BY <1>5 DEF Enqueue, UnboundIsDue, CodexFrame
  <2>2. QED
    BY <1>0, <2>1, WorldStep
<1>6. ASSUME NEW p \in Projects, FallDormant(p) PROVE IInv'
  <2>1. UnboundIsDue' /\ CodexFrame /\ UNCHANGED <<lock, run>>
    BY <1>6 DEF FallDormant, UnboundIsDue, CodexFrame
  <2>2. QED
    BY <1>0, <2>1, WorldStep
<1>7. CASE SwitchCodex
  <2>1. UnboundIsDue' /\ CodexFrame /\ UNCHANGED <<lock, run>>
    BY <1>7 DEF SwitchCodex, UnboundIsDue, CodexFrame
  <2>2. QED
    BY <1>0, <2>1, WorldStep
<1>8. CASE Upgrade
  BY <1>0, <1>8, UpgradeStep
<1>9. CASE Day
  <2>1. UnboundIsDue' /\ CodexFrame /\ UNCHANGED lock
    BY <1>9 DEF Day, UnboundIsDue, CodexFrame
  <2>2. QED
    BY <1>0, <1>9, <2>1, DayEffect, WorldStep
<1>10. ASSUME NEW r \in Runners, NEW force \in BOOLEAN, Start(r, force) PROVE IInv'
  BY <1>0, <1>10, StartStep
<1>11. ASSUME NEW r \in Runners, Discover(r) PROVE IInv'
  <2>1. \A p \in Projects : known'[p] = NONE => known[p] = NONE
    BY <1>11 DEF Discover, Registrable, TypeOK
  <2>2. CodexFrame /\ UNCHANGED <<lock, catchup, enabled>>
    BY <1>11 DEF Discover, CodexFrame
  <2>3. UnboundIsDue'
    BY <2>1, <2>2 DEF UnboundIsDue
  <2>4. PICK raised \in SUBSET Flags : StageEffect(r, "discover", "facts", raised)
    BY <1>11, DiscoverHasEffect
  <2>5. QED
    BY <1>0, <2>2, <2>3, <2>4, StageStep DEF AfterCodex
<1>12. ASSUME NEW r \in Runners, ScanFacts(r) PROVE IInv'
  <2>1. UnboundIsDue' /\ CodexFrame /\ UNCHANGED lock
    BY <1>12 DEF ScanFacts, UnboundIsDue, CodexFrame
  <2>2. PICK raised \in SUBSET Flags : Stage(r, "facts", "retry", raised)
    BY <1>12 DEF ScanFacts, Flags
  <2>3. StageEffect(r, "facts", "retry", raised)
    BY <2>2, StageHasEffect DEF Stages
  <2>4. QED
    BY <1>0, <2>1, <2>3, StageStep DEF AfterCodex
<1>13. ASSUME NEW r \in Runners, DrainRetries(r) PROVE IInv'
  <2>1. UnboundIsDue' /\ CodexFrame /\ UNCHANGED lock
    BY <1>13 DEF DrainRetries, UnboundIsDue, CodexFrame
  <2>2. PICK raised \in SUBSET Flags : Stage(r, "retry", "codex", raised)
    BY <1>13 DEF DrainRetries, Flags
  <2>3. StageEffect(r, "retry", "codex", raised)
    BY <2>2, StageHasEffect DEF Stages
  <2>4. QED
    BY <1>0, <2>1, <2>3, StageStep DEF AfterCodex
<1>14. ASSUME NEW r \in Runners, IngestCodex(r) PROVE IInv'
  BY <1>0, <1>14, CodexStep
<1>15. ASSUME NEW r \in Runners, SnapshotRegistry(r) PROVE IInv'
  <2>1. UnboundIsDue' /\ CodexFrame /\ UNCHANGED lock
    BY <1>15 DEF SnapshotRegistry, UnboundIsDue, CodexFrame
  <2>2. PICK raised \in SUBSET Flags : Stage(r, "registry", "chatgpt", raised)
    BY <1>15 DEF SnapshotRegistry, Flags
  <2>3. StageEffect(r, "registry", "chatgpt", raised)
    BY <2>2, StageHasEffect DEF Stages
  <2>4. QED
    BY <1>0, <2>1, <2>3, StageStep DEF AfterCodex
<1>16. ASSUME NEW r \in Runners, ImportInbox(r) PROVE IInv'
  <2>1. UnboundIsDue' /\ CodexFrame /\ UNCHANGED lock
    BY <1>16 DEF ImportInbox, UnboundIsDue, CodexFrame
  <2>2. PICK raised \in SUBSET Flags : Stage(r, "chatgpt", "pending", raised)
    BY <1>16 DEF ImportInbox, Flags
  <2>3. StageEffect(r, "chatgpt", "pending", raised)
    BY <2>2, StageHasEffect DEF Stages
  <2>4. QED
    BY <1>0, <2>1, <2>3, StageStep DEF AfterCodex
<1>17. ASSUME NEW r \in Runners, ExpirePending(r) PROVE IInv'
  <2>1. UnboundIsDue' /\ CodexFrame /\ UNCHANGED lock
    BY <1>17 DEF ExpirePending, UnboundIsDue, CodexFrame
  <2>2. PICK raised \in SUBSET Flags : Stage(r, "pending", "compact", raised)
    BY <1>17 DEF ExpirePending, Flags
  <2>3. StageEffect(r, "pending", "compact", raised)
    BY <2>2, StageHasEffect DEF Stages
  <2>4. QED
    BY <1>0, <2>1, <2>3, StageStep DEF AfterCodex
<1>18. ASSUME NEW r \in Runners, Compact(r) PROVE IInv'
  <2>1. UnboundIsDue' /\ CodexFrame /\ UNCHANGED lock
    BY <1>18 DEF Compact, UnboundIsDue, CodexFrame
  <2>2. PICK raised \in SUBSET Flags : Stage(r, "compact", "improve", raised)
    BY <1>18 DEF Compact, Flags
  <2>3. StageEffect(r, "compact", "improve", raised)
    BY <2>2, StageHasEffect DEF Stages
  <2>4. QED
    BY <1>0, <2>1, <2>3, StageStep DEF AfterCodex
<1>19. ASSUME NEW r \in Runners, Improve(r) PROVE IInv'
  <2>1. UnboundIsDue' /\ CodexFrame /\ UNCHANGED lock
    BY <1>19 DEF Improve, UnboundIsDue, CodexFrame
  <2>2. PICK raised \in SUBSET Flags : Stage(r, "improve", "finish", raised)
    BY <1>19 DEF Improve, Flags
  <2>3. StageEffect(r, "improve", "finish", raised)
    BY <2>2, StageHasEffect DEF Stages
  <2>4. QED
    BY <1>0, <2>1, <2>3, StageStep DEF AfterCodex
<1>20. ASSUME NEW r \in Runners, Complete(r) PROVE IInv'
  BY <1>0, <1>20, CompleteStep
<1>21. ASSUME NEW r \in Runners, CompletionFails(r) PROVE IInv'
  <2>1. UnboundIsDue' /\ CodexFrame /\ UNCHANGED lock
    BY <1>21 DEF CompletionFails, UnboundIsDue, CodexFrame
  <2>2. PICK next \in {"drift", "report"} : StageEffect(r, "finish", next, {})
    BY <1>21, CompletionFailsEffect
  <2>3. QED
    BY <1>0, <2>1, <2>2, StageStep DEF AfterCodex
<1>22. ASSUME NEW r \in Runners, RecordIncomplete(r) PROVE IInv'
  <2>1. UnboundIsDue' /\ CodexFrame
    <3>1. catchup' \in {catchup, TRUE}
      BY <1>22 DEF RecordIncomplete, WriteCatchup
    <3>2. CodexFrame /\ UNCHANGED <<enabled, known>>
      BY <1>22 DEF RecordIncomplete, CodexFrame
    <3>3. QED
      BY <3>1, <3>2 DEF UnboundIsDue
  <2>2. MarkerNamesPolicy' /\ CodexCatchupKept'
    BY <2>1 DEF MarkerNamesPolicy, CodexCatchupKept, Stale, CodexFrame
  <2>3. Leave(r) /\ Active(r)
    BY <1>22 DEF RecordIncomplete, Active
  <2>4. QED
    BY <1>0, <2>1, <2>2, <2>3, LeaveStep DEF CodexFrame
<1>23. ASSUME NEW r \in Runners, RecordFailure(r) PROVE IInv'
  <2>1. UnboundIsDue' /\ CodexFrame
    BY <1>23 DEF RecordFailure, UnboundIsDue, CodexFrame
  <2>2. MarkerNamesPolicy' /\ CodexCatchupKept'
    BY <2>1 DEF MarkerNamesPolicy, CodexCatchupKept, Stale, CodexFrame
  <2>3. Leave(r) /\ Active(r)
    BY <1>23 DEF RecordFailure, Active
  <2>4. QED
    BY <1>0, <2>1, <2>2, <2>3, LeaveStep DEF CodexFrame
<1>24. ASSUME NEW r \in Runners, Crash(r) PROVE IInv'
  <2>1. UnboundIsDue' /\ CodexFrame
    BY <1>24 DEF Crash, UnboundIsDue, CodexFrame
  <2>2. MarkerNamesPolicy' /\ CodexCatchupKept'
    BY <2>1 DEF MarkerNamesPolicy, CodexCatchupKept, Stale, CodexFrame
  <2>3. Leave(r) /\ Active(r)
    BY <1>24 DEF Crash, Active
  <2>4. QED
    BY <1>0, <2>1, <2>2, <2>3, LeaveStep DEF CodexFrame
<1>25. QED
  BY <1>1, <1>2, <1>3, <1>4, <1>5, <1>6, <1>7, <1>8, <1>9, <1>10, <1>11, <1>12,
     <1>13, <1>14, <1>15, <1>16, <1>17, <1>18, <1>19, <1>20, <1>21, <1>22, <1>23,
     <1>24 DEF Next, Environment, Step

-----------------------------------------------------------------------------
(* The inductive invariant holds in every reachable state.                 *)
THEOREM Invariance == Spec => []IInv
BY InitInv, InvStep, PTL DEF Spec

(* The markers, the registry and the locals of every run keep their types. *)
THEOREM TypeCorrectness == Spec => []TypeOK
<1>1. IInv => TypeOK
  BY DEF IInv
<1>2. QED
  BY <1>1, Invariance, PTL

(* No failure, crash, switch of the sources, upgrade or second runner makes *)
(* reconcile forget a scope that still has to be scanned again: the Codex  *)
(* marker goes only when no scope has the checkpoint of an older policy.   *)
THEOREM CodexMarkerOutlives == Spec => []CodexCatchupKept
<1>1. IInv => CodexCatchupKept
  BY DEF IInv
<1>2. QED
  BY <1>1, Invariance, PTL

(* As long as an enabled project has no identity, reconcile stays due.     *)
THEOREM UnboundStaysDue == Spec => []UnboundIsDue
<1>1. IInv => UnboundIsDue
  BY DEF IInv
<1>2. QED
  BY <1>1, Invariance, PTL

(* Both at once: reconcile stays due while there is something only it can  *)
(* make good.                                                              *)
THEOREM MarkersStayDue == Spec => []MarkersKept
<1>1. IInv => MarkersKept
  BY DEF IInv, MarkersKept
<1>2. QED
  BY <1>1, Invariance, PTL

(* Every step that clears a marker or records a success does so with every *)
(* enabled project in its place.                                           *)
LEMMA StepIsCurrent ==
  [Next]_vars =>
    [ (catchup /\ ~catchup') \/ (success # "fresh" /\ success' = "fresh")
        => \A p \in Projects : enabled[p] => Trusted(p) ]_vars
<1> SUFFICES ASSUME Next,
                    (catchup /\ ~catchup') \/ (success # "fresh" /\ success' = "fresh")
             PROVE  \A p \in Projects : enabled[p] => Trusted(p)
  OBVIOUS
<1>1. ASSUME NEW r \in Runners, Complete(r)
      PROVE  \A p \in Projects : enabled[p] => Trusted(p)
  BY <1>1 DEF Complete, Current, Untrusted
<1> USE DEF markers, WriteCatchup
<1>2. CASE Environment
  <2>1. catchup' \in {catchup, TRUE}
    BY <1>2 DEF Environment, SetEnabled, Relink, MoveDirectory, Enqueue, FallDormant,
                SwitchCodex, Upgrade, Day
  <2>2. success' \in {success, "due"}
    BY <1>2 DEF Environment, SetEnabled, Relink, MoveDirectory, Enqueue, FallDormant,
                SwitchCodex, Upgrade, Day
  <2>3. QED
    BY <2>1, <2>2
<1>3. ASSUME NEW r \in Runners, NEW force \in BOOLEAN, Start(r, force) \/ Crash(r)
      PROVE  FALSE
  BY <1>3 DEF Start, Crash
<1>4. ASSUME NEW r \in Runners,
             Discover(r) \/ ScanFacts(r) \/ DrainRetries(r) \/ IngestCodex(r)
      PROVE  FALSE
  BY <1>4 DEF Discover, ScanFacts, DrainRetries, IngestCodex
<1>5. ASSUME NEW r \in Runners,
             \/ SnapshotRegistry(r) \/ ImportInbox(r) \/ ExpirePending(r)
             \/ Compact(r) \/ Improve(r)
      PROVE  FALSE
  BY <1>5 DEF SnapshotRegistry, ImportInbox, ExpirePending, Compact, Improve
<1>6. ASSUME NEW r \in Runners,
             CompletionFails(r) \/ RecordIncomplete(r) \/ RecordFailure(r)
      PROVE  FALSE
  BY <1>6 DEF CompletionFails, RecordIncomplete, RecordFailure
<1>7. QED
  BY <1>1, <1>2, <1>3, <1>4, <1>5, <1>6 DEF Next, Step

(* The same of every behaviour, however the directories and the registry   *)
(* change while a run is going on.                                         *)
THEOREM CompletionsAreCurrent == Spec => CompletionIsCurrent
BY StepIsCurrent, PTL DEF Spec, CompletionIsCurrent

-----------------------------------------------------------------------------
(* A marker written late in a run: the run is past its snapshot and the     *)
(* registry has moved since.  (The other writer of the marker, a run that   *)
(* records that it is incomplete, is the one that holds the lock.)          *)
LateIsDrift ==
  \A r \in Runners :
    Active(r) /\ rewritten[r] = "late" => run[r].pc \in AfterSnapshot /\ r \in drifted

(* It stays so while runs keep their stages and no snapshot is taken.       *)
LEMMA LateFrame ==
  ASSUME LateIsDrift, UNCHANGED rewritten, drifted \subseteq drifted',
         \A r \in Runners : run'[r].pc = run[r].pc
  PROVE  LateIsDrift'
BY DEF LateIsDrift, Active

(* It stays so when a run passes to its next stage: only the snapshot takes *)
(* a run out of drifted, and a run about to take it has no late marker.     *)
LEMMA LateStage ==
  ASSUME LateIsDrift, UNCHANGED rewritten, NEW r \in Runners,
         NEW here, NEW next \in Stages, NEW raised, StageEffect(r, here, next, raised),
         here # "idle",
         here \in AfterSnapshot => next \in AfterSnapshot /\ drifted \subseteq drifted',
         drifted \ {r} \subseteq drifted'
  PROVE  LateIsDrift'
BY DEF LateIsDrift, StageEffect, Active

(* When a run ends, no other run is active: it held the lock.               *)
LEMMA LateLeave ==
  ASSUME IInv, NEW r \in Runners, Active(r), Leave(r)
  PROVE  LateIsDrift'
<1>1. \A q \in Runners \ {r} : ~Active(q)
  BY DEF IInv, RunnerInv, Holds
<1>2. run' \in [Runners -> Locals] /\ \A q \in Runners : run'[q].pc = "idle"
  <2>1. run' = [run EXCEPT ![r] = Asleep] /\ Asleep \in Locals /\ Asleep.pc = "idle"
    BY BoundsAssumption DEF Leave, Asleep, Locals
  <2>2. QED
    BY <1>1, <2>1 DEF IInv, TypeOK, Active
<1>3. QED
  BY <1>2 DEF LateIsDrift, Active

(* No step breaks it.                                                      *)
LEMMA LateStep == IInv /\ LateIsDrift /\ [Next]_vars => LateIsDrift'
<1> SUFFICES ASSUME IInv, LateIsDrift, [Next]_vars PROVE LateIsDrift'
  OBVIOUS
<1>0. TypeOK
  BY DEF IInv
<1> USE DEF markers, registry, world
<1>1. CASE UNCHANGED vars
  BY <1>1, LateFrame DEF vars
<1>2. ASSUME NEW p \in Projects, NEW on \in BOOLEAN, SetEnabled(p, on) PROVE LateIsDrift'
  <2>1. drifted' = Runners /\ run' = run
    BY <1>2 DEF SetEnabled, RegistryChanges
  <2>2. CASE on
    BY <1>0, <1>2, <2>1, <2>2 DEF SetEnabled, WriteCatchup, LateIsDrift, Active
  <2>3. CASE ~on
    <3>1. UNCHANGED rewritten
      BY <1>2, <2>3 DEF SetEnabled
    <3>2. QED
      BY <1>0, <2>1, <3>1, LateFrame DEF TypeOK
  <2>4. QED
    BY <2>2, <2>3
<1>3. ASSUME NEW p \in Projects,
             Relink(p) \/ MoveDirectory(p) \/ Enqueue(p) \/ FallDormant(p)
      PROVE  LateIsDrift'
  <2>1. UNCHANGED <<rewritten, run>> /\ drifted \subseteq drifted'
    BY <1>0, <1>3 DEF Relink, MoveDirectory, Enqueue, FallDormant, RegistryChanges, TypeOK
  <2>2. QED
    BY <2>1, LateFrame
<1>4. CASE SwitchCodex \/ Upgrade
  BY <1>4, LateFrame DEF SwitchCodex, Upgrade
<1>5. CASE Day
  <2>1. UNCHANGED <<rewritten, drifted>>
    BY <1>5 DEF Day
  <2>2. \A r \in Runners : run'[r].pc = run[r].pc
    BY <1>0, <1>5, DayEffect
  <2>3. QED
    BY <2>1, <2>2, LateFrame
<1>6. ASSUME NEW r \in Runners, NEW force \in BOOLEAN, Start(r, force) PROVE LateIsDrift'
  <2>1. rewritten' \in [Runners -> {"no", "early", "late"}] /\ rewritten'[r] = "no"
    BY <1>0, <1>6 DEF Start, TypeOK
  <2>2. \A q \in Runners \ {r} : run'[q] = run[q] /\ rewritten'[q] = rewritten[q]
    BY <1>0, <1>6 DEF Start, TypeOK
  <2>3. drifted' = drifted
    BY <1>6 DEF Start
  <2>4. QED
    BY <2>1, <2>2, <2>3 DEF LateIsDrift, Active
<1>7. ASSUME NEW r \in Runners, Discover(r) PROVE LateIsDrift'
  <2>1. UNCHANGED rewritten /\ drifted \subseteq drifted'
    BY <1>0, <1>7 DEF Discover, RegistryChanges, TypeOK
  <2>2. PICK raised \in SUBSET Flags : StageEffect(r, "discover", "facts", raised)
    BY <1>0, <1>7, DiscoverHasEffect
  <2>3. QED
    BY <2>1, <2>2, LateStage DEF AfterSnapshot, Stages
<1>8. ASSUME NEW r \in Runners,
             NEW here \in Stages, NEW next \in Stages, NEW raised \in SUBSET Flags,
             Stage(r, here, next, raised), UNCHANGED rewritten,
             here \in AfterSnapshot => next \in AfterSnapshot /\ drifted \subseteq drifted',
             drifted \ {r} \subseteq drifted'
      PROVE  LateIsDrift'
  <2>1. StageEffect(r, here, next, raised)
    BY <1>0, <1>8, StageHasEffect
  <2>2. here # "idle"
    BY DEF Stages
  <2>3. QED
    BY <1>8, <2>1, <2>2, LateStage
<1>9. ASSUME NEW r \in Runners, ScanFacts(r) \/ DrainRetries(r) \/ IngestCodex(r)
      PROVE  LateIsDrift'
  <2>1. UNCHANGED <<rewritten, drifted>>
    BY <1>9 DEF ScanFacts, DrainRetries, IngestCodex
  <2>2. \E raised \in SUBSET Flags : \/ Stage(r, "facts", "retry", raised)
                                     \/ Stage(r, "retry", "codex", raised)
                                     \/ Stage(r, "codex", "registry", raised)
    BY <1>9 DEF ScanFacts, DrainRetries, IngestCodex, CodexFailure, Flags
  <2>3. QED
    BY <1>8, <2>1, <2>2 DEF AfterSnapshot, Stages
<1>10. ASSUME NEW r \in Runners, SnapshotRegistry(r) PROVE LateIsDrift'
  <2>1. UNCHANGED rewritten /\ drifted' = drifted \ {r}
    BY <1>10 DEF SnapshotRegistry
  <2>2. PICK raised \in SUBSET Flags : Stage(r, "registry", "chatgpt", raised)
    BY <1>10 DEF SnapshotRegistry, Flags
  <2>3. QED
    BY <1>8, <2>1, <2>2 DEF AfterSnapshot, Stages
<1>11. ASSUME NEW r \in Runners,
              ImportInbox(r) \/ ExpirePending(r) \/ Compact(r) \/ Improve(r)
       PROVE  LateIsDrift'
  <2>1. UNCHANGED <<rewritten, drifted>>
    BY <1>11 DEF ImportInbox, ExpirePending, Compact, Improve
  <2>2. \E raised \in SUBSET Flags : \/ Stage(r, "chatgpt", "pending", raised)
                                     \/ Stage(r, "pending", "compact", raised)
                                     \/ Stage(r, "compact", "improve", raised)
                                     \/ Stage(r, "improve", "finish", raised)
    BY <1>11 DEF ImportInbox, ExpirePending, Compact, Improve, Flags
  <2>3. QED
    BY <1>8, <2>1, <2>2 DEF AfterSnapshot, Stages
<1>12. ASSUME NEW r \in Runners, CompletionFails(r) PROVE LateIsDrift'
  <2>1. UNCHANGED <<rewritten, drifted>>
    BY <1>12 DEF CompletionFails
  <2>2. PICK next \in {"drift", "report"} : StageEffect(r, "finish", next, {})
    BY <1>0, <1>12, CompletionFailsEffect
  <2>3. QED
    BY <2>1, <2>2, LateStage DEF AfterSnapshot, Stages
<1>13. ASSUME NEW r \in Runners,
              Complete(r) \/ RecordIncomplete(r) \/ RecordFailure(r) \/ Crash(r)
       PROVE  LateIsDrift'
  <2>1. Leave(r) /\ Active(r)
    BY <1>13 DEF Complete, RecordIncomplete, RecordFailure, Crash, Active
  <2>2. QED
    BY <2>1, LateLeave
<1>14. QED
  BY <1>1, <1>2, <1>3, <1>4, <1>5, <1>6, <1>7, <1>9, <1>10, <1>11, <1>12, <1>13
     DEF Next, Environment, Step

(* Only a completion clears the catch-up marker.                            *)
LEMMA OnlyCompletionClears ==
  ASSUME Next, catchup, ~catchup'
  PROVE  \E r \in Runners : Complete(r)
<1> USE DEF markers, WriteCatchup
<1>1. CASE Environment
  BY <1>1 DEF Environment, SetEnabled, Relink, MoveDirectory, Enqueue, FallDormant,
              SwitchCodex, Upgrade, Day
<1>2. ASSUME NEW r \in Runners, NEW force \in BOOLEAN, Start(r, force) \/ Crash(r)
      PROVE  FALSE
  BY <1>2 DEF Start, Crash
<1>3. ASSUME NEW r \in Runners,
             \/ Discover(r) \/ ScanFacts(r) \/ DrainRetries(r) \/ IngestCodex(r)
             \/ SnapshotRegistry(r) \/ ImportInbox(r) \/ ExpirePending(r)
             \/ Compact(r) \/ Improve(r)
      PROVE  FALSE
  BY <1>3 DEF Discover, ScanFacts, DrainRetries, IngestCodex, SnapshotRegistry,
              ImportInbox, ExpirePending, Compact, Improve
<1>4. ASSUME NEW r \in Runners,
             CompletionFails(r) \/ RecordIncomplete(r) \/ RecordFailure(r)
      PROVE  FALSE
  BY <1>4 DEF CompletionFails, RecordIncomplete, RecordFailure
<1>5. QED
  BY <1>1, <1>2, <1>3, <1>4 DEF Next, Step

(* A catch-up marker written after the snapshot of the run in progress      *)
(* outlives that run, whoever wrote it and whatever the run went on to do:  *)
(* the transaction that would clear it finds that the registry has moved.   *)
THEOREM LateMarkersAreKept == Spec => LateMarkerKept
<1>1. Init => LateIsDrift
  BY DEF Init, LateIsDrift, Active, Asleep
<1>2. IInv /\ LateIsDrift /\ [Next]_vars =>
        [catchup /\ ~catchup' => \A r \in Runners : Active(r) => rewritten[r] # "late"]_vars
  <2> SUFFICES ASSUME IInv, LateIsDrift, Next, catchup, ~catchup',
                      NEW q \in Runners, Active(q), rewritten[q] = "late"
               PROVE  FALSE
    OBVIOUS
  <2>1. PICK r \in Runners : Complete(r)
    BY OnlyCompletionClears
  <2>2. Active(r) /\ r \notin drifted
    BY <2>1 DEF Complete, Current, Active
  <2>3. q = r
    BY <2>2 DEF IInv, RunnerInv, Holds
  <2>4. QED
    BY <2>2, <2>3 DEF LateIsDrift
<1>3. QED
  BY <1>1, <1>2, LateStep, Invariance, PTL DEF Spec, LateMarkerKept
=============================================================================
