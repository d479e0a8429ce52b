----------------------------- MODULE Reconcile -----------------------------
(***************************************************************************)
(* The daily reconcile (services/reconcile.py) and what it shares with the *)
(* rest of the hub: the process lock, the markers kept in app_state, the   *)
(* project registry with its generation, the retry queue and the projects  *)
(* waiting for compaction.                                                 *)
(*                                                                         *)
(* A run executes its stages in a fixed order, each stage in transactions  *)
(* of its own, and ends with one transaction that either records a success *)
(* and clears the markers or records that the run must be repeated.  The   *)
(* owner, the file system, captures and upgrades act between any two       *)
(* stages, and a run may crash anywhere.                                   *)
(*                                                                         *)
(* The registry generation only grows and is only compared for equality    *)
(* with the one of a run's snapshot, so the model keeps the answer of that *)
(* comparison: drifted holds the runs whose snapshot is out of date.  The  *)
(* timestamp of the last success is reduced to the answer of should_run.   *)
(***************************************************************************)
EXTENDS Naturals

CONSTANTS
    Runners,      \* processes that may call ReconcileService.run
    Projects,     \* rows of the projects table
    Scopes,       \* Codex session files
    Identities,   \* directory identities: device and inode
    MaxEvents,    \* bound: actions of the owner, the file system, captures
    MaxUpgrades,  \* bound: times the Codex marker is written by an upgrade
    MaxFaults,    \* bound: stage failures, failed writes and crashes
    NONE          \* no lock holder, no marker, no directory, no identity

ASSUME BoundsAssumption ==
    {MaxEvents, MaxUpgrades, MaxFaults} \subseteq Nat

ASSUME NoneAssumption ==
    NONE \notin Runners \cup Identities \cup Nat

VARIABLES
    lock,        \* the holder of reconcile.lock
    catchup,     \* is reconcile_catchup_required present
    codexMarker, \* the value of codex_reconcile_catchup_required, or NONE
    success,     \* last_reconcile_success: "none", "fresh" or "due"
    report,      \* the status of last_reconcile_report
    enabled,     \* projects.enabled
    known,       \* the identity stored with a project
    home,        \* the identity of the directory at the project's path
    policy,      \* the parser policy of the installed version
    scanned,     \* the policy of each scope's checkpoint
    retry,       \* projects with an item in the retry queue
    dormant,     \* projects past the inactivity cutoff, not yet compacted
    codexOn,     \* is Codex among the enabled sources
    run,         \* each runner's stage and locals
    drifted,     \* runners whose registry snapshot has an old generation
    rewritten,   \* history: when, in a run, the catch-up marker was written
    events, faults

registry == <<enabled, known, drifted>>
markers == <<catchup, codexMarker, success, report, rewritten>>
world == <<home, policy, codexOn, events>>
vars == <<lock, markers, registry, world, scanned, retry, dormant, run, faults>>

Stages == {"discover", "facts", "retry", "codex", "registry", "chatgpt",
           "pending", "compact", "improve", "finish", "drift", "report"}

(* The stages that come after the registry snapshot.                       *)
AfterSnapshot == {"chatgpt", "pending", "compact", "improve", "finish",
                  "drift", "report"}

Flags == {"core", "degraded", "pending"}

(* The locals of _run_locked: the stage it is in, the Codex token it read,  *)
(* its own parser policy and Codex setting, the projects it found, what    *)
(* was flagged so far, and whether 24 hours have passed since its run_now. *)
Locals == [pc : Stages \cup {"idle"},
           token : 1..MaxUpgrades \cup {NONE},
           policy : 0..MaxUpgrades,
           codex : BOOLEAN,
           found : SUBSET Projects,
           flags : SUBSET Flags,
           aged : BOOLEAN]

Asleep == [pc |-> "idle", token |-> NONE, policy |-> 0, codex |-> FALSE,
           found |-> {}, flags |-> {}, aged |-> FALSE]

Active(r) == run[r].pc # "idle"

(* The stored identity of the project is the one of its directory.         *)
Trusted(p) == known[p] # NONE /\ known[p] = home[p]

TypeOK ==
    /\ lock \in Runners \cup {NONE}
    /\ catchup \in BOOLEAN
    /\ codexMarker \in 1..MaxUpgrades \cup {NONE}
    /\ success \in {"none", "fresh", "due"}
    /\ report \in {"none", "success", "degraded", "failed"}
    /\ enabled \in [Projects -> BOOLEAN]
    /\ known \in [Projects -> Identities \cup {NONE}]
    /\ home \in [Projects -> Identities \cup {NONE}]
    /\ policy \in 0..MaxUpgrades
    /\ scanned \in [Scopes -> 0..MaxUpgrades]
    /\ retry \subseteq Projects
    /\ dormant \subseteq Projects
    /\ codexOn \in BOOLEAN
    /\ run \in [Runners -> Locals]
    /\ drifted \subseteq Runners
    /\ rewritten \in [Runners -> {"no", "early", "late"}]
    /\ events \in 0..MaxEvents
    /\ faults \in 0..MaxFaults

(* A database that was just migrated: rows of before schema v8 have no     *)
(* identity yet, and then the migration has left the catch-up marker.      *)
Init ==
    /\ lock = NONE
    /\ codexMarker = NONE
    /\ success \in {"none", "fresh"}
    /\ report = "none"
    /\ enabled = [p \in Projects |-> TRUE]
    /\ home \in [Projects -> Identities]
    /\ \A p, q \in Projects : home[p] = home[q] => p = q
    /\ known \in {home, [p \in Projects |-> NONE]}
    /\ catchup = (known # home)
    /\ policy = 0
    /\ scanned = [s \in Scopes |-> 0]
    /\ retry = {}
    /\ dormant = {}
    /\ codexOn \in BOOLEAN
    /\ run = [r \in Runners |-> Asleep]
    /\ drifted = Runners
    /\ rewritten = [r \in Runners |-> "no"]
    /\ events = 0
    /\ faults = 0

-----------------------------------------------------------------------------
(* The markers.                                                            *)

Due == catchup \/ codexMarker # NONE \/ success # "fresh"

WriteCatchup ==
    /\ catchup' = TRUE
    /\ rewritten' = [r \in Runners |->
                       IF run[r].pc \in AfterSnapshot THEN "late"
                       ELSE IF run[r].pc \in {"retry", "codex", "registry"} THEN "early"
                       ELSE "no"]

RegistryChanges == drifted' = Runners

(* A failing outcome counts against MaxFaults.                             *)
Fault(happens) ==
    /\ faults' = IF happens THEN faults + 1 ELSE faults
    /\ faults' <= MaxFaults

Event == events < MaxEvents /\ events' = events + 1

-----------------------------------------------------------------------------
(* Everybody else.                                                         *)

SetEnabled(p, on) ==
    /\ Event
    /\ enabled' = [enabled EXCEPT ![p] = on]
    /\ RegistryChanges
    /\ IF on THEN WriteCatchup ELSE UNCHANGED <<catchup, rewritten>>
    /\ UNCHANGED <<lock, codexMarker, success, report, known, home, policy, codexOn,
                   scanned, retry, dormant, run, faults>>

(* The identity belongs to another project: its row or its directory.      *)
Taken(p, i) == \E q \in Projects \ {p} : i \in {known[q], home[q]}

(* A project is given a new path, or its own path again.                   *)
Relink(p) ==
    /\ Event
    /\ \E i \in Identities :
         /\ ~Taken(p, i)
         /\ known[p] # i \/ home[p] # i
         /\ known' = [known EXCEPT ![p] = i]
         /\ home' = [home EXCEPT ![p] = i]
    /\ RegistryChanges
    /\ UNCHANGED <<lock, markers, enabled, policy, codexOn, scanned, retry, dormant,
                   run, faults>>

(* The directory at a project's path is removed, replaced or put back; no  *)
(* directory is at two paths.                                              *)
MoveDirectory(p) ==
    /\ Event
    /\ \E i \in (Identities \cup {NONE}) \ {home[p]} :
         /\ i # NONE => \A q \in Projects : home[q] # i
         /\ home' = [home EXCEPT ![p] = i]
    /\ UNCHANGED <<lock, markers, registry, policy, codexOn, scanned, retry, dormant,
                   run, faults>>

SwitchCodex ==
    /\ Event
    /\ codexOn' = ~codexOn
    /\ UNCHANGED <<lock, markers, registry, home, policy, scanned, retry, dormant,
                   run, faults>>

(* A capture that could not be stored is queued for a retry.               *)
Enqueue(p) ==
    /\ Event
    /\ enabled[p] /\ Trusted(p)
    /\ p \notin retry
    /\ retry' = retry \cup {p}
    /\ UNCHANGED <<lock, markers, registry, home, policy, codexOn, scanned, dormant,
                   run, faults>>

(* The project has been without an observed change for inactive_days.      *)
FallDormant(p) ==
    /\ Event
    /\ p \notin dormant
    /\ dormant' = dormant \cup {p}
    /\ UNCHANGED <<lock, markers, registry, home, policy, codexOn, scanned, retry,
                   run, faults>>

(* A new parser policy: the checkpoints of the old one are void, and the   *)
(* migration leaves a marker of its own for Codex.                         *)
Upgrade ==
    /\ policy < MaxUpgrades
    /\ policy' = policy + 1
    /\ codexMarker' = policy + 1
    /\ UNCHANGED <<lock, catchup, success, report, rewritten, registry, home, codexOn,
                   events, scanned, retry, dormant, run, faults>>

(* 24 hours pass: the last success, and one a run is about to record.      *)
Day ==
    /\ success' = IF success = "fresh" THEN "due" ELSE success
    /\ run' = [r \in Runners |-> IF Active(r) THEN [run[r] EXCEPT !.aged = TRUE]
                                 ELSE run[r]]
    /\ UNCHANGED <<lock, catchup, codexMarker, report, rewritten, registry, world,
                   scanned, retry, dormant, faults>>

-----------------------------------------------------------------------------
(* The stages of a run.                                                    *)

LockFree == lock = NONE

(* run: a caller that finds the lock taken returns and changes nothing.    *)
(* _run_locked: the schedule is asked under the lock, then the Codex       *)
(* marker is read; with the Codex source off it can only stay pending.     *)
Start(r, force) ==
    /\ ~Active(r)
    /\ LockFree
    /\ force \/ Due
    /\ lock' = r
    /\ run' = [run EXCEPT ![r] =
                 [pc |-> "discover", token |-> codexMarker, policy |-> policy,
                  codex |-> codexOn, found |-> {}, aged |-> FALSE,
                  flags |-> IF codexMarker # NONE /\ ~codexOn
                            THEN {"pending", "degraded"} ELSE {}]]
    /\ rewritten' = [rewritten EXCEPT ![r] = "no"]
    /\ UNCHANGED <<catchup, codexMarker, success, report, registry, world, scanned,
                   retry, dormant, faults>>

Stage(r, here, next, raised) ==
    /\ run[r].pc = here
    /\ run' = [run EXCEPT ![r].pc = next, ![r].flags = @ \cup raised]

(* Mutant of Registrable: a row without an identity is not registered.     *)
RegistrableBound == {p \in Projects : home[p] # NONE /\ known[p] = home[p]}

(* register accepts a directory that is new to the row or the same as      *)
(* before and that no other row holds, whether the project is enabled or   *)
(* not.                                                                    *)
Registrable ==
    {p \in Projects : home[p] # NONE /\ known[p] \in {NONE, home[p]} /\ ~Taken(p, home[p])}

Discover(r) ==
    /\ run[r].pc = "discover"
    /\ \E outcome \in {"complete", "issues", "raised"} :
       \E found \in SUBSET Registrable :
         LET failed == \/ outcome # "complete"
                       \/ \E p \in Projects \ found : home[p] # NONE
         IN /\ outcome = "complete" => found = Registrable
            /\ outcome = "raised" => found = {}
            /\ Fault(outcome # "complete")
            /\ run' = [run EXCEPT ![r].pc = "facts", ![r].found = found,
                         ![r].flags = @ \cup (IF failed THEN {"core"} ELSE {})]
            /\ known' = [p \in Projects |-> IF p \in found THEN home[p] ELSE known[p]]
            /\ IF found = {} THEN UNCHANGED drifted ELSE RegistryChanges
    /\ UNCHANGED <<lock, markers, enabled, world, scanned, retry, dormant>>

(* scan warns about a project that is disabled, gone or replaced.          *)
Warns(p) == ~(enabled[p] /\ Trusted(p))

(* A new fact, like a new task, is an observed change and wakes a project. *)
ScanFacts(r) ==
    \E outcome \in {"scanned", "warned", "raised"}, woken \in SUBSET dormant :
      /\ \A p \in woken : p \in run[r].found /\ ~Warns(p)
      /\ dormant' = dormant \ woken
      /\ Fault(outcome # "scanned")
      /\ Stage(r, "facts", "retry",
               CASE outcome = "raised" -> {"core"}
                 [] outcome = "warned" \/ \E p \in run[r].found : Warns(p) -> {"degraded"}
                 [] OTHER -> {})
      /\ UNCHANGED <<lock, markers, registry, world, scanned, retry>>

(* An item is delivered if its project is enabled and in its place; the    *)
(* items that remain keep the run from being a success.                    *)
DrainRetries(r) ==
    \E outcome \in {"drained", "raised"}, failing \in SUBSET retry :
      LET remaining == failing \cup {p \in retry : Warns(p)}
      IN /\ Fault(outcome = "raised" \/ failing # {})
         /\ retry' = remaining
         /\ Stage(r, "retry", "codex",
                  CASE outcome = "raised" -> {"core"}
                    [] outcome = "drained" /\ remaining # {} -> {"pending", "degraded"}
                    [] OTHER -> {})
         /\ UNCHANGED <<lock, markers, registry, world, scanned, dormant>>

(* What a failed Codex pass adds to the flags of the run.                  *)
CodexFailure(r) ==
    IF run[r].token # NONE THEN {"pending", "degraded"} ELSE {"degraded"}

IngestCodex(r) ==
    \E failing \in SUBSET Scopes, woken \in SUBSET dormant :
      /\ failing = {} \/ run[r].codex
      /\ woken = {} \/ run[r].codex
      /\ \A p \in woken : ~Warns(p)
      /\ dormant' = dormant \ woken
      /\ Fault(failing # {})
      /\ scanned' = [s \in Scopes |-> IF run[r].codex /\ s \notin failing
                                      THEN run[r].policy ELSE scanned[s]]
      /\ Stage(r, "codex", "registry", IF failing = {} THEN {} ELSE CodexFailure(r))
      /\ UNCHANGED <<lock, markers, registry, world, retry>>

Untrusted == {p \in Projects : enabled[p] /\ ~Trusted(p)}

SnapshotRegistry(r) ==
    \E raised \in BOOLEAN :
      /\ Fault(raised)
      /\ Stage(r, "registry", "chatgpt",
               CASE raised -> {"core"}
                 [] ~raised /\ Untrusted # {} -> {"pending", "degraded"}
                 [] OTHER -> {})
      /\ drifted' = drifted \ {r}
      /\ UNCHANGED <<lock, markers, enabled, known, world, scanned, retry, dormant>>

ImportInbox(r) ==
    \E raised \in {{}, {"degraded"}, {"pending", "degraded"}} :
      /\ Fault(raised # {})
      /\ Stage(r, "chatgpt", "pending", raised)
      /\ UNCHANGED <<lock, markers, registry, world, scanned, retry, dormant>>

ExpirePending(r) ==
    \E raised \in {{}, {"core"}, {"pending", "degraded"}} :
      /\ Fault(raised # {})
      /\ Stage(r, "pending", "compact", raised)
      /\ UNCHANGED <<lock, markers, registry, world, scanned, retry, dormant>>

(* Compaction is skipped by a run that is not clean.                       *)
Compact(r) ==
    LET eligible == IF run[r].flags = {} THEN {p \in dormant : enabled[p]} ELSE {}
    IN \E left \in SUBSET eligible :
         /\ Fault(left # {})
         /\ dormant' = dormant \ (eligible \ left)
         /\ Stage(r, "compact", "improve",
                  IF left = {} THEN {} ELSE {"pending", "degraded"})
         /\ UNCHANGED <<lock, markers, registry, world, scanned, retry>>

Improve(r) ==
    \E raised \in {{}, {"degraded"}} :
      /\ Fault(raised # {})
      /\ Stage(r, "improve", "finish", raised)
      /\ UNCHANGED <<lock, markers, registry, world, scanned, retry, dormant>>

-----------------------------------------------------------------------------
(* The end of a run.                                                       *)

Leave(r) ==
    /\ lock' = IF lock = r THEN NONE ELSE lock
    /\ run' = [run EXCEPT ![r] = Asleep]

Incomplete(r) == run[r].flags \cap {"core", "pending"} # {}

(* Mutant of Current: the directories are not looked at again.             *)
CurrentGeneration(r) == r \notin drifted

(* Mutant of Current: the generation is not compared.                      *)
CurrentIdentities(r) == Untrusted = {}

(* _require_project_registry_current, inside the final transaction.        *)
Current(r) == r \notin drifted /\ Untrusted = {}

(* Mutant of TokenMatches: the marker is deleted whatever its value.       *)
TokenIgnored(r) == TRUE

TokenMatches(r) == run[r].token \in {NONE, codexMarker}

Complete(r) ==
    /\ run[r].pc = "finish" /\ ~Incomplete(r)
    /\ Current(r)
    /\ TokenMatches(r)
    /\ catchup' = FALSE
    /\ codexMarker' = IF run[r].token = NONE THEN codexMarker ELSE NONE
    /\ success' = IF run[r].aged THEN "due" ELSE "fresh"
    /\ report' = IF run[r].flags = {} THEN "success" ELSE "degraded"
    /\ Leave(r)
    /\ UNCHANGED <<rewritten, registry, world, scanned, retry, dormant, faults>>

(* The final transaction is rolled back: the registry moved, the Codex     *)
(* marker is another one, or the write failed.                             *)
CompletionFails(r) ==
    /\ run[r].pc = "finish" /\ ~Incomplete(r)
    /\ \/ /\ ~Current(r)
          /\ Fault(FALSE)
          /\ run' = [run EXCEPT ![r].pc = "drift"]
       \/ /\ Fault(TokenMatches(r))
          /\ run' = [run EXCEPT ![r].pc = "report"]
    /\ UNCHANGED <<lock, markers, registry, world, scanned, retry, dormant>>

RecordIncomplete(r) ==
    /\ \/ run[r].pc = "finish" /\ Incomplete(r)
       \/ run[r].pc = "drift"
    /\ \/ /\ WriteCatchup
          /\ report' = IF "core" \in run[r].flags THEN "failed" ELSE "degraded"
          /\ Fault(FALSE)
       \/ /\ UNCHANGED <<catchup, rewritten, report>>
          /\ Fault(TRUE)
    /\ Leave(r)
    /\ UNCHANGED <<codexMarker, success, registry, world, scanned, retry, dormant>>

RecordFailure(r) ==
    /\ run[r].pc = "report"
    /\ \/ report' = "failed" /\ Fault(FALSE)
       \/ UNCHANGED report /\ Fault(TRUE)
    /\ Leave(r)
    /\ UNCHANGED <<catchup, codexMarker, success, rewritten, registry, world, scanned,
                   retry, dormant>>

(* The process dies: the kernel releases the lock.                         *)
Crash(r) ==
    /\ Active(r)
    /\ Fault(TRUE)
    /\ Leave(r)
    /\ UNCHANGED <<markers, registry, world, scanned, retry, dormant>>

Step(r) ==
    \/ Discover(r) \/ ScanFacts(r) \/ DrainRetries(r) \/ IngestCodex(r)
    \/ SnapshotRegistry(r) \/ ImportInbox(r) \/ ExpirePending(r) \/ Compact(r)
    \/ Improve(r) \/ Complete(r) \/ CompletionFails(r) \/ RecordIncomplete(r)
    \/ RecordFailure(r)

Environment ==
    \/ \E p \in Projects : \/ \E on \in BOOLEAN : SetEnabled(p, on)
                           \/ Relink(p)
                           \/ MoveDirectory(p)
                           \/ Enqueue(p)
                           \/ FallDormant(p)
    \/ SwitchCodex
    \/ Upgrade
    \/ Day

Next ==
    \/ Environment
    \/ \E r \in Runners : \/ \E force \in BOOLEAN : Start(r, force)
                          \/ Step(r)
                          \/ Crash(r)

Spec == Init /\ [][Next]_vars

-----------------------------------------------------------------------------
(* Properties.                                                             *)

Stale == {s \in Scopes : scanned[s] # policy}

(* As long as a Codex scope still has the checkpoint of an older parser    *)
(* policy, the Codex marker is there and keeps reconcile due, whatever     *)
(* failed, crashed, was switched off or was upgraded during a run: the     *)
(* compare-and-delete of _record_completion.                               *)
CodexCatchupKept == Stale # {} => codexMarker # NONE

(* As long as an enabled project of before schema v8 has no identity yet,  *)
(* the catch-up marker is there: the snapshot and set_enabled.             *)
UnboundIsDue == (\E p \in Projects : enabled[p] /\ known[p] = NONE) => catchup

(* Reconcile stays due as long as there is something only it can make good. *)
MarkersKept == CodexCatchupKept /\ UnboundIsDue

(* A marker is cleared and a success recorded only at an instant at which  *)
(* every enabled project is in its place, however the directories moved    *)
(* while the run was going on.                                             *)
CompletionIsCurrent ==
    [][ (catchup /\ ~catchup') \/ (success # "fresh" /\ success' = "fresh")
          => \A p \in Projects : enabled[p] => Trusted(p) ]_vars

(* A catch-up marker written after the registry snapshot of the run in     *)
(* progress, by the owner or by another run, outlives that run.            *)
LateMarkerKept ==
    [][ catchup /\ ~catchup' => \A r \in Runners : Active(r) => rewritten[r] # "late" ]_vars

(* What the design asks for, at least for a marker written when discovery  *)
(* and the fact scan of the run in progress are over: that run did not do  *)
(* what the marker asks for, and so must not clear it.                     *)
NewMarkerKept ==
    [][ catchup /\ ~catchup' => \A r \in Runners : Active(r) => rewritten[r] = "no" ]_vars

(* Codex is on, every project is in its place, and no retry item belongs   *)
(* to a disabled project, where it could never be delivered.               *)
Settled ==
    /\ codexOn
    /\ \A p \in Projects : home[p] # NONE /\ known[p] \in {NONE, home[p]}
    /\ \A p \in retry : enabled[p]
=============================================================================
