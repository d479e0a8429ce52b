---------------------------- MODULE ProjectFacts ----------------------------
(* services/project_facts.py, storage/facts.py and storage/promotions.py:   *)
(* scanners read the directory of a project through an anchor and store     *)
(* what they found with the time of the scan; the owner approves rules; and *)
(* the directory, its files and its registration change meanwhile.          *)
(*                                                                          *)
(* A content is [from, version, safe]: the directory it was read in, the    *)
(* version of what was read, and whether git ran under a safe config.       *)
EXTENDS Integers, FiniteSets, FiniteSetsExt

CONSTANTS
  Scanners,
  Directories,  \* inodes that may be at the registered path
  Promotions,
  MaxClock,
  MaxChanges,   \* bound on edits, replacements, switches and relinks
  NONE

VARIABLES
  clock,
  here,        \* the directory at the registered path
  files,       \* directory -> version of its manifests, headings and tree
  git,         \* directory -> [version, safe] of the git configuration
  row,         \* the project: [identity, enabled, observed]
  facts,       \* rows: [slot, content, at, state]
  promotions,  \* promotion -> "none", "pending" or "approved"
  scan,        \* scanner -> [pc, dir, config, found, at]
  changes

vars == <<clock, here, files, git, row, facts, promotions, scan, changes>>
world == <<clock, here, files, git, changes>>

\* the slot of a rule: its evidence reference names the promotion
Rule(p) == p

Idle == [pc |-> "idle", dir |-> NONE, config |-> NONE, found |-> {}, at |-> 0]

At(s, step) == scan[s].pc = step
Advance(s, step) == scan' = [scan EXCEPT ![s].pc = step]

----------------------------------------------------------------------------
(* FactRepository: a slot is a category with its evidence reference.       *)

Fact(slot, content, at, state) == [slot |-> slot, content |-> content, at |-> at, state |-> state]

Current(rows, slot) == {r \in rows : r.slot = slot /\ r.state = "active"}

Winners(rows, slot) ==
  {r \in Current(rows, slot) : \A q \in Current(rows, slot) : q.at <= r.at}

(* Mutant: the last observation to be stored wins.                         *)
LastStoredWins(rows, f) == TRUE

IncomingWins(rows, f) ==
  \A w \in Winners(rows, f.slot) : f.content = w.content \/ f.at > w.at

(* _observe_on_connection: what loses turns cold, and the row with the     *)
(* content of f is refreshed or inserted.                                   *)
Observed(f, rows) ==
  LET wins == IncomingWins(rows, f)
      exact == {r \in rows : r.slot = f.slot /\ r.content = f.content}
      lost == {r \in Current(rows, f.slot) : wins /\ r.content # f.content}
      at == Max({f.at} \cup {r.at : r \in exact})
  IN ((rows \ exact) \ lost)
       \cup {[r EXCEPT !.state = "cold"] : r \in lost}
       \cup {Fact(f.slot, f.content, at, IF wins THEN "active" ELSE "cold")}

(* Whether an observation changed what is current.                         *)
EffectiveChange(rows, after) ==
  \E r \in after : r.state = "active" /\ \A q \in rows : q.state = "active" =>
    q.slot # r.slot \/ q.content # r.content

ObservedAll(found, at) ==
  FoldSet(LAMBDA f, rows : Observed(Fact(f.slot, f.content, at, "active"), rows), facts, found)

----------------------------------------------------------------------------
(* A scan.                                                                 *)

(* The row belongs to the directory that was opened.                       *)
RecordMatches(dir) == row.enabled /\ row.identity = dir

OpenAnchor(s) ==
  /\ At(s, "idle")
  /\ here # NONE /\ RecordMatches(here)
  /\ scan' = [scan EXCEPT ![s] = [Idle EXCEPT !.pc = "config", !.dir = here]]
  /\ UNCHANGED <<row, facts, promotions, world>>

Found(s, slot, version, safe, step) ==
  \/ scan' = [scan EXCEPT ![s].pc = step, ![s].found = @ \cup
       {[slot |-> slot, content |-> [from |-> scan[s].dir, version |-> version, safe |-> safe]]}]
  \/ Advance(s, step)  \* unreadable, too large, or changed while it was read

(* Without a safe configuration git is not asked.                          *)
OpenGitConfig(s) ==
  /\ At(s, "config")
  /\ LET config == git[scan[s].dir] IN
     scan' = [scan EXCEPT ![s].pc = IF config.safe THEN "git" ELSE "files", ![s].config = config]
  /\ UNCHANGED <<row, facts, promotions, world>>

GitFacts(s) ==
  /\ At(s, "git")
  /\ LET config == git[scan[s].dir] IN Found(s, "git", config.version, config.safe, "confirm")
  /\ UNCHANGED <<row, facts, promotions, world>>

ConfigSame(s) == git[scan[s].dir] = scan[s].config

(* The facts of git are kept if the configuration is the one checked.      *)
ConfirmGitConfig(s) ==
  /\ At(s, "confirm")
  /\ scan' = [scan EXCEPT ![s].pc = "files", ![s].found = IF ConfigSame(s) THEN @ ELSE {}]
  /\ UNCHANGED <<row, facts, promotions, world>>

(* The manifests, the headings and the tree, each by its own descriptor.   *)
ReadFiles(s) ==
  /\ At(s, "files")
  /\ Found(s, "files", files[scan[s].dir], TRUE, "verify")
  /\ UNCHANGED <<row, facts, promotions, world>>

AnchorMatches(s) == here = scan[s].dir

(* The time of the observation is taken after the reading.                 *)
Stamp(s) ==
  /\ At(s, "verify")
  /\ scan' = IF AnchorMatches(s) /\ RecordMatches(scan[s].dir)
             THEN [scan EXCEPT ![s].pc = "commit", ![s].at = clock]
             ELSE [scan EXCEPT ![s] = Idle]
  /\ UNCHANGED <<row, facts, promotions, world>>

(* Mutant: the transaction trusts the check made before it.                *)
CheckedBefore(s) == TRUE

StillThere(s) == AnchorMatches(s) /\ RecordMatches(scan[s].dir)

(* One transaction, with the check inside it; an effective change advances *)
(* the last observation of the project.                                     *)
ObserveMany(s) ==
  /\ At(s, "commit")
  /\ scan' = [scan EXCEPT ![s] = Idle]
  /\ LET after == ObservedAll(scan[s].found, scan[s].at) IN
     IF StillThere(s)
     THEN /\ facts' = after
          /\ row' = IF EffectiveChange(facts, after) /\ scan[s].at > row.observed
                    THEN [row EXCEPT !.observed = scan[s].at] ELSE row
     ELSE UNCHANGED <<facts, row>>
  /\ UNCHANGED <<promotions, world>>

----------------------------------------------------------------------------
(* Promotions, by the owner in several panels.                             *)

RequestPromotion(p) ==
  /\ promotions[p] = "none"
  /\ promotions' = [promotions EXCEPT ![p] = "pending"]
  /\ UNCHANGED <<row, facts, scan, world>>

(* Approving once more observes the same rule again.                       *)
ApprovePromotion(p) ==
  /\ promotions[p] \in {"pending", "approved"}
  /\ promotions' = [promotions EXCEPT ![p] = "approved"]
  /\ facts' = Observed(Fact(Rule(p), p, clock, "active"), facts)
  /\ UNCHANGED <<row, scan, world>>

----------------------------------------------------------------------------
(* The owner and other programs.                                           *)

Tick ==
  /\ clock < MaxClock /\ clock' = clock + 1
  /\ UNCHANGED <<here, files, git, row, facts, promotions, scan, changes>>

Changing == changes < MaxChanges /\ changes' = changes + 1

EditFile ==
  /\ Changing /\ here # NONE
  /\ files' = [files EXCEPT ![here] = @ + 1]
  /\ UNCHANGED <<clock, here, git, row, facts, promotions, scan>>

EditGitConfig ==
  /\ Changing /\ here # NONE
  /\ \E safe \in BOOLEAN : git' = [git EXCEPT ![here] = [version |-> @.version + 1, safe |-> safe]]
  /\ UNCHANGED <<clock, here, files, row, facts, promotions, scan>>

ReplaceDirectory ==
  /\ Changing
  /\ \E d \in Directories \cup {NONE} : d # here /\ here' = d
  /\ UNCHANGED <<clock, files, git, row, facts, promotions, scan>>

(* Relinking the project to what is at its path, or switching it.          *)
ChangeRow ==
  /\ Changing
  /\ \/ here \notin {NONE, row.identity} /\ row' = [row EXCEPT !.identity = here]
     \/ row' = [row EXCEPT !.enabled = ~@]
  /\ UNCHANGED <<clock, here, files, git, facts, promotions, scan>>

Init ==
  /\ clock = 1 /\ changes = 0
  /\ here \in Directories
  /\ files = [d \in Directories |-> 0]
  /\ git = [d \in Directories |-> [version |-> 0, safe |-> TRUE]]
  /\ row = [identity |-> here, enabled |-> TRUE, observed |-> 0]
  /\ facts = {}
  /\ promotions = [p \in Promotions |-> "none"]
  /\ scan = [s \in Scanners |-> Idle]

Scan(s) ==
  \/ OpenAnchor(s) \/ OpenGitConfig(s) \/ GitFacts(s) \/ ConfirmGitConfig(s)
  \/ ReadFiles(s) \/ Stamp(s) \/ ObserveMany(s)

Next ==
  \/ Tick \/ EditFile \/ EditGitConfig \/ ReplaceDirectory \/ ChangeRow
  \/ \E s \in Scanners : Scan(s)
  \/ \E p \in Promotions : RequestPromotion(p) \/ ApprovePromotion(p)

Spec == Init /\ [][Next]_vars

----------------------------------------------------------------------------
(* Properties.                                                             *)

(* A slot has one current content, which is the last one observed, however *)
(* the scans overtake one another; and a rule is a fact if and only if it   *)
(* was approved.                                                            *)
CurrentIsLatest ==
  /\ \A r \in facts :
       /\ \E w \in Current(facts, r.slot) : r.at <= w.at
       /\ \A w, v \in Current(facts, r.slot) : w.content = v.content
  /\ \A p \in Promotions :
       promotions[p] = "approved" <=> Current(facts, Rule(p)) # {}

(* What a scan stores was read in the directory that is at the registered  *)
(* path and to which the row is bound, and by git only under a safe        *)
(* configuration.                                                           *)
ReadWhereRegistered ==
  \A r \in facts' \ facts :
    r.slot \in {"git", "files"} /\ (\A q \in facts : q.content # r.content) =>
      /\ here = r.content.from /\ row.identity = here /\ row.enabled
      /\ r.content.safe
=============================================================================
