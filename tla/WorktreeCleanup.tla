-------------------------- MODULE WorktreeCleanup --------------------------
(* improvement/git_apply.py: the private worktree of a proposal and its     *)
(* metadata in .git/worktrees are removed at the end of an apply, and again *)
(* by each recovery as long as Git lists the worktree. A directory is first *)
(* renamed to a name of its own, then removed, or renamed back. Meanwhile a *)
(* program that the verification left behind may put something at the       *)
(* worktree's name, the owner works with other worktrees and prunes, calls  *)
(* fail and the process may be killed.                                      *)
EXTENDS Naturals

CONSTANTS
  Strays,      \* what others may put at the worktree's name
  Worktrees,   \* metadata of other worktrees, that may get its name
  Directories, \* those of both that are directories
  MaxChanges,  \* bound: what others do
  MaxFaults,   \* bound: failing calls, and kills
  NONE

VARIABLES
  at,      \* what has the worktree's name and the metadata's name
  hidden,  \* what has the name of a quarantine
  removed, \* what the service removed
  call,    \* [of, pc, selected, moved, failed, stale]
  changes, faults

vars == <<at, hidden, removed, call, changes, faults>>
places == <<at, hidden, removed>>

(* "husk" is metadata that lost its files in a removal that failed.         *)
IsDirectory(e) == e \in Directories \cup {"tree", "metadata", "husk"}

(* _registered_worktree: Git lists a worktree by the file in its metadata,  *)
(* under whatever name these are.                                           *)
Registered == at["metadata"] = "metadata" \/ "metadata" \in hidden

Stale == Registered /\ at["worktree"] # "tree"

Fault == faults < MaxFaults /\ faults' = faults + 1

Goes(pc) == [call EXCEPT !.pc = pc]

(* git worktree add may have failed before or after it registered the tree. *)
Init ==
  /\ \E metadata \in {"metadata", NONE}, known \in BOOLEAN :
       /\ known => metadata = "metadata"
       /\ at = [worktree |-> "tree", metadata |-> metadata]
       /\ call = [of |-> "apply", pc |-> IF known THEN "read" ELSE "registered",
                  selected |-> NONE, moved |-> NONE, failed |-> FALSE, stale |-> FALSE]
  /\ hidden = {} /\ removed = {} /\ changes = 0 /\ faults = 0

(* Mutant of Raised: an error of _git_cleanup is forgotten.                 *)
Forgotten == Goes(IF call.of = "apply" THEN "directory" ELSE "failed")

(* _cleanup_created_worktree: what the rest of the call makes of an error   *)
(* of _git_cleanup. A recovery ends with it.                                *)
Raised ==
  IF call.of = "apply" THEN [call EXCEPT !.pc = "directory", !.failed = TRUE]
  ELSE Goes("failed")

(* A step at pc of the call, that may fail with nothing done.               *)
Step(pc, step, otherwise) ==
  /\ call.pc = pc
  /\ \/ step /\ UNCHANGED faults
     \/ Fault /\ call' = otherwise /\ UNCHANGED places
  /\ UNCHANGED changes

Answer(pc, next, otherwise) == Step(pc, call' = next /\ UNCHANGED places, otherwise)

AskRegistered ==
  Answer("registered", Goes(IF Registered THEN "read" ELSE "directory"), Raised)

----------------------------------------------------------------------------
(* _git_cleanup.                                                            *)

(* _worktree_admin_directory: the worktree names its metadata, which name   *)
(* it; and Git lists it once.                                               *)
ReadMetadata ==
  Answer("read",
         IF at = [worktree |-> "tree", metadata |-> "metadata"] THEN Goes("list")
         ELSE Raised, Raised)

ListWorktrees ==
  Answer("list", IF Registered THEN Goes("stat tree") ELSE Raised, Raised)

(* _quarantine_private_directory: what is at the name is looked at, renamed *)
(* and compared. What was not looked at is not put back, because            *)
(* _restore_quarantined_directory asks for the identity of what was looked  *)
(* at; nor is what cannot be compared.                                      *)
Stat(pc, name, next, otherwise) ==
  Answer(pc,
         IF IsDirectory(at[name]) THEN [Goes(next) EXCEPT !.selected = at[name]]
         ELSE otherwise, otherwise)

Rename(pc, name, next, otherwise) ==
  /\ call.pc = pc
  /\ \/ at[name] = NONE /\ call' = otherwise /\ UNCHANGED <<places, faults>>
     \/ /\ at[name] # NONE
        /\ at' = [at EXCEPT ![name] = NONE]
        /\ hidden' = hidden \cup {at[name]}
        /\ \/ call' = (IF at[name] = call.selected THEN next ELSE otherwise)
              /\ UNCHANGED faults
           \/ Fault /\ call' = otherwise
        /\ UNCHANGED removed
  /\ UNCHANGED changes

StatTree == Stat("stat tree", "worktree", "move tree", Raised)

MoveTree ==
  Rename("move tree", "worktree",
         [Goes("stat metadata") EXCEPT !.moved = call.selected], Raised)

StatMetadata == Stat("stat metadata", "metadata", "move metadata", Goes("undo tree"))

MoveMetadata == Rename("move metadata", "metadata", Goes("compare"), Goes("undo tree"))

(* A quarantined directory gets a free name again.                          *)
Restore(name, e) ==
  /\ at[name] = NONE /\ e \in hidden
  /\ at' = [at EXCEPT ![name] = e]
  /\ hidden' = hidden \ {e}
  /\ UNCHANGED removed

(* Mutant of MetadataUnchanged: whatever metadata are there now are taken.  *)
TakenAsFound == TRUE

MetadataUnchanged == call.selected = "metadata"

(* _quarantine_worktree_admin: the metadata of another worktree go back.    *)
CompareMetadata ==
  /\ call.pc = "compare"
  /\ IF MetadataUnchanged
     THEN call' = Goes("look") /\ UNCHANGED places
     ELSE /\ call' = Goes("undo tree")
          /\ \/ Restore("metadata", call.selected)
             \/ at["metadata"] # NONE /\ UNCHANGED places
  /\ UNCHANGED <<changes, faults>>

(* _remove_entry_at: what has appeared at the worktree's name goes.         *)
RemoveEntry ==
  /\ at' = [at EXCEPT !["worktree"] = NONE]
  /\ removed' = removed \cup ({at["worktree"]} \ {NONE})
  /\ UNCHANGED hidden

LookAgain ==
  Step("look",
       /\ RemoveEntry
       /\ call' = Goes(IF at["worktree"] = NONE THEN "delete metadata"
                       ELSE "undo metadata"),
       Goes("undo metadata"))

(* _remove_quarantined_directory.                                           *)
Remove(e, next) ==
  /\ e \in hidden
  /\ hidden' = hidden \ {e} /\ removed' = removed \cup {e}
  /\ call' = next
  /\ UNCHANGED at

(* A removal that fails in its middle leaves metadata without their files.  *)
DeleteMetadata ==
  \/ Step("delete metadata",
          \/ Remove(call.selected, Goes("unregistered"))
          \/ /\ call.selected \notin hidden
             /\ call' = Goes("undo metadata") /\ UNCHANGED places,
          Goes("undo metadata"))
  \/ /\ call.pc = "delete metadata" /\ call.selected \in hidden
     /\ Fault
     /\ hidden' = (hidden \ {call.selected}) \cup {"husk"}
     /\ call' = [Goes("undo metadata") EXCEPT !.selected = "husk"]
     /\ UNCHANGED <<at, removed, changes>>

AskUnregistered ==
  Step("unregistered",
       RemoveEntry /\ call' = Goes(IF Registered THEN "undo tree" ELSE "delete tree"),
       Goes("undo tree"))

DeleteTree == Step("delete tree", Remove(call.moved, Goes("directory")), Goes("undo tree"))

(* The way back; metadata that cannot go back keep the tree away, too.      *)
UndoMetadata ==
  Step("undo metadata",
       \/ Restore("metadata", call.selected) /\ call' = Goes("undo tree")
       \/ /\ ~(at["metadata"] = NONE /\ call.selected \in hidden)
          /\ call' = Raised /\ UNCHANGED places,
       Raised)

UndoTree ==
  Step("undo tree", RemoveEntry /\ call' = Goes("restore tree"), Raised)

RestoreTree ==
  Step("restore tree",
       /\ call' = Raised
       /\ \/ Restore("worktree", call.moved)
          \/ at["worktree"] # NONE /\ UNCHANGED places,
       Raised)

----------------------------------------------------------------------------
(* _remove_private_directory, and the end of the call.                      *)

Ended(failed) == Goes(IF call.failed \/ failed THEN "failed" ELSE "ok")

LookForDirectory ==
  Answer("directory",
         IF at["worktree"] = NONE THEN Ended(FALSE) ELSE Goes("stat directory"),
         Ended(TRUE))

StatDirectory == Stat("stat directory", "worktree", "move directory", Ended(TRUE))

MoveDirectory ==
  Rename("move directory", "worktree", Goes("delete directory"), Ended(TRUE))

DeleteDirectory ==
  Step("delete directory", Remove(call.selected, Ended(FALSE)), Ended(TRUE))

(* _cleanup_recovery_worktrees: a recovery cleans what Git lists.           *)
Recover ==
  /\ call.pc \in {"failed", "killed"}
  /\ call' = [of |-> "recover", pc |-> IF Registered THEN "read" ELSE "ok",
              selected |-> NONE, moved |-> NONE, failed |-> FALSE, stale |-> Stale]
  /\ UNCHANGED <<places, changes, faults>>

----------------------------------------------------------------------------
(* Around the service.                                                      *)

Kill ==
  /\ call.pc \notin {"ok", "failed", "killed"}
  /\ Fault
  /\ call' = Goes("killed")
  /\ UNCHANGED <<places, changes>>

Changed == changes < MaxChanges /\ changes' = changes + 1

Elsewhere(e) == e \notin {at["worktree"], at["metadata"]} \cup hidden \cup removed

(* Something gets the name; what had it is moved where nobody looks.        *)
Put(name, e) ==
  /\ Changed
  /\ Elsewhere(e)
  /\ at' = [at EXCEPT ![name] = e]
  /\ UNCHANGED <<hidden, removed, call, faults>>

(* git worktree prune: the metadata of a worktree that is not there go.     *)
Prune ==
  /\ Changed
  /\ Stale
  /\ at' = [at EXCEPT !["metadata"] = IF @ = "metadata" THEN NONE ELSE @]
  /\ hidden' = hidden \ {"metadata"}
  /\ UNCHANGED <<removed, call, faults>>

Next ==
  \/ AskRegistered
  \/ ReadMetadata \/ ListWorktrees \/ StatTree \/ MoveTree
  \/ StatMetadata \/ MoveMetadata \/ CompareMetadata \/ LookAgain
  \/ DeleteMetadata \/ AskUnregistered \/ DeleteTree
  \/ UndoMetadata \/ UndoTree \/ RestoreTree
  \/ LookForDirectory \/ StatDirectory \/ MoveDirectory \/ DeleteDirectory
  \/ Recover \/ Kill \/ Prune
  \/ \E e \in Strays : Put("worktree", e)
  \/ \E e \in Worktrees : Put("metadata", e)

Spec == Init /\ [][Next]_vars

----------------------------------------------------------------------------
(* docs/operations.md:340: it removes no directory but its own. What takes  *)
(* the private worktree's name counts as such, what takes the name of its   *)
(* metadata does not.                                                       *)
OnlyOwnRemoved == removed \cap Worktrees = {}

(* A cleanup that ends well has left Git no worktree of the proposal, and   *)
(* at the end of an apply no directory either, whatever the others did. A   *)
(* recovery that finds a registration without its directory never does.     *)
OkIsGone ==
  call.pc = "ok" =>
    /\ ~Registered /\ ~call.stale
    /\ call.of = "apply" =>
         {"tree", "metadata"} \cap ({at["worktree"], at["metadata"]} \cup hidden) = {}
=============================================================================
