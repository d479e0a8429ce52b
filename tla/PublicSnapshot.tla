--------------------------- MODULE PublicSnapshot ---------------------------
(* scripts/prepare_public_snapshot.py: a worktree with the audited tree is  *)
(* built in a private directory, renamed to its final path and rolled back  *)
(* when anything fails, while another run builds the same snapshot and      *)
(* other programs of the same user rename directories, create the path or   *)
(* the branch, and change the source repository.                            *)
(*                                                                          *)
(* A directory is an inode <<kind, builder>>; a place is a directory entry, *)
(* and has for a private directory and for metadata the name of what its    *)
(* builder puts there.                                                      *)
(* The names of the directories put aside are unpredictable: nobody else    *)
(* touches those.                                                           *)
EXTENDS Integers

CONSTANTS
  Builders,
  MaxFaults,  \* bound on steps that fail by themselves
  MaxSwaps,   \* bound on what other programs do
  NONE

VARIABLES
  at,        \* place -> the inode there, or NONE
  content,   \* inode -> "empty", "marker" (.git only), "tree", "user" or "gone"
  gitdir,    \* builder -> where its worktree metadata says the worktree is
  ref,       \* the snapshot branch: [oid, by], or NONE
  clean,     \* the source is still HEAD and unmodified
  aside,     \* <<inode, place>>: put aside and not restored
  pc,
  todo,      \* builder -> the directory it is putting aside: [place, inode, then, else]
  bound,     \* builder -> its metadata directory is bound
  created,   \* builders whose update-ref succeeded (created_commit)
  faults, swaps

vars == <<at, content, gitdir, ref, clean, aside, pc, todo, bound, created, faults, swaps>>

Final == <<"final", NONE>>
Places == {Final} \cup ({"anchor", "staging", "meta"} \X Builders)
Work(b) == <<"work", b>>
Anchor(b) == <<"anchor", b>>
Staging(b) == <<"staging", b>>
Meta(b) == <<"meta", b>>
Users == {<<"user", n>> : n \in 1..MaxSwaps}
Inodes == ({"work", "anchor", "meta"} \X Builders) \cup Users

Go(b, s) == pc' = [pc EXCEPT ![b] = s]

----------------------------------------------------------------------------
(* Putting a directory aside: it is renamed to an unpredictable name, and  *)
(* only then compared with the inode the run created.                       *)

Isolating(b, place, inode, then, else) ==
  /\ todo' = [todo EXCEPT ![b] = [place |-> place, inode |-> inode, then |-> then, else |-> else]]
  /\ Go(b, "isolate")

(* _rename_directory_noreplace to the private name.                        *)
Isolate(b) ==
  /\ pc[b] = "isolate"
  /\ LET t == todo[b] IN
     IF at[t.place] = NONE THEN Go(b, t.else) /\ UNCHANGED <<at, aside>>
     ELSE /\ at' = [at EXCEPT ![t.place] = NONE]
          /\ aside' = aside \cup {<<at[t.place], t.place>>}
          /\ Go(b, "inspect")
  /\ UNCHANGED <<content, gitdir, ref, clean, todo, bound, created, faults, swaps>>

Taken(b) == CHOOSE e \in aside : e[2] = todo[b].place

(* Mutant: what was renamed is not compared with what was to be removed.   *)
RemovesWhatIsThere(b) == TRUE

IsOwn(b) == Taken(b)[1] = todo[b].inode

RemoveContents(e) ==
  /\ content' = [content EXCEPT ![e[1]] = "gone"]
  /\ aside' = aside \ {e}
  /\ UNCHANGED at

(* Without replacing: when the name was taken meanwhile, both are kept.    *)
PutBack(e) ==
  /\ IF at[e[2]] = NONE
     THEN at' = [at EXCEPT ![e[2]] = e[1]] /\ aside' = aside \ {e}
     ELSE UNCHANGED <<at, aside>>
  /\ UNCHANGED content

Inspect(b) ==
  /\ pc[b] = "inspect"
  /\ IF IsOwn(b) THEN RemoveContents(Taken(b)) /\ Go(b, todo[b].then)
     ELSE PutBack(Taken(b)) /\ Go(b, todo[b].else)
  /\ UNCHANGED <<gitdir, ref, clean, todo, bound, created, faults, swaps>>

----------------------------------------------------------------------------
(* Building.                                                               *)

Forward == {"reserve", "ref", "add", "bind", "write", "verify", "retarget", "rename",
            "confirm", "last"}

SourceClean == clean
PathFree == at[Final] = NONE
RefFree == ref = NONE

(* The source, the receipt and the repeated audit agree, the branch and    *)
(* the path are free; the commit is the same in every run.                  *)
Check(b) ==
  /\ pc[b] = "start"
  /\ PathFree /\ RefFree /\ SourceClean
  /\ Go(b, "reserve")
  /\ UNCHANGED <<at, content, gitdir, ref, clean, aside, todo, bound, created, faults, swaps>>

Reserve(b) ==
  /\ pc[b] = "reserve"
  /\ PathFree
  /\ at' = [at EXCEPT ![Anchor(b)] = Anchor(b), ![Staging(b)] = Work(b)]
  /\ Go(b, "ref")
  /\ UNCHANGED <<content, gitdir, ref, clean, aside, todo, bound, created, faults, swaps>>

(* update-ref from the zero oid.                                           *)
CreateRef(b) ==
  /\ pc[b] = "ref"
  /\ RefFree
  /\ ref' = [oid |-> "snapshot", by |-> b]
  /\ created' = created \cup {b}
  /\ Go(b, "add")
  /\ UNCHANGED <<at, content, gitdir, clean, aside, todo, bound, faults, swaps>>

(* What the path of the staging directory leads to.                        *)
AtStagingPath(b) == IF at[Anchor(b)] = Anchor(b) THEN at[Staging(b)] ELSE NONE

Intact(b) == AtStagingPath(b) = Work(b)

(* git worktree add, by path: the metadata and the .git marker.            *)
AddWorktree(b) ==
  /\ pc[b] = "add"
  /\ SourceClean /\ Intact(b)
  /\ at' = [at EXCEPT ![Meta(b)] = Meta(b)]
  /\ content' = [content EXCEPT ![Work(b)] = "marker"]
  /\ gitdir' = [gitdir EXCEPT ![b] = "staging"]
  /\ Go(b, "bind")
  /\ UNCHANGED <<ref, clean, aside, todo, bound, created, faults, swaps>>

Bindable(b) ==
  Intact(b) /\ content[Work(b)] # "empty" /\ at[Meta(b)] = Meta(b) /\ gitdir[b] = "staging"

BindMetadata(b) ==
  /\ pc[b] = "bind"
  /\ Bindable(b)
  /\ bound' = [bound EXCEPT ![b] = TRUE]
  /\ Go(b, "write")
  /\ UNCHANGED <<at, content, gitdir, ref, clean, aside, todo, created, faults, swaps>>

(* read-tree and the files, by path, between two looks at the reservation: *)
(* they go to the directory that is at the path.                            *)
Materialize(b) ==
  /\ pc[b] = "write"
  /\ AtStagingPath(b) # NONE
  /\ content' = IF Intact(b) THEN [content EXCEPT ![Work(b)] = "tree"] ELSE content
  /\ Go(b, "verify")
  /\ UNCHANGED <<at, gitdir, ref, clean, aside, todo, bound, created, faults, swaps>>

RefIsOurs == ref # NONE /\ ref.oid = "snapshot"

Verify(b) ==
  /\ pc[b] = "verify"
  /\ Intact(b) /\ content[Work(b)] = "tree" /\ RefIsOurs /\ SourceClean
  /\ Go(b, "retarget")
  /\ UNCHANGED <<at, content, gitdir, ref, clean, aside, todo, bound, created, faults, swaps>>

(* _publish_worktree: the metadata is rewritten before the rename.         *)
RewriteGitdir(b) ==
  /\ pc[b] = "retarget"
  /\ Intact(b) /\ PathFree /\ at[Meta(b)] = Meta(b) /\ gitdir[b] = "staging"
  /\ gitdir' = [gitdir EXCEPT ![b] = "final"]
  /\ Go(b, "rename")
  /\ UNCHANGED <<at, content, ref, clean, aside, todo, bound, created, faults, swaps>>

(* The entry of the private directory is renamed, whatever it now is.      *)
Rename(b) ==
  /\ pc[b] = "rename"
  /\ at[Staging(b)] # NONE /\ PathFree
  /\ at' = [at EXCEPT ![Final] = at[Staging(b)], ![Staging(b)] = NONE]
  /\ Go(b, "confirm")
  /\ UNCHANGED <<content, gitdir, ref, clean, aside, todo, bound, created, faults, swaps>>

Confirm(b) ==
  /\ pc[b] = "confirm"
  /\ at[Final] = Work(b) /\ at[Meta(b)] = Meta(b) /\ gitdir[b] = "final"
  /\ Isolating(b, Anchor(b), Anchor(b), "last", "rollback")
  /\ UNCHANGED <<at, content, gitdir, ref, clean, aside, bound, created, faults, swaps>>

Finish(b) ==
  /\ pc[b] = "last"
  /\ RefIsOurs
  /\ Go(b, "done")
  /\ UNCHANGED <<at, content, gitdir, ref, clean, aside, todo, bound, created, faults, swaps>>

(* The checks of the step hold.                                            *)
Ready(b) ==
  CASE pc[b] = "reserve" -> PathFree
    [] pc[b] = "ref" -> RefFree
    [] pc[b] = "add" -> SourceClean /\ Intact(b)
    [] pc[b] = "bind" -> Bindable(b)
    [] pc[b] = "write" -> AtStagingPath(b) # NONE
    [] pc[b] = "verify" -> Intact(b) /\ content[Work(b)] = "tree" /\ RefIsOurs /\ SourceClean
    [] pc[b] = "retarget" -> Intact(b) /\ PathFree /\ at[Meta(b)] = Meta(b)
    [] pc[b] = "rename" -> at[Staging(b)] # NONE /\ PathFree
    [] pc[b] = "confirm" -> at[Final] = Work(b) /\ at[Meta(b)] = Meta(b)
    [] OTHER -> RefIsOurs

(* A step is refused by its checks, or fails by itself; a rename that fails *)
(* puts the metadata back.  Nothing was created before the reservation.     *)
Fail(b) ==
  /\ pc[b] \in Forward
  /\ \/ ~Ready(b) /\ UNCHANGED faults
     \/ faults < MaxFaults /\ faults' = faults + 1
  /\ gitdir' = IF pc[b] = "rename" /\ at[Meta(b)] = Meta(b)
               THEN [gitdir EXCEPT ![b] = "staging"] ELSE gitdir
  /\ Go(b, IF pc[b] = "reserve" THEN "failed" ELSE "rollback")
  /\ UNCHANGED <<at, content, ref, clean, aside, todo, bound, created, swaps>>

----------------------------------------------------------------------------
(* _rollback: the worktree where it is now, its metadata, the private      *)
(* directory, and then the branch whatever became of the rest.              *)

(* Mutant: metadata that was not bound yet is left to git.                 *)
BoundSoFar(b) == bound[b]

(* Metadata that was not bound yet is bound now if that is safe.           *)
Rebound(b) == bound[b] \/ Bindable(b)

Rollback(b) ==
  /\ pc[b] = "rollback"
  /\ bound' = [bound EXCEPT ![b] = Rebound(b)]
  /\ LET here == {p \in {Final, Staging(b)} : at[p] = Work(b)} IN
     \/ \E p \in here : here = {p} /\ Isolating(b, p, Work(b), "unmeta", "unref")
     \/ (\A p \in here : here # {p}) /\ Go(b, "unref") /\ UNCHANGED todo
  /\ UNCHANGED <<at, content, gitdir, ref, clean, aside, created, faults, swaps>>

RemoveMetadata(b) ==
  /\ pc[b] = "unmeta"
  /\ IF bound[b] THEN Isolating(b, Meta(b), Meta(b), "unanchor", "unref")
     ELSE Go(b, "unanchor") /\ UNCHANGED todo
  /\ UNCHANGED <<at, content, gitdir, ref, clean, aside, bound, created, faults, swaps>>

RemoveAnchor(b) ==
  /\ pc[b] = "unanchor"
  /\ IF at[Anchor(b)] = Anchor(b)
     THEN Isolating(b, Anchor(b), Anchor(b), "unref", "unref")
     ELSE Go(b, "unref") /\ UNCHANGED todo
  /\ UNCHANGED <<at, content, gitdir, ref, clean, aside, bound, created, faults, swaps>>

(* The run deletes the branch only if it created it, and by compare-and-   *)
(* swap.                                                                    *)
MayDelete(b) == b \in created /\ RefIsOurs

RemoveRef(b) ==
  /\ pc[b] = "unref"
  /\ ref' = IF MayDelete(b) THEN NONE ELSE ref
  /\ Go(b, "failed")
  /\ UNCHANGED <<at, content, gitdir, clean, aside, todo, bound, created, faults, swaps>>

----------------------------------------------------------------------------
(* Other programs.                                                         *)

Fresh == <<"user", swaps + 1>>

(* A directory is put at a place, and what was there is moved away.        *)
Swap ==
  /\ swaps < MaxSwaps /\ swaps' = swaps + 1
  /\ \E p \in Places :
       /\ p = Final \/ at[p] # NONE
       /\ at' = [at EXCEPT ![p] = Fresh]
       /\ content' = [content EXCEPT ![Fresh] = "user"]
  /\ UNCHANGED <<gitdir, ref, clean, aside, pc, todo, bound, created, faults>>

(* The branch is created, or moved to another commit.                      *)
MoveRef ==
  /\ swaps < MaxSwaps /\ swaps' = swaps + 1
  /\ ref' = [oid |-> "other", by |-> NONE]
  /\ UNCHANGED <<at, content, gitdir, clean, aside, pc, todo, bound, created, faults>>

ChangeSource ==
  /\ clean
  /\ swaps < MaxSwaps /\ swaps' = swaps + 1
  /\ clean' = FALSE
  /\ UNCHANGED <<at, content, gitdir, ref, aside, pc, todo, bound, created, faults>>

Init ==
  /\ at = [p \in Places |-> NONE]
  /\ content = [i \in Inodes |-> IF i \in Users THEN "gone" ELSE "empty"]
  /\ gitdir = [b \in Builders |-> NONE]
  /\ ref = NONE /\ clean = TRUE /\ aside = {}
  /\ pc = [b \in Builders |-> "start"]
  /\ todo = [b \in Builders |-> NONE]
  /\ bound = [b \in Builders |-> FALSE]
  /\ created = {} /\ faults = 0 /\ swaps = 0

Run(b) ==
  \/ Check(b) \/ Reserve(b) \/ CreateRef(b) \/ AddWorktree(b) \/ BindMetadata(b)
  \/ Materialize(b) \/ Verify(b) \/ RewriteGitdir(b) \/ Rename(b) \/ Confirm(b) \/ Finish(b)
  \/ Fail(b) \/ Isolate(b) \/ Inspect(b)
  \/ Rollback(b) \/ RemoveMetadata(b) \/ RemoveAnchor(b) \/ RemoveRef(b)

Next == Swap \/ MoveRef \/ ChangeSource \/ \E b \in Builders : Run(b)

Spec == Init /\ [][Next]_vars

----------------------------------------------------------------------------
(* Properties.                                                             *)

(* What is at the final path of a run is the whole audited tree, also      *)
(* while it is built, published and rolled back.                            *)
FinalIsWhole == \A b \in Builders : at[Final] = Work(b) => content[Work(b)] = "tree"

(* A run that failed without interference leaves neither the path, the     *)
(* metadata nor the branch behind, so that it can be repeated.              *)
FailedRunCanBeRepeated ==
  \A b \in Builders :
    pc[b] = "failed" /\ swaps = 0 =>
      /\ at[Final] # Work(b) /\ at[Staging(b)] = NONE /\ at[Meta(b)] = NONE
      /\ ref # NONE => ref.by # b

SnapshotAllOrNothing == FinalIsWhole /\ FailedRunCanBeRepeated

(* A run removes no directory but those it created, nor a branch it did    *)
(* not create, whatever took their names; a directory of somebody else that *)
(* it put aside is back, or another has its name.                           *)
OthersKept ==
  /\ \A i \in Inodes :
       content[i] # "gone" /\ content'[i] = "gone" =>
         \E b \in Builders : i \in {Work(b), Anchor(b), Meta(b)} /\ pc[b] = "inspect" /\ pc'[b] # "inspect"
  /\ ref # NONE /\ ref' = NONE => pc[ref.by] = "unref" /\ pc'[ref.by] = "failed"
  /\ \A e \in aside : e[1] \in Users =>
       \/ at[e[2]] # NONE
       \/ \E b \in Builders : pc[b] = "inspect" /\ todo[b].place = e[2]
=============================================================================
