----------------------------- MODULE AgentsFile -----------------------------
(* integration/agents.py: processes install, update and remove the managed  *)
(* block of an AGENTS file without any lock, beside the owner's editor, and  *)
(* may be killed between any two calls.                                     *)
(*                                                                          *)
(* A document is what the owner wrote before and after the block, and the   *)
(* block: none, the one of a launcher, or "broken" markers. The newlines    *)
(* that separate them are left out.                                         *)
EXTENDS Naturals, Sequences

CONSTANTS
  Writers,
  Launcher,   \* writer -> the launcher its block names
  Texts,      \* what the owner may write
  MaxChanges, \* bound on the file's changes
  NONE

VARIABLES
  agents,   \* the AGENTS file: [doc, stamp], NONE while there is none
  backup,   \* [owned, links], NONE while there is none: whether it is a
            \* document the file had before any process replaced it
  change,   \* writer -> [pc, desired, stamp, owned]
  late,     \* the writers after whose last look the file was written
  replaced  \* some process has replaced the file

vars == <<agents, backup, change, late, replaced>>

Blocks == {NONE, "broken"} \cup {Launcher[w] : w \in Writers}
Pieces == {<<>>} \cup {<<t>> : t \in Texts}
Documents == [above : Pieces, block : Blocks, below : Pieces]

Empty == [above |-> <<>>, block |-> NONE, below |-> <<>>]
OwnerText(doc) == doc.above \o doc.below

Resting == [pc |-> "idle", desired |-> NONE, stamp |-> 0, owned |-> FALSE]

(* _read_target: the document and the identity it was read under; a file    *)
(* that is not there reads as empty.                                        *)
Target == IF agents = NONE THEN Empty ELSE agents.doc
Identity == IF agents = NONE THEN 0 ELSE agents.stamp

Init ==
  /\ agents = NONE /\ backup = NONE
  /\ change = [w \in Writers |-> Resting]
  /\ late = {} /\ replaced = FALSE

----------------------------------------------------------------------------
(* install and remove.                                                      *)

(* A first block goes to the end of the document, and a later one where the *)
(* block of before was.                                                     *)
Installed(doc, launcher) ==
  IF doc.block = NONE
  THEN [above |-> OwnerText(doc), block |-> launcher, below |-> <<>>]
  ELSE [doc EXCEPT !.block = launcher]

Removed(doc) ==
  IF doc.block = NONE THEN doc
  ELSE [above |-> OwnerText(doc), block |-> NONE, below |-> <<>>]

(* Broken markers are refused, and a document that is as desired is left    *)
(* alone.                                                                   *)
Change(w) ==
  /\ change[w].pc = "idle" /\ Target.block # "broken" /\ Identity < MaxChanges
  /\ \E desired \in {Installed(Target, Launcher[w]), Removed(Target)} \ {Target} :
       change' = [change EXCEPT ![w] = [pc |-> "backup", desired |-> desired,
                                        stamp |-> Identity, owned |-> ~replaced]]
  /\ UNCHANGED <<agents, backup, late, replaced>>

----------------------------------------------------------------------------
(* _ensure_private_backup.                                                  *)

(* Mutant: every change makes its own backup.                               *)
NeverKept == FALSE

BackupKept == backup # NONE

(* A backup that is there is kept, and one with a second name is refused.   *)
CheckBackup(w) ==
  /\ change[w].pc = "backup"
  /\ change' = IF ~BackupKept THEN [change EXCEPT ![w].pc = "link"]
               ELSE IF backup.links = 1 THEN [change EXCEPT ![w].pc = "check"]
               ELSE [change EXCEPT ![w] = Resting]
  /\ UNCHANGED <<agents, backup, late, replaced>>

(* The synced temporary is given the backup's name: one that another        *)
(* process has made since then ends this change. So does a full disk.       *)
LinkBackup(w) ==
  /\ change[w].pc = "link"
  /\ \/ /\ ~BackupKept
        /\ backup' = [owned |-> change[w].owned, links |-> 2]
        /\ change' = [change EXCEPT ![w].pc = "unlink"]
     \/ change' = [change EXCEPT ![w] = Resting] /\ UNCHANGED backup
  /\ UNCHANGED <<agents, late, replaced>>

UnlinkTemporary(w) ==
  /\ change[w].pc = "unlink"
  /\ backup' = [backup EXCEPT !.links = 1]
  /\ change' = [change EXCEPT ![w].pc = "check"]
  /\ UNCHANGED <<agents, late, replaced>>

----------------------------------------------------------------------------
(* _atomic_replace.                                                         *)

(* Mutant: the target is not looked at again.                               *)
TakenAsRead(w) == TRUE

TargetUnchanged(w) == Identity = change[w].stamp

CheckTarget(w) ==
  /\ change[w].pc = "check"
  /\ \/ /\ TargetUnchanged(w)
        /\ change' = [change EXCEPT ![w].pc = "replace"]
        /\ late' = late \ {w}
     \/ change' = [change EXCEPT ![w] = Resting] /\ UNCHANGED late
  /\ UNCHANGED <<agents, backup, replaced>>

Replace(w) ==
  /\ change[w].pc = "replace"
  /\ agents' = [doc |-> change[w].desired, stamp |-> Identity + 1]
  /\ change' = [change EXCEPT ![w] = Resting]
  /\ late' = {v \in Writers \ {w} : change[v].pc = "replace"}
  /\ replaced' = TRUE
  /\ UNCHANGED backup

----------------------------------------------------------------------------
(* The environment: the owner's editor, and a killed process.               *)

Edit ==
  /\ Identity < MaxChanges
  /\ \E doc \in Documents :
       agents' = [doc |-> doc, stamp |-> Identity + 1]
  /\ late' = {w \in Writers : change[w].pc = "replace"}
  /\ UNCHANGED <<backup, change, replaced>>

Kill(w) ==
  /\ change[w].pc # "idle"
  /\ change' = [change EXCEPT ![w] = Resting]
  /\ UNCHANGED <<agents, backup, late, replaced>>

Next ==
  \/ Edit
  \/ \E w \in Writers : \/ Change(w)
                        \/ CheckBackup(w) \/ LinkBackup(w) \/ UnlinkTemporary(w)
                        \/ CheckTarget(w) \/ Replace(w) \/ Kill(w)

Spec == Init /\ [][Next]_vars

----------------------------------------------------------------------------
(* docs/getting-started.md:155-156: bytes outside the block are preserved.  *)
(* Whoever else writes, a replacement keeps the text the owner has in the   *)
(* file it replaces - except for a write after the last look.               *)
OwnerTextKept ==
  \A w \in Writers \ late :
    agents' # agents /\ change[w].pc = "replace" /\ change'[w].pc = "idle" =>
      OwnerText(agents'.doc) = OwnerText(Target)

(* "The first real write creates a private backup": no file is replaced     *)
(* without one, and it stays what the owner had before the first            *)
(* replacement, whichever processes race or die.                            *)
BackupOfTheOwner ==
  /\ replaced => backup # NONE
  /\ backup # NONE => backup.owned
=============================================================================
