---------------------------- MODULE Configuration ----------------------------
(* config.py and its callers: processes start with one configuration file,  *)
(* and the pages and commands that change it save it beside each other,     *)
(* beside the owner's editor, and across crashes and power losses.          *)
(*                                                                          *)
(* A configuration has three fields: "form", what a settings form edits;    *)
(* "sources", which a toggle edits too; and "kept", what only the set-up or  *)
(* the owner's editor changes. A document is a configuration and its layout *)
(* (hub for one _serialize wrote); its revision is the document itself.     *)
EXTENDS Naturals

CONSTANTS
  Writers,
  MaxChanges, \* bound on the file's changes
  NONE

VARIABLES
  file,     \* the file under its name: [doc, stamp, links, synced], or NONE
  disk,     \* what a power loss may leave of it
  lock,     \* the writer holding the advisory lock of the directory, or NONE
  save,     \* writer -> [pc, kind, seen, want, expected, snapshot]
  late,     \* the editor wrote after the last look before a replacement
  promised  \* the stamp of the last replacement reported as saved

vars == <<file, disk, lock, save, late, promised>>

Fields == {"form", "sources", "kept"}
Configs == [Fields -> {0, 1}]
Defaults == [f \in Fields |-> 0]

Serialize(config) == [config |-> config, layout |-> "hub"]

Idle == [pc |-> "idle", kind |-> NONE, seen |-> NONE, want |-> NONE,
         expected |-> NONE, snapshot |-> NONE]

Stamp == IF file = NONE THEN 1 ELSE file.stamp + 1

(* _read_config_target: a file with a second name is refused, and one that  *)
(* changes while it is read too, so that a read is of one moment.           *)
Readable == file # NONE /\ file.links = 1

Init ==
  /\ file = NONE /\ disk = NONE /\ lock = NONE
  /\ save = [w \in Writers |-> Idle]
  /\ late = FALSE /\ promised = 0

----------------------------------------------------------------------------
(* A process starts: _create_default_config_if_absent gives the file its    *)
(* name with a link, and takes away the candidate's own name.               *)

Start(w) ==
  /\ save[w].pc = "idle" /\ file = NONE
  /\ save' = [save EXCEPT ![w].pc = "link"]
  /\ UNCHANGED <<file, disk, lock, late, promised>>

LinkDefault(w) ==
  /\ save[w].pc = "link"
  /\ IF file = NONE
     THEN /\ file' = [doc |-> Serialize(Defaults), stamp |-> Stamp, links |-> 2, synced |-> TRUE]
          /\ save' = [save EXCEPT ![w].pc = "unlink"]
     ELSE save' = [save EXCEPT ![w] = Idle] /\ UNCHANGED file
  /\ UNCHANGED <<disk, lock, late, promised>>

UnlinkCandidate(w) ==
  /\ save[w].pc = "unlink" /\ file # NONE
  /\ file' = [file EXCEPT !.links = 1]
  /\ save' = [save EXCEPT ![w] = Idle]
  /\ UNCHANGED <<disk, lock, late, promised>>

----------------------------------------------------------------------------
(* What the user sees, and what is asked of save.                           *)

(* load_with_revision: for a page, a toggle, or a set-up from the command   *)
(* line. Only the set-up keeps the revision with what it shows.             *)
Load(w, kind) ==
  /\ save[w].pc = "idle" /\ Readable /\ Stamp <= MaxChanges
  /\ save' = [save EXCEPT ![w] = [Idle EXCEPT !.pc = "shown", !.kind = kind, !.seen = file.doc]]
  /\ UNCHANGED <<file, disk, lock, late, promised>>

(* set_source_enabled saves over the revision it has loaded.                *)
SetSourceEnabled(w) ==
  /\ save[w].pc = "shown" /\ save[w].kind = "toggle"
  /\ save' = [save EXCEPT ![w].pc = "lock",
                          ![w].want = [save[w].seen.config EXCEPT !["sources"] = 1 - @],
                          ![w].expected = save[w].seen]
  /\ UNCHANGED <<file, disk, lock, late, promised>>

(* Mutant: what was not on the form is taken from the time it was shown.    *)
MergedWithShown(w, form, complete) ==
  [f \in Fields |-> IF f = "kept" /\ complete THEN 1 ELSE form[f]]

(* The form's fields replace the current ones, and the others are kept; the *)
(* set-up can also complete itself.                                         *)
Merged(w, form, complete) ==
  [f \in Fields |-> IF f # "kept" THEN form[f]
                    ELSE IF complete THEN 1 ELSE file.doc.config["kept"]]

(* save_settings: a caller that was shown a revision gets a conflict when   *)
(* the file has moved on, unless it already holds what is asked.            *)
AsShown(w) == save[w].kind = "setup" => file.doc = save[w].seen

SaveSettings(w) ==
  /\ save[w].pc = "shown" /\ save[w].kind \in {"settings", "setup"}
  /\ \E form \in Configs, complete \in BOOLEAN :
       /\ form["kept"] = save[w].seen.config["kept"]
       /\ complete => save[w].kind = "setup"
       /\ save' = IF Readable /\ AsShown(w)
                  THEN [save EXCEPT ![w].pc = "lock",
                                    ![w].want = Merged(w, form, complete),
                                    ![w].expected = file.doc]
                  ELSE [save EXCEPT ![w] = Idle]
  /\ UNCHANGED <<file, disk, lock, late, promised>>

----------------------------------------------------------------------------
(* ConfigManager.save.                                                      *)

Refused(w) == lock' = NONE /\ save' = [save EXCEPT ![w] = Idle]

ExpectedRevision(w) == file.doc = save[w].expected

(* Under the lock of the directory: a document that is already there is     *)
(* not written again.                                                       *)
LockAndRead(w) ==
  /\ save[w].pc = "lock" /\ lock = NONE
  /\ IF ~(Readable /\ ExpectedRevision(w)) \/ file.doc = Serialize(save[w].want)
     THEN Refused(w)
     ELSE /\ lock' = w
          /\ save' = [save EXCEPT ![w].pc = "write", ![w].snapshot = file]
  /\ UNCHANGED <<file, disk, late, promised>>

(* _write_config_file, into a private temporary.                            *)
WriteTemporary(w) ==
  /\ save[w].pc = "write"
  /\ \/ save' = [save EXCEPT ![w].pc = "check"] /\ UNCHANGED lock
     \/ Refused(w)
  /\ UNCHANGED <<file, disk, late, promised>>

Untouched(w) == file = save[w].snapshot

CheckLatest(w) ==
  /\ save[w].pc = "check"
  /\ IF Untouched(w)
     THEN save' = [save EXCEPT ![w].pc = "replace"] /\ UNCHANGED lock
     ELSE Refused(w)
  /\ late' = FALSE
  /\ UNCHANGED <<file, disk, promised>>

(* Mutant: the temporary is replaced without having been synced.            *)
ReplacementUnsynced(w) ==
  [doc |-> Serialize(save[w].want), stamp |-> Stamp, links |-> 1, synced |-> FALSE]

Replacement(w) ==
  [doc |-> Serialize(save[w].want), stamp |-> Stamp, links |-> 1, synced |-> TRUE]

Replace(w) ==
  /\ save[w].pc = "replace"
  /\ file' = Replacement(w)
  /\ save' = [save EXCEPT ![w].pc = "sync", ![w].snapshot = file']
  /\ UNCHANGED <<disk, lock, late, promised>>

(* Mutant: the directory is not synced.                                     *)
StillThere(onDisk) == disk

Synced(onDisk) == onDisk

(* The parent is checked and synced. A failure reports an uncertain commit. *)
SyncParent(w) ==
  /\ save[w].pc = "sync"
  /\ Refused(w)
  /\ \/ disk' = Synced(file) /\ promised' = save[w].snapshot.stamp
     \/ UNCHANGED <<disk, promised>>
  /\ UNCHANGED <<file, late>>

----------------------------------------------------------------------------
(* The environment: the owner's editor takes no lock; a process is killed,   *)
(* which frees its lock; the machine loses power.                           *)

Edit ==
  /\ file # NONE /\ Stamp <= MaxChanges
  /\ \E config \in Configs :
       file' = [doc |-> [config |-> config, layout |-> "edited"], stamp |-> Stamp,
                links |-> 1, synced |-> TRUE]
  /\ disk' = file'
  /\ late' = \E w \in Writers : save[w].pc = "replace"
  /\ UNCHANGED <<lock, save, promised>>

Kill(w) ==
  /\ save[w].pc # "idle"
  /\ save' = [save EXCEPT ![w] = Idle]
  /\ lock' = IF lock = w THEN NONE ELSE lock
  /\ UNCHANGED <<file, disk, late, promised>>

(* The name keeps what was last synced, or has what the disk got to by      *)
(* itself; a file that was never synced comes back empty.                   *)
PowerLoss ==
  /\ \E left \in {disk, file} :
       file' = IF left # NONE /\ ~left.synced THEN [left EXCEPT !.doc = NONE, !.synced = TRUE]
                                              ELSE left
  /\ disk' = file'
  /\ lock' = NONE /\ late' = FALSE
  /\ save' = [w \in Writers |-> Idle]
  /\ UNCHANGED promised

Next ==
  \/ Edit
  \/ \E w \in Writers, kind \in {"settings", "setup", "toggle"} :
       Load(w, kind)
  \/ \E w \in Writers : \/ Start(w) \/ LinkDefault(w) \/ UnlinkCandidate(w)
                        \/ SetSourceEnabled(w) \/ SaveSettings(w) \/ LockAndRead(w)
                        \/ WriteTemporary(w) \/ CheckLatest(w) \/ Replace(w) \/ SyncParent(w)
                        \/ Kill(w)
  \/ PowerLoss

Spec == Init /\ [][Next]_vars

----------------------------------------------------------------------------
(* A whole document is under the name whatever happens, and a save that was *)
(* reported is not taken back by a crash or a power loss: what the disk     *)
(* would leave is at least as new. (config.py:161-176)                      *)
ReportedSurvives ==
  /\ file # NONE => file.doc # NONE
  /\ promised > 0 => disk # NONE /\ disk.stamp >= promised

Replaces(w) == save[w].pc = "replace" /\ save'[w].pc = "sync"

(* A save changes only what it was asked to change: the set-up and a toggle *)
(* replace the very document their user was shown, and a settings form      *)
(* leaves alone what it does not show - except that an editor's write after *)
(* the last look is lost. (config.py:139-160, services/control.py:829-860)  *)
SavesKeepOthers ==
  \A w \in Writers :
    Replaces(w) /\ ~late =>
      /\ save[w].kind \in {"setup", "toggle"} => file.doc = save[w].seen
      /\ save[w].kind = "settings" => file'.doc.config["kept"] = file.doc.config["kept"]

(* docs/security.md:66-69: "a concurrent managed change returns a conflict  *)
(* instead of silently using last-write-wins". A settings form is submitted *)
(* without the revision it was rendered from, and puts back every field a   *)
(* change in between has set. (web/routes.py:426-441)                       *)
NoLastWriteWins ==
  [][\A w \in Writers :
       Replaces(w) /\ file.doc.layout = "hub" => file.doc = save[w].seen]_vars
=============================================================================
