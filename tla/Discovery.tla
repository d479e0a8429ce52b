----------------------------- MODULE Discovery -----------------------------
(* discovery/scanner.py, discovery/fingerprint.py and storage/discovery.py: *)
(* a scanner walks an allowed root by path, reads the metadata of what      *)
(* looks like a project through descriptors that start at the root, and     *)
(* stores its findings, while directories are moved and linked under it.    *)
(*                                                                          *)
(* Every directory has at most one directory or link of interest, so that a *)
(* path below the root is its length.                                       *)
EXTENDS Integers, Sequences, FiniteSets

CONSTANTS
  Inside,      \* directories that are only ever below the root, or it
  Outside,     \* a directory elsewhere, reached only through a link
  Marked,      \* directories that hold a marker
  MaxDepth,    \* of the policy
  IsWorkspace, \* whether the child has the name of a workspace directory
  MaxChanges,  \* bound on changes of the file system
  MaxScans,    \* bound on scans
  LinkIn, LinkOut, \* entries that are links: to the root, to Outside
  NONE

VARIABLES
  root,      \* the directory at the path of the allowed root
  child,     \* directory -> what is in it: a directory, a link or nothing
  scan,      \* [pc, depth, fd, marks, descends, canonical, opened, check]
  candidates,  \* of this scan: [path, fingerprint]
  findings,  \* stored duplicates: [path, fingerprint]
  placed,    \* <<directory, entry>> that held since the file was last read
  changes, scans

vars == <<root, child, scan, candidates, findings, placed, changes, scans>>
tree == <<root, child, changes>>

Directory(e) == e \in Inside \cup {Outside}

Idle == [pc |-> "idle", depth |-> 0, fd |-> NONE, marks |-> FALSE,
         descends |-> FALSE, canonical |-> 0, opened |-> <<>>, check |-> 0]

At(step) == scan.pc = step

----------------------------------------------------------------------------
(* Paths.                                                                  *)

(* The directory at a path, when every component is a directory.           *)
Real(from) ==
  LET at[n \in 0..MaxDepth] ==
        IF n = 0 THEN from ELSE
        IF at[n - 1] # NONE /\ Directory(child[at[n - 1]]) THEN child[at[n - 1]] ELSE NONE
  IN at

(* Path.resolve: a length below the root, LinkOut for elsewhere, or NONE.  *)
Resolve ==
  LET to[n \in 0..MaxDepth] ==
        IF n = 0 THEN IF root = NONE THEN NONE ELSE 0 ELSE
        IF to[n - 1] \in {LinkOut, NONE} THEN to[n - 1] ELSE
        LET e == child[Real(root)[to[n - 1]]]
        IN CASE e = LinkIn -> 0 [] Directory(e) -> to[n - 1] + 1 [] OTHER -> e
  IN to

(* What is listed at a path: links are followed.                           *)
Reached ==
  LET at[n \in 0..MaxDepth] ==
        IF n = 0 THEN root ELSE
        IF at[n - 1] = NONE THEN NONE ELSE
        LET e == child[at[n - 1]]
        IN CASE e = LinkOut -> Outside [] e = LinkIn -> root [] OTHER -> e
  IN at

----------------------------------------------------------------------------
(* The walk.                                                               *)

(* What is in which directory now.                                         *)
Places == {<<d, child[d]>> : d \in Inside}

(* The root is opened without following a link.                            *)
OpenAllowedRoot ==
  /\ At("idle") /\ scans < MaxScans /\ root # NONE
  /\ scans' = scans + 1
  /\ scan' = [Idle EXCEPT !.pc = "list", !.fd = root]
  /\ candidates' = {} /\ placed' = {}
  /\ UNCHANGED <<findings, tree>>

Goto(step) == scan' = [scan EXCEPT !.pc = step]

(* A directory is listed by its path.                                      *)
ListDirectory ==
  /\ At("list")
  /\ LET dir == Reached[scan.depth] IN
     IF dir = NONE THEN Goto("sync")
     ELSE scan' = [scan EXCEPT !.marks = dir \in Marked,
                     !.descends = Directory(child[dir]),
                     !.pc = IF dir \in Marked THEN "canonical" ELSE "descend"]
  /\ UNCHANGED <<candidates, findings, placed, scans, tree>>

Canonicalise ==
  /\ At("canonical")
  /\ LET p == Resolve[scan.depth] IN
     IF p \in 0..MaxDepth
     THEN scan' = [scan EXCEPT !.pc = "open", !.canonical = p, !.opened = <<scan.fd>>]
     ELSE Goto("sync")
  /\ UNCHANGED <<candidates, findings, placed, scans, tree>>

(* A candidate is added unless its path is one already.                    *)
AddCandidate(fingerprint) ==
  candidates' =
    IF \E c \in candidates : c.path = scan.canonical THEN candidates
    ELSE candidates \cup {[path |-> scan.canonical, fingerprint |-> fingerprint]}

Without == AddCandidate(NONE) /\ Goto("descend")

OpenComponent(e) == IF Directory(e) THEN e ELSE NONE

(* _read_bounded_regular_bytes: the next component, then the file.         *)
OpenMetadata ==
  /\ At("open")
  /\ LET last == scan.opened[Len(scan.opened)] IN
     IF Len(scan.opened) = scan.canonical + 1
     THEN /\ IF last \in Marked
             THEN /\ scan' = [scan EXCEPT !.pc = "components", !.check = scan.canonical]
                  /\ UNCHANGED candidates
             ELSE Without
          /\ placed' = Places
     ELSE LET next == OpenComponent(child[last]) IN
          /\ IF next = NONE THEN Without
             ELSE scan' = [scan EXCEPT !.opened = Append(@, next)] /\ UNCHANGED candidates
          /\ UNCHANGED placed
  /\ UNCHANGED <<findings, scans, tree>>

ComponentMatches(n) == child[scan.opened[n]] = scan.opened[n + 1]

(* The components are looked at once more, the last one first.             *)
CheckComponents ==
  /\ At("components")
  /\ IF scan.check = 0 THEN Goto("root") /\ UNCHANGED candidates
     ELSE IF ComponentMatches(scan.check)
     THEN scan' = [scan EXCEPT !.check = @ - 1] /\ UNCHANGED candidates
     ELSE Without
  /\ UNCHANGED <<findings, placed, scans, tree>>

(* Mutant: the root is trusted once it is open.                            *)
TrustRoot(fd) == TRUE

RootMatches(fd) == root = fd

CheckRoot ==
  /\ At("root")
  /\ IF RootMatches(scan.fd)
     THEN AddCandidate(scan.opened[Len(scan.opened)]) /\ Goto("descend")
     ELSE Without
  /\ UNCHANGED <<findings, placed, scans, tree>>

(* In a project only workspace directories are entered; the child must     *)
(* still be within the root.                                                *)
Descend ==
  /\ At("descend")
  /\ IF /\ scan.descends /\ scan.depth < MaxDepth
        /\ scan.marks => IsWorkspace
        /\ Resolve[scan.depth + 1] # LinkOut
     THEN scan' = [scan EXCEPT !.pc = "list", !.depth = @ + 1]
     ELSE Goto("sync")
  /\ UNCHANGED <<candidates, findings, placed, scans, tree>>

Duplicates ==
  {c \in candidates : c.fingerprint # NONE /\
     \E d \in candidates : d # c /\ d.fingerprint = c.fingerprint}

(* One transaction replaces the findings.                                  *)
SyncFindings ==
  /\ At("sync")
  /\ findings' = Duplicates
  /\ scan' = Idle
  /\ UNCHANGED <<candidates, placed, scans, tree>>

----------------------------------------------------------------------------
(* The file system: a directory is in one place.                           *)

Free == {d \in Inside : d # root /\ \A e \in Inside : child[e] # d}

Change ==
  /\ changes < MaxChanges /\ changes' = changes + 1
  /\ \/ \E d \in Free \cup {NONE} : d # root /\ root' = d /\ UNCHANGED child
     \/ \E d \in Inside, e \in Free \cup {LinkIn, LinkOut, NONE} :
          d # e /\ child[d] # e /\ child' = [child EXCEPT ![d] = e] /\ UNCHANGED root
  /\ placed' = placed \cup Places'
  /\ UNCHANGED <<scan, candidates, findings, scans>>

Init ==
  /\ \E chain \in [1..MaxDepth + 1 -> Inside] :
       /\ \A i, j \in DOMAIN chain : i # j => chain[i] # chain[j]
       /\ root = chain[1]
       /\ child = [d \in Inside \cup {Outside} |->
            IF \E i \in 1..MaxDepth : chain[i] = d
            THEN chain[(CHOOSE i \in 1..MaxDepth : chain[i] = d) + 1] ELSE NONE]
  /\ scan = Idle /\ candidates = {} /\ findings = {} /\ placed = {}
  /\ changes = 0 /\ scans = 0

Next ==
  \/ OpenAllowedRoot \/ ListDirectory \/ Canonicalise \/ OpenMetadata
  \/ CheckComponents \/ CheckRoot \/ Descend \/ SyncFindings \/ Change

Spec == Init /\ [][Next]_vars

----------------------------------------------------------------------------
(* Properties.                                                             *)

(* A fingerprint is of a directory that is at the candidate's path in the   *)
(* root that is there when the candidate is taken: since its file was read, *)
(* every directory on the path was found in the one above it, each at a     *)
(* time of its own, and none was reached through a link.                    *)
FingerprintOfItsPath ==
  \A c \in candidates' \ candidates :
    c.fingerprint # NONE =>
      \E way \in [0..c.path -> Inside] :
        /\ way[0] = root /\ way[c.path] = c.fingerprint
        /\ \A n \in 1..c.path : <<way[n - 1], way[n]>> \in placed
=============================================================================
