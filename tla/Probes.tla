------------------------------- MODULE Probes -------------------------------
(* probes/service.py and probes/filesystem.py: one structure probe at a     *)
(* time, under a lease, lists the session memory of a source, reads headers *)
(* and database files that their owner goes on writing to, and reports how  *)
(* far it recognised what is there, within its budget and its deadline.     *)
EXTENDS Integers, FiniteSets, Functions

CONSTANTS
  Requests,    \* requests for a structure probe
  Files,       \* entries that are session memory candidates
  Nested,      \* those in the subdirectory
  MaxCount,    \* largest count that can be reported
  Counts,      \* counts a database may hold
  MaxChanges,  \* bound on the changes the owner of the files makes
  NONE

VARIABLES
  lock,      \* the structure lock
  lease,     \* request -> state of its lease
  runner,    \* request -> where its thread is in run
  closer,    \* request -> where its thread is in close
  late,      \* the deadline of the probe has passed
  file,      \* [kind, version, count, log]: log is what a side file holds
  directory, \* version of the subdirectory
  limit,     \* databases that may be inspected
  probe,
  changes

threads == <<lease, runner, closer>>
vars == <<lock, threads, late, file, directory, limit, probe, changes>>
disk == <<file, directory, changes>>

----------------------------------------------------------------------------
(* StructureProbeLease.                                                    *)

(* Fails with probe_busy when the lock is held.                            *)
ReserveStructure(r) ==
  /\ lease[r] = "closed" /\ runner[r] = "idle" /\ closer[r] = "idle"
  /\ ~lock
  /\ lock' = TRUE /\ lease' = [lease EXCEPT ![r] = "reserved"]
  /\ UNCHANGED <<runner, closer, late, limit, probe, disk>>

Start == [pc |-> "light", todo |-> (Files \ Nested) \cup {"directory"}, preview |-> NONE,
          seen |-> [f \in {} |-> NONE], headers |-> {}, databases |-> {}, inspected |-> 0,
          current |-> NONE, result |-> NONE, warnings |-> {}, recognized |-> FALSE,
          count |-> NONE, blocked |-> FALSE]

Resting == [Start EXCEPT !.pc = "done"]

Run(r) ==
  /\ lease[r] = "reserved" /\ runner[r] = "idle"
  /\ lease' = [lease EXCEPT ![r] = "running"]
  /\ runner' = [runner EXCEPT ![r] = "probing"]
  /\ probe' = Start /\ late' = FALSE
  /\ UNCHANGED <<lock, closer, limit, disk>>

(* The state is closed first, then the lock is released.                   *)
FinishRun(r) ==
  /\ runner[r] = "probing" /\ probe.pc = "done"
  /\ lease' = [lease EXCEPT ![r] = "closed"]
  /\ runner' = [runner EXCEPT ![r] = "releasing"]
  /\ probe' = Resting /\ late' = FALSE
  /\ UNCHANGED <<lock, closer, limit, disk>>

MayClose(r) == lease[r] = "reserved"

Close(r) ==
  /\ closer[r] = "idle" /\ MayClose(r)
  /\ lease' = [lease EXCEPT ![r] = "closed"]
  /\ closer' = [closer EXCEPT ![r] = "releasing"]
  /\ UNCHANGED <<lock, runner, late, limit, probe, disk>>

Release(r) ==
  /\ lock' = FALSE
  /\ \/ runner[r] = "releasing" /\ runner' = [runner EXCEPT ![r] = "idle"] /\ UNCHANGED closer
     \/ closer[r] = "releasing" /\ closer' = [closer EXCEPT ![r] = "idle"] /\ UNCHANGED runner
  /\ UNCHANGED <<lease, late, limit, probe, disk>>

----------------------------------------------------------------------------
(* The structure inspection.                                               *)

Running == \E r \in Requests : runner[r] = "probing"

(* Every step first looks at the deadline, and at last the end does.       *)
TimedOut(p) ==
  [p EXCEPT !.warnings = (@ \ {"budget"}) \cup {"timeout"}, !.pc = "done"]

At(step) == Running /\ probe.pc = step

Advance(p) ==
  /\ probe' = IF late THEN TimedOut(probe) ELSE p
  /\ UNCHANGED <<lock, threads, late, limit, disk>>

Warned(p, code) == [p EXCEPT !.warnings = @ \cup {code}]

(* A root that is missing degrades nothing; one that is blocked does.      *)
InspectLight ==
  /\ At("light")
  /\ \E readable \in BOOLEAN :
       Advance([(IF readable THEN probe ELSE Warned(probe, "rejected")) EXCEPT !.pc = "root"])

(* Every component is opened and verified again; what is opened is listed. *)
OpenRoot ==
  /\ At("root")
  /\ \/ Advance([probe EXCEPT !.pc = "walk"])
     \/ Advance([Warned(probe, "rejected") EXCEPT !.pc = "headers", !.todo = {}])

(* An entry: a link, another type or a name that is unsafe is only warned  *)
(* about; a regular file is a candidate with the identity previewed.        *)
ListEntry ==
  /\ At("walk")
  /\ \E e \in probe.todo :
       LET p == [probe EXCEPT !.todo = @ \ {e}] IN
       Advance(IF e = "directory" THEN [p EXCEPT !.preview = directory, !.pc = "enter"]
               ELSE IF file[e].kind = "absent" THEN p
               ELSE IF file[e].kind = "link" THEN Warned(p, "rejected")
               ELSE [p EXCEPT !.headers = @ \cup {e},
                       !.seen = [f \in DOMAIN @ \cup {e} |-> IF f = e THEN file[e] ELSE @[f]]])

(* A directory that is not the one previewed is not entered.               *)
EnterDirectory ==
  /\ At("enter")
  /\ Advance(IF probe.preview = directory
             THEN [probe EXCEPT !.pc = "walk", !.todo = @ \cup Nested]
             ELSE [Warned(probe, "changed") EXCEPT !.pc = "walk"])

Listed ==
  /\ At("walk") /\ probe.todo = {}
  /\ Advance([probe EXCEPT !.pc = "headers"])

AsPreviewed(f) ==
  file[f].kind = probe.seen[f].kind /\ file[f].version = probe.seen[f].version

ReadHeader ==
  /\ At("headers")
  /\ \E f \in probe.headers :
       LET p == [probe EXCEPT !.headers = @ \ {f}] IN
       Advance(IF ~AsPreviewed(f) THEN Warned(p, "changed")
               ELSE IF file[f].kind = "other" THEN Warned(p, "unsupported")
               ELSE [p EXCEPT !.databases = @ \cup {f}])

HeadersRead ==
  /\ At("headers") /\ probe.headers = {}
  /\ Advance([probe EXCEPT !.pc = "databases"])

(* A database is inspected while its budget lasts.                         *)
InspectCandidate ==
  /\ At("databases")
  /\ \E f \in probe.databases :
       Advance(
         IF probe.inspected >= limit THEN [Warned(probe, "budget") EXCEPT !.pc = "done"]
         ELSE LET p == [probe EXCEPT !.databases = @ \ {f}, !.inspected = @ + 1] IN
              IF file[f].log # NONE \/ ~AsPreviewed(f) THEN Warned(p, "changed")
              ELSE [p EXCEPT !.pc = "schema", !.current = f,
                      !.result = [warnings |-> {}, recognized |-> FALSE, count |-> NONE]])

(* The progress handler: any query may exhaust the virtual machine steps.  *)
OutOfSteps(step) == [probe EXCEPT !.pc = step, !.result.warnings = @ \cup {"budget"}]

ReadSchema ==
  /\ At("schema")
  /\ \/ Advance(OutOfSteps("aggregate"))
     \/ Advance(IF file[probe.current].kind # "reviewed"
                THEN [probe EXCEPT !.pc = "recheck", !.result.warnings = {"unsupported"}]
                ELSE [probe EXCEPT !.pc = "count", !.result.recognized = TRUE])

(* A count that fails leaves the schema recognised.                        *)
ExecuteReviewedCount ==
  /\ At("count")
  /\ \/ Advance(OutOfSteps("recheck"))
     \/ Advance([probe EXCEPT !.pc = "recheck", !.result.count = file[probe.current].count])

(* Mutant: what was read is not verified once more.                        *)
AssumeUnchanged(f) == TRUE

StillVerified(f) == AsPreviewed(f) /\ file[f].log = NONE

(* The pending count counts only if the file and its side files are as     *)
(* they were.                                                               *)
VerifyOpenCandidate ==
  /\ At("recheck")
  /\ Advance(IF StillVerified(probe.current) THEN [probe EXCEPT !.pc = "aggregate"]
             ELSE [probe EXCEPT !.pc = "aggregate", !.result.count = NONE,
                                !.result.warnings = @ \cup {"changed"}])

(* _inspect_sqlite_candidates: one count that failed blocks the total.     *)
Aggregated(p, r) ==
  LET total == (IF p.count = NONE THEN 0 ELSE p.count) + (IF r.count = NONE THEN 0 ELSE r.count)
      failed == r.recognized /\ r.warnings # {} /\ r.count = NONE
      overflow == r.count # NONE /\ ~p.blocked /\ total > MaxCount
  IN [p EXCEPT !.recognized = @ \/ r.recognized,
               !.blocked = @ \/ failed \/ overflow,
               !.count = IF failed \/ overflow THEN NONE
                         ELSE IF r.count # NONE /\ ~p.blocked THEN total ELSE @,
               !.warnings = @ \cup r.warnings \cup (IF overflow THEN {"budget"} ELSE {}),
               !.pc = IF "budget" \in r.warnings THEN "done" ELSE "databases",
               !.current = NONE, !.result = NONE]

AggregateDatabase ==
  /\ At("aggregate")
  /\ Advance(Aggregated(probe, probe.result))

Inspected ==
  /\ At("databases") /\ probe.databases = {}
  /\ Advance([probe EXCEPT !.pc = "done"])

(* _structure_inspection: every warning but a missing source degrades.     *)
StructureStatus ==
  IF ~probe.recognized THEN "unsupported" ELSE IF probe.warnings # {} THEN "partial" ELSE "recognized"

----------------------------------------------------------------------------
(* The deadline, and the program the files belong to.                      *)

Expire ==
  /\ Running /\ ~late /\ probe.pc # "done" /\ late' = TRUE
  /\ UNCHANGED <<lock, threads, limit, probe, disk>>

Changing ==
  /\ Running /\ probe.pc # "done"
  /\ changes < MaxChanges /\ changes' = changes + 1
  /\ UNCHANGED <<lock, threads, late, limit, probe>>

WriteLog(f) ==
  /\ Changing /\ file[f].kind = "reviewed" /\ file[f].log = NONE
  /\ \E n \in Counts : n # file[f].count /\ file' = [file EXCEPT ![f].log = n]
  /\ UNCHANGED directory

(* The log is copied into the database file and removed.                   *)
Checkpoint(f) ==
  /\ Changing /\ file[f].log # NONE
  /\ file' = [file EXCEPT ![f].count = file[f].log, ![f].log = NONE, ![f].version = @ + 1]
  /\ UNCHANGED directory

Kinds == {"reviewed", "unreviewed", "other", "link", "absent"}

Replace(f) ==
  /\ Changing
  /\ \E k \in Kinds, n \in Counts :
       file' = [file EXCEPT ![f] = [kind |-> k, version |-> @.version + 1, count |-> n, log |-> NONE]]
  /\ UNCHANGED directory

ReplaceDirectory ==
  /\ Changing
  /\ directory' = directory + 1 /\ UNCHANGED file

Init ==
  /\ lock = FALSE /\ late = FALSE
  /\ lease = [r \in Requests |-> "closed"]
  /\ runner = [r \in Requests |-> "idle"] /\ closer = runner
  /\ \E n \in Counts :
       file \in [Files -> [kind : {"reviewed"}, version : {0}, count : {n}, log : {NONE} \union Counts]
                         \union [kind : {"other"}, version : {0}, count : {n}, log : {NONE}]]
  /\ directory = 0
  /\ limit \in {1, Cardinality(Files)}
  /\ probe = Resting
  /\ changes = 0

Inspect ==
  \/ InspectLight \/ OpenRoot \/ ListEntry \/ EnterDirectory \/ Listed \/ ReadHeader \/ HeadersRead
  \/ InspectCandidate \/ ReadSchema \/ ExecuteReviewedCount
  \/ VerifyOpenCandidate \/ AggregateDatabase \/ Inspected

Lease(r) == ReserveStructure(r) \/ Run(r) \/ FinishRun(r) \/ Close(r) \/ Release(r)

Next ==
  \/ \E r \in Requests : Lease(r)
  \/ Inspect \/ Expire \/ ReplaceDirectory
  \/ \E f \in Files : WriteLog(f) \/ Checkpoint(f) \/ Replace(f)

Spec == Init /\ [][Next]_vars

----------------------------------------------------------------------------
(* Properties.                                                             *)

(* At most one structure probe is reserved or runs, however requests are   *)
(* cancelled and leases closed, and the lock is held for it and only then.  *)
OneStructureProbe ==
  LET held == {r \in Requests : lease[r] = "reserved" \/ runner[r] # "idle" \/ closer[r] # "idle"}
  IN IF lock THEN \E r \in Requests : held = {r} ELSE held = {}

(* A source is reported as recognised only if every candidate that was     *)
(* listed is a reviewed database, read as it was when it was listed: the    *)
(* count is the sum of what these held, or is not given.                    *)
RecognizedIsExact ==
  Running /\ probe.pc = "done" /\ StructureStatus = "recognized" =>
    /\ \A f \in DOMAIN probe.seen : probe.seen[f].kind = "reviewed"
    /\ probe.count = SumFunction([f \in DOMAIN probe.seen |-> probe.seen[f].count])
=============================================================================
