------------------------------ MODULE RetryQueue ------------------------------
(* services/retry_queue.py: captures that could not be stored wait in a     *)
(* table, and the drain of a reconcile run (one at a time, under its lock)  *)
(* gives each to pending capture in a transaction of its own, while others  *)
(* queue more, disable projects and move their directories.                 *)
(*                                                                          *)
(* A row is [item, project, good, created, last]: whether its payload, with *)
(* the privacy version it was stored under, passes the present checks, and   *)
(* when it was queued and last tried (0: never).                            *)
EXTENDS Naturals, FiniteSets, Sequences

CONSTANTS
  Items,
  Projects,
  MaxItems, \* max_items_per_drain
  MaxClock  \* bound on the clock

VARIABLES
  queue,     \* the rows of retry_items
  delivered, \* the items pending capture was given
  enabled,   \* the projects that are enabled
  inPlace,   \* the projects whose directory is the one registered
  drain,     \* [pc, ids]: the items selected and not yet tried
  clock

vars == <<queue, delivered, enabled, inPlace, drain, clock>>

Queued == {row.item : row \in queue}
Row(i) == CHOOSE row \in queue : row.item = i

Resting == [pc |-> "idle", ids |-> <<>>]

Init ==
  /\ queue = {} /\ delivered = {}
  /\ enabled = Projects /\ inPlace = Projects
  /\ drain = Resting /\ clock = 1

----------------------------------------------------------------------------
(* find_by_cwd: an enabled project whose directory is still the registered.  *)
Verified(p) == p \in enabled /\ p \in inPlace

(* The payload's structure is checked as the drain will check it again: one *)
(* that is not good then is of an older version, or of rules since changed. *)
Enqueue(i, p) ==
  /\ i \notin Queued \cup delivered /\ Verified(p) /\ clock < MaxClock
  /\ \E good \in BOOLEAN :
       queue' = queue \cup {[item |-> i, project |-> p, good |-> good,
                             created |-> clock, last |-> 0]}
  /\ clock' = clock + 1
  /\ UNCHANGED <<delivered, enabled, inPlace, drain>>

(* Mutant: the oldest first, however often they have been tried.            *)
OldestFirst(a, b) == a.created < b.created

(* What was never tried comes first, then what was tried longest ago.       *)
ComesBefore(a, b) ==
  \/ a.last = 0 /\ b.last # 0
  \/ (a.last = 0) = (b.last = 0)
     /\ (IF a.last = 0 THEN a.created < b.created ELSE a.last < b.last)

(* All rows, each once, and after those that come before it.               *)
InTurn(order) ==
  /\ queue = {order[n] : n \in DOMAIN order}
  /\ \A m, n \in DOMAIN order : m < n =>
       order[m] # order[n] /\ ~ComesBefore(order[n], order[m])

Batch == IF Cardinality(queue) < MaxItems THEN Cardinality(queue) ELSE MaxItems

(* The first of them are selected.                                         *)
StartDrain ==
  /\ drain.pc = "idle" /\ queue # {}
  /\ \E order \in [1..Cardinality(queue) -> queue] :
       /\ InTurn(order)
       /\ drain' = [pc |-> "next", ids |-> [n \in 1..Batch |-> order[n].item]]
  /\ UNCHANGED <<queue, delivered, enabled, inPlace, clock>>

EndDrain ==
  /\ drain.pc = "next" /\ drain.ids = <<>>
  /\ drain' = Resting
  /\ UNCHANGED <<queue, delivered, enabled, inPlace, clock>>

----------------------------------------------------------------------------
(* One item's transaction.                                                  *)

Selected == Row(Head(drain.ids))
To(step) == drain' = [drain EXCEPT !.pc = step]

(* _validate_stored and _validated_current_payload: a payload of an older   *)
(* version is brought to the current one and checked as that.               *)
Acceptable(row) == row.good

OpenItem ==
  /\ drain.pc = "next" /\ drain.ids # <<>>
  /\ IF Verified(Selected.project) /\ Acceptable(Selected) THEN To("capture") ELSE To("failed")
  /\ UNCHANGED <<queue, delivered, enabled, inPlace, clock>>

StillVerified(p) == p \in inPlace

(* Mutant: what was captured is tried again at the next drain.              *)
Untouched(i) == queue

WithoutItem(i) == queue \ {Row(i)}

(* The capture and the deletion of the item are committed together. The     *)
(* capture fails too when the quarantine is full.                           *)
CaptureItem ==
  /\ drain.pc = "capture"
  /\ \/ /\ StillVerified(Selected.project)
        /\ delivered' = delivered \cup {Selected.item}
        /\ queue' = WithoutItem(Selected.item)
        /\ drain' = [pc |-> "next", ids |-> Tail(drain.ids)]
     \/ To("failed") /\ UNCHANGED <<queue, delivered>>
  /\ UNCHANGED <<enabled, inPlace, clock>>

(* _record_failure, which may itself fail without a word.                   *)
RecordFailure ==
  /\ drain.pc = "failed" /\ clock < MaxClock
  /\ drain' = [pc |-> "next", ids |-> Tail(drain.ids)]
  /\ \/ queue' = WithoutItem(Selected.item) \cup {[Selected EXCEPT !.last = clock]}
     \/ UNCHANGED queue
  /\ clock' = clock + 1
  /\ UNCHANGED <<delivered, enabled, inPlace>>

(* The run is killed: an open transaction is rolled back.                   *)
Kill ==
  /\ drain.pc # "idle"
  /\ drain' = Resting
  /\ UNCHANGED <<queue, delivered, enabled, inPlace, clock>>

----------------------------------------------------------------------------
(* The registry, which an open transaction holds, and the file system.      *)

SetEnabled(p) ==
  /\ drain.pc # "capture"
  /\ enabled' = IF p \in enabled THEN enabled \ {p} ELSE enabled \cup {p}
  /\ UNCHANGED <<queue, delivered, inPlace, drain, clock>>

Move(p) ==
  /\ inPlace' = IF p \in inPlace THEN inPlace \ {p} ELSE inPlace \cup {p}
  /\ UNCHANGED <<queue, delivered, enabled, drain, clock>>

Next ==
  \/ \E i \in Items, p \in Projects : Enqueue(i, p)
  \/ StartDrain \/ EndDrain \/ OpenItem \/ CaptureItem \/ RecordFailure \/ Kill
  \/ \E p \in Projects : SetEnabled(p) \/ Move(p)

Spec == Init /\ [][Next]_vars

----------------------------------------------------------------------------
(* Whatever fails, dies or moves, a queued capture stays queued until it is *)
(* given once to pending capture, for the project it was queued for while   *)
(* that is enabled and in place. (retry_queue.py:218-319)                   *)
DeliveredOrKept ==
  /\ \A row \in queue :
       \/ \E kept \in queue' : kept.item = row.item /\ kept.project = row.project
       \/ row.item \in delivered' /\ Verified(row.project)
  /\ delivered' \cap {row.item : row \in queue'} = {}

(* A capture that keeps failing does not keep the others from their turn:   *)
(* it is not tried again while one that was queued before its last try has   *)
(* not been tried since. (retry_queue.py:219-234, 321-338)                  *)
NoOvertaking ==
  drain.pc = "idle" /\ drain'.pc = "next" =>
    \A n \in DOMAIN drain'.ids :
      LET again == Row(drain'.ids[n])
      IN again.last # 0 =>
           \A row \in queue :
              row.created < again.last /\ row.last < again.last =>
                \E m \in 1..(n - 1) : drain'.ids[m] = row.item
=============================================================================
