---------------------------- MODULE RecordLedger ----------------------------
(***************************************************************************)
(* What ingestion promises about the records of one source.  A batch of    *)
(* records is delivered at once: each record of it is stored as trusted    *)
(* memory or put aside (deferred) for the owner, and only with that is it  *)
(* acknowledged, that is, behind the checkpoint and not read again.  The   *)
(* checkpoint may be dropped, which makes the source be read again from    *)
(* its start; nothing that was stored or deferred is ever undone.          *)
(***************************************************************************)
CONSTANT Records

VARIABLES
  stored,    \* records that are trusted memory
  deferred,  \* records the owner is asked to place
  acked      \* records behind the checkpoint

vars == <<stored, deferred, acked>>

Init == stored = {} /\ deferred = {} /\ acked = {}

Deliver(batch, accepted) ==
  /\ stored' = stored \cup accepted
  /\ deferred' = deferred \cup (batch \ accepted)
  /\ acked' \in {acked \cup batch, batch}

(* The owner names the project of a deferred record.                        *)
Place(r) ==
  /\ r \in deferred
  /\ stored' = stored \cup {r}
  /\ UNCHANGED <<deferred, acked>>

Next ==
  \/ \E batch \in SUBSET Records : \E accepted \in SUBSET batch :
       Deliver(batch, accepted)
  \/ \E r \in Records : Place(r)

Spec == Init /\ [][Next]_vars

AckedHandled == acked \subseteq stored \cup deferred
=============================================================================
