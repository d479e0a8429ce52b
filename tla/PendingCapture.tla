--------------------------- MODULE PendingCapture ---------------------------
(***************************************************************************)
(* The capture quarantine.  An agent may CLAIM what it did (an untrusted   *)
(* capture): the claim is kept in pending_captures until a trusted record  *)
(* read from the agent's own logs agrees with it.  Agreement verifies the  *)
(* claim, which then moves to pending_capture_history; a claim nobody      *)
(* verifies expires into the same history, and the history is bounded.     *)
(*                                                                         *)
(* Every action is one database transaction (BEGIN IMMEDIATE .. COMMIT) of *)
(* the code: a failing check rolls the whole transaction back, so a step   *)
(* whose guard is false is a stutter.  What the services read before the   *)
(* transaction is read again inside it, hence the single step.             *)
(*                                                                         *)
(* The wall clock is not a variable: every action takes the instant t it   *)
(* reads, so a clock that jumps in either direction is covered.            *)
(***************************************************************************)
EXTENDS Integers, FiniteSets

CONSTANTS
  Projects,       \* registered projects
  Agents,         \* source agents (codex, chatgpt)
  Codex,          \* the agent whose ingestion leaves import receipts
  Models,         \* model identifiers
  RecordIds,      \* ids an untrusted client gives its claims
  SourceIds,      \* ids of trusted records (session:turn, conversation)
  Hashes,         \* hashes of the canonical structured content
  Times,          \* instants
  Window,         \* verification_window_hours
  Ttl,            \* pending_ttl_days
  MaxPerProject,  \* _MAX_PENDING_PER_PROJECT
  MaxGlobal,      \* _MAX_PENDING_GLOBAL
  MaxHistory,     \* _MAX_PENDING_HISTORY
  CleanupBatch,   \* _PENDING_HISTORY_CLEANUP_BATCH
  ExpiryBatch,    \* _PENDING_EXPIRY_BATCH
  MaxMappings,    \* _MAX_PENDING_RECOVERY_MAPPINGS
  NONE            \* SQL null / no row

ASSUME TimesAssumption == /\ Times \subseteq Int
                          /\ NONE \notin Int
ASSUME NoneAssumption == /\ NONE \notin RecordIds
                         /\ NONE \notin SourceIds
ASSUME CodexAssumption == Codex \in Agents
ASSUME SizesAssumption ==
  /\ Window \in Nat /\ Ttl \in Nat
  /\ MaxPerProject \in Nat /\ MaxGlobal \in Nat /\ MaxHistory \in Nat
  /\ CleanupBatch \in Nat /\ ExpiryBatch \in Nat /\ MaxMappings \in Nat

(* A claim is its UNIQUE key in pending_captures and in the history.  A    *)
(* row's pending_id is a fresh random uuid, so the key stands for it.      *)
Claims == [project : Projects, agent : Agents, model : Models,
           record : RecordIds, hash : Hashes]

(* source_refs rows written by a capture (parser_version 'capture-v1').    *)
(* correlation is the record id of the claim the source verified.          *)
Refs == [project : Projects, model : Models, hash : Hashes,
         time : Times, correlation : RecordIds \cup {NONE}]

NoRef == [project |-> NONE, model |-> NONE, hash |-> NONE,
          time |-> NONE, correlation |-> NONE]

FinalStates == {"verified", "expired"}

Finals == [state : FinalStates, created : Times, at : Times,
           source : SourceIds \cup {NONE}]

NoFinal == [state |-> "none", created |-> NONE, at |-> NONE, source |-> NONE]

VARIABLES
  current,   \* projects that are enabled and whose live path still matches
  pending,   \* pending_captures: claim -> created_at, or NONE
  history,   \* pending_capture_history: claim -> Finals, or NoFinal
  refs,      \* source_refs: agent -> trusted record id -> Refs, or NoRef
  receipts   \* import_receipts of Codex: trusted record ids

vars == <<current, pending, history, refs, receipts>>

Init ==
  /\ current = Projects
  /\ pending = [k \in Claims |-> NONE]
  /\ history = [k \in Claims |-> NoFinal]
  /\ refs = [a \in Agents |-> [s \in SourceIds |-> NoRef]]
  /\ receipts = {}

-----------------------------------------------------------------------------
Quarantined == {k \in Claims : pending[k] # NONE}
QuarantinedIn(p) == {k \in Quarantined : k.project = p}
Finalized == {k \in Claims : history[k] # NoFinal}

(* The trusted record r is bound to claim k: the key that the index         *)
(* idx_source_refs_capture_correlation keeps unique.                        *)
BindsTo(r, k) == /\ r.correlation = k.record
                 /\ r.project = k.project
                 /\ r.model = k.model
                 /\ r.hash = k.hash

(* Mutant of Bound: a binding is remembered only as long as the history     *)
(* keeps the row of the claim.                                              *)
BoundInHistory(k) == /\ history[k] # NoFinal
                     /\ \E s \in SourceIds : BindsTo(refs[k.agent][s], k)

Bound(k) == \E s \in SourceIds : BindsTo(refs[k.agent][s], k)

InWindow(created, verified) == /\ created - verified <= Window
                               /\ verified - created <= Window

(* The pending rows a trusted record (a, p, m, h) observed at v may verify: *)
(* the earliest created one in the window, any of them on a tie.  The       *)
(* 1000-row match limit is not modelled: a project holds at most 512 rows.  *)
Matching(a, p, m, h, v) ==
  LET window == {k \in Quarantined : /\ k.project = p /\ k.agent = a
                                     /\ k.model = m /\ k.hash = h
                                     /\ InWindow(pending[k], v)}
  IN {k \in window : \A j \in window : pending[k] <= pending[j]}

(* The source_ref written for a new trusted record.                         *)
NewRef(p, m, h, v, c) ==
  [project |-> p, model |-> m, hash |-> h, time |-> v, correlation |-> c]

(* The rows the history has once the claims of K are finalized in state st, *)
(* claim k by the trusted record src[k].                                    *)
Archived(K, st, t, src) ==
  [k \in Claims |->
     IF k \in K THEN [state |-> st, created |-> pending[k], at |-> t,
                      source |-> src[k]]
     ELSE history[k]]

(* The sets of rows that cleanup may delete from a history h: the excess    *)
(* over the limit, oldest finalized_at first, ties by the random pending_id.*)
Rows(h) == {k \in Claims : h[k] # NoFinal}
Evictable(h) ==
  LET count == Cardinality(Rows(h))
      excess == IF count > MaxHistory THEN count - MaxHistory ELSE 0
  IN {E \in SUBSET Rows(h) :
        /\ Cardinality(E) = excess
        /\ excess <= CleanupBatch
        /\ \A e \in E, r \in Rows(h) \ E : h[e].at <= h[r].at}

(* One finalization: archive K (none of which may have a history row, that  *)
(* is a UNIQUE violation), delete it from the quarantine, prune the history.*)
Finalize(K, st, t, src) ==
  /\ \A k \in K : history[k] = NoFinal
  /\ pending' = [k \in Claims |-> IF k \in K THEN NONE ELSE pending[k]]
  /\ \E E \in Evictable(Archived(K, st, t, src)) :
       history' = [k \in Claims |->
                     IF k \in E THEN NoFinal ELSE Archived(K, st, t, src)[k]]

-----------------------------------------------------------------------------
(* The claim repeats one the service still knows: quarantined, finalized,   *)
(* or the record id a trusted record is bound to.                           *)
Known(k) == pending[k] # NONE \/ history[k] # NoFinal \/ Bound(k)

HasRoom(p) == /\ Cardinality(QuarantinedIn(p)) < MaxPerProject
              /\ Cardinality(Quarantined) < MaxGlobal

(* capture() without a verification, from the broker, the CLI or a retry:   *)
(* a claim of a current project that nothing knows yet is quarantined if    *)
(* the quarantine has room for it.                                          *)
CaptureUntrusted(k, t) ==
  /\ k.project \in current
  /\ ~Known(k)
  /\ HasRoom(k.project)
  /\ pending' = [pending EXCEPT ![k] = t]
  /\ UNCHANGED <<current, history, refs, receipts>>

(* A receipt that was committed before this transaction proves that the     *)
(* Codex record was ingested before.                                        *)
PriorReceipt(a, s) == a = Codex /\ s \in receipts

Received(a, s) == IF a = Codex THEN receipts \cup {s} ELSE receipts

(* Ingestion of a trusted record that has no source_ref yet: the ref is     *)
(* created, bound to the claim it verifies, and that claim is finalized.    *)
IngestNew(a, s, p, m, h, v, t) ==
  /\ p \in current
  /\ refs[a][s] = NoRef
  /\ ~PriorReceipt(a, s)
  /\ \/ /\ Matching(a, p, m, h, v) = {}
        /\ refs' = [refs EXCEPT ![a][s] = NewRef(p, m, h, v, NONE)]
        /\ UNCHANGED <<pending, history>>
     \/ \E k \in Matching(a, p, m, h, v) :
          /\ ~Bound(k)
          /\ refs' = [refs EXCEPT ![a][s] = NewRef(p, m, h, v, k.record)]
          /\ Finalize({k}, "verified", t, [j \in {k} |-> s])
  /\ receipts' = Received(a, s)
  /\ UNCHANGED current

(* Mutant of IngestReplay: the replay still verifies the oldest claim that  *)
(* matches, as a first ingestion does.                                      *)
IngestReplayVerifies(a, s, p, m, h, v) ==
  /\ p \in current
  /\ refs[a][s].project = p /\ refs[a][s].model = m /\ refs[a][s].hash = h
  /\ \E k \in Matching(a, p, m, h, v) : Finalize({k}, "verified", v, [j \in {k} |-> s])
  /\ receipts' = Received(a, s)
  /\ UNCHANGED <<current, refs>>

(* Ingestion of a trusted record that already has a source_ref: everything  *)
(* must agree with it, the instant too unless a receipt proves the replay.  *)
(* The replay stores nothing but the receipt: it verifies no claim.         *)
IngestReplay(a, s, p, m, h, v) ==
  /\ p \in current
  /\ refs[a][s] # NoRef
  /\ refs[a][s].project = p /\ refs[a][s].model = m /\ refs[a][s].hash = h
  /\ refs[a][s].time = v \/ PriorReceipt(a, s)
  /\ receipts' = Received(a, s)
  /\ UNCHANGED <<current, pending, history, refs>>

(* Mutant of Recoverable: the correlation of an existing source_ref is     *)
(* overwritten.                                                            *)
RecoverableRebinds(k, s, v) ==
  /\ k.project \in current /\ k.agent = Codex /\ pending[k] # NONE
  /\ InWindow(pending[k], v) /\ ~Bound(k)
  /\ LET r == refs[Codex][s]
     IN \/ r = NoRef
        \/ /\ r.project = k.project /\ r.model = k.model /\ r.hash = k.hash
           /\ r.time = v

(* One mapping of a recovery: the operator names the claim k and the Codex  *)
(* record s, read again at instant v, that vouches for it.                  *)
Recoverable(k, s, v) ==
  /\ k.project \in current
  /\ k.agent = Codex
  /\ pending[k] # NONE
  /\ InWindow(pending[k], v)
  /\ LET r == refs[Codex][s]
     IN \/ /\ r = NoRef
           /\ ~Bound(k)
        \/ /\ r # NoRef
           /\ r.project = k.project /\ r.model = k.model /\ r.hash = k.hash
           /\ r.time = v
           /\ \/ r.correlation = k.record
              \/ r.correlation = NONE /\ ~Bound(k)

(* The claim of K that the trusted record s is mapped to.                   *)
MappedClaim(K, src, s) == CHOOSE k \in K : src[k] = s

(* PendingRecoveryService.recover(apply=True): every mapping is applied in  *)
(* one transaction, the history is pruned once at the end, and unless every *)
(* mapped claim then is 'verified' in the history nothing is kept.          *)
RecoverPending(K, src, at, t) ==
  /\ K # {} /\ Cardinality(K) <= MaxMappings
  /\ \A j, k \in K : src[j] = src[k] => j = k
  /\ \A k \in K : Recoverable(k, src[k], at[k])
  /\ refs' = [a \in Agents |-> [s \in SourceIds |->
                IF a = Codex /\ \E k \in K : src[k] = s
                THEN LET k == MappedClaim(K, src, s)
                     IN IF refs[a][s] = NoRef
                        THEN NewRef(k.project, k.model, k.hash, at[k], k.record)
                        ELSE [refs[a][s] EXCEPT !.correlation = k.record]
                ELSE refs[a][s]]]
  /\ Finalize(K, "verified", t, src)
  /\ \A k \in K : history'[k] # NoFinal
  /\ receipts' = receipts \cup {src[k] : k \in K}
  /\ UNCHANGED current

(* The expiry stage of reconcile: at most ExpiryBatch due rows, the         *)
(* earliest expires_at first, whatever the state of their project.          *)
Due(t) == {k \in Quarantined : pending[k] + Ttl <= t}

ExpirePending(K, t) ==
  /\ K # {} /\ K \subseteq Due(t)
  /\ K = Due(t) \/ Cardinality(K) = ExpiryBatch
  /\ Cardinality(K) <= ExpiryBatch
  /\ \A k \in K, j \in Due(t) \ K : pending[k] <= pending[j]
  /\ Finalize(K, "expired", t, [k \in K |-> NONE])
  /\ UNCHANGED <<current, refs, receipts>>

(* A project is disabled or enabled, or its directory is replaced or        *)
(* restored (ProjectRegistry models how).                                   *)
ProjectChanges(p) ==
  /\ current' = IF p \in current THEN current \ {p} ELSE current \cup {p}
  /\ UNCHANGED <<pending, history, refs, receipts>>

Next ==
  \/ \E k \in Claims, t \in Times : CaptureUntrusted(k, t)
  \/ \E a \in Agents, s \in SourceIds, p \in Projects, m \in Models,
        h \in Hashes, v \in Times :
       \/ \E t \in Times : IngestNew(a, s, p, m, h, v, t)
       \/ IngestReplay(a, s, p, m, h, v)
  \/ \E K \in SUBSET Quarantined, t \in Times :
       \/ \E src \in [K -> SourceIds], at \in [K -> Times] :
            RecoverPending(K, src, at, t)
       \/ ExpirePending(K, t)
  \/ \E p \in Projects : ProjectChanges(p)

Spec == Init /\ [][Next]_vars

-----------------------------------------------------------------------------
(* Type correctness of the five tables.                                     *)
TypeOK ==
  /\ current \subseteq Projects
  /\ pending \in [Claims -> Times \cup {NONE}]
  /\ history \in [Claims -> Finals \cup {NoFinal}]
  /\ refs \in [Agents -> [SourceIds -> Refs \cup {NoRef}]]
  /\ receipts \subseteq SourceIds

(* A claim that is still quarantined has no history row.  Otherwise its     *)
(* finalization would hit the UNIQUE key of pending_capture_history and     *)
(* abort the trusted ingestion (or the expiry) that caused it, every time.  *)
PendingNotFinal == \A k \in Quarantined : history[k] = NoFinal

(* No quarantined claim is already bound to a trusted record.  Otherwise    *)
(* the next trusted record that matches it would violate the correlation    *)
(* index, and its log could never be ingested past that point.              *)
PendingNotBound == \A k \in Quarantined : ~Bound(k)

(* A verified claim names the trusted record that verified it: same agent,  *)
(* project, model and content, observed within the verification window of   *)
(* the claim's creation, and bound to this claim for good, so that no other *)
(* claim can be verified by it.                                             *)
VerifiedProvenance ==
  \A k \in Finalized :
    history[k].state = "verified" =>
      /\ history[k].source # NONE
      /\ LET r == refs[k.agent][history[k].source]
         IN /\ BindsTo(r, k)
            /\ InWindow(history[k].created, r.time)

(* At most one trusted record is bound to a claim, even after the claim's   *)
(* history row is evicted.                                                  *)
OneSourcePerClaim ==
  \A k \in Claims : \A s, u \in SourceIds :
    BindsTo(refs[k.agent][s], k) /\ BindsTo(refs[k.agent][u], k) => s = u

(* A Codex receipt always has its source_ref.  A receipt without one makes  *)
(* every later ingestion of that record fail, and with it its whole scope.  *)
ReceiptHasSource == \A s \in receipts : refs[Codex][s] # NoRef

(* The quarantine and its history stay within their hard limits, per        *)
(* project and in total, whichever operations finalize claims.              *)
WithinCapacity ==
  /\ \A p \in Projects : Cardinality(QuarantinedIn(p)) <= MaxPerProject
  /\ Cardinality(Quarantined) <= MaxGlobal
  /\ Cardinality(Finalized) <= MaxHistory

(* The quarantine can wedge nothing and stays bounded, and what it verified *)
(* can be traced to the one record that verified it.                        *)
QuarantineSafe ==
  /\ PendingNotFinal /\ PendingNotBound
  /\ VerifiedProvenance /\ OneSourcePerClaim /\ ReceiptHasSource
  /\ WithinCapacity

(* Once verified, never again: a step quarantines no claim whose record id  *)
(* a trusted record of the same content is bound to, and no step unbinds or *)
(* rewrites a trusted record.  Together with the bounded history this is    *)
(* what the correlation column exists for.                                  *)
BindingIsForever ==
  [][/\ \A k \in Claims : Bound(k) => pending'[k] = NONE
     /\ \A a \in Agents, s \in SourceIds :
          refs[a][s] # NoRef =>
            \/ refs'[a][s] = refs[a][s]
            \/ /\ refs[a][s].correlation = NONE
               /\ refs'[a][s] = [refs[a][s] EXCEPT
                                   !.correlation = refs'[a][s].correlation]
    ]_vars

(* A claim leaves the quarantine only with a reason: in the very step that  *)
(* binds a trusted record to it, or past its time to live and then it is    *)
(* finalized as expired.  An ordinary replay of an older trusted record     *)
(* confers nothing on a claim that came after it.                           *)
FinalizedWithReason ==
  [][\A k \in Quarantined :
       pending'[k] = NONE =>
         \/ \E s \in SourceIds : /\ refs[k.agent][s].correlation = NONE
                                 /\ refs'[k.agent][s].correlation = k.record
                                 /\ refs'[k.agent][s].hash = k.hash
         \/ /\ refs' = refs
            /\ \E t \in Times : pending[k] + Ttl <= t
            /\ history'[k].state \in {"expired", "none"}
    ]_vars
=============================================================================
