------------------------ MODULE PendingCaptureProofs ------------------------
(***************************************************************************)
(* Proofs about the capture quarantine, for every set of projects, agents, *)
(* record ids, every clock and every capacity.                             *)
(***************************************************************************)
EXTENDS PendingCapture, FiniteSetTheorems, TLAPS

(* The inductive invariant.  None of its parts is inductive alone: a claim  *)
(* stays verified by its trusted record because bound records never change, *)
(* and binding never meets the unique index because the quarantine holds no *)
(* claim that is bound or finalized already.                                *)
IInv == /\ TypeOK
        /\ PendingNotFinal
        /\ PendingNotBound
        /\ VerifiedProvenance
        /\ OneSourcePerClaim
        /\ ReceiptHasSource

(* A claim is determined by its five fields.                                *)
LEMMA ClaimEquality ==
  ASSUME NEW j \in Claims, NEW k \in Claims,
         j.project = k.project, j.agent = k.agent, j.model = k.model,
         j.record = k.record, j.hash = k.hash
  PROVE  j = k
BY DEF Claims

(* The initial state satisfies the inductive invariant.                     *)
LEMMA InitInv == Init => IInv
<1> SUFFICES ASSUME Init PROVE IInv
  OBVIOUS
<1>1. TypeOK
  BY DEF Init, TypeOK, NoRef, NoFinal
<1>2. Quarantined = {} /\ Finalized = {}
  BY DEF Init, Quarantined, Finalized
<1>3. \A k \in Claims, s \in SourceIds : ~BindsTo(refs[k.agent][s], k)
  BY NoneAssumption DEF Init, BindsTo, Claims, NoRef
<1>4. PendingNotFinal /\ PendingNotBound
  BY <1>2 DEF PendingNotFinal, PendingNotBound
<1>5. VerifiedProvenance
  BY <1>2 DEF VerifiedProvenance
<1>6. OneSourcePerClaim
  BY <1>3 DEF OneSourcePerClaim
<1>7. ReceiptHasSource
  BY DEF ReceiptHasSource, Init
<1>8. QED
  BY <1>1, <1>4, <1>5, <1>6, <1>7 DEF IInv

(* The effect of finalizing the claims of K: they leave the quarantine, and *)
(* a history row is gone (evicted), unchanged, or new.                      *)
FinalizeEffect(K, st, t, src) ==
  /\ pending' \in [Claims -> Times \cup {NONE}]
  /\ history' \in [Claims -> Finals \cup {NoFinal}]
  /\ Quarantined' = Quarantined \ K
  /\ \A k \in Claims :
       \/ history'[k] = NoFinal
       \/ k \notin K /\ history'[k] = history[k]
       \/ k \in K /\ history'[k] = [state |-> st, created |-> pending[k],
                                   at |-> t, source |-> src[k]]

(* The effect on source_refs of verifying the claims of K, claim k by src[k]:*)
(* nothing else changes, except that one record may be created unbound.     *)
BindingEffect(K, src) ==
  /\ \A k \in K : /\ BindsTo(refs'[k.agent][src[k]], k)
                  /\ InWindow(pending[k], refs'[k.agent][src[k]].time)
  /\ \A a \in Agents, s \in SourceIds :
       \/ refs'[a][s] = refs[a][s]
       \/ refs[a][s] = NoRef /\ refs'[a][s].correlation = NONE
       \/ /\ refs[a][s].correlation = NONE
          /\ \E k \in K : a = k.agent /\ s = src[k]

(* What finalizing the claims of K does, whatever rows cleanup evicts: they *)
(* leave the quarantine, and a history row is gone, unchanged, or new.      *)
LEMMA FinalizeHasEffect ==
  ASSUME TypeOK, NEW K \in SUBSET Quarantined, NEW st \in FinalStates,
         NEW t \in Times, NEW src, src \in [K -> SourceIds \cup {NONE}],
         Finalize(K, st, t, src)
  PROVE  FinalizeEffect(K, st, t, src)
<1> DEFINE row(k) == [state |-> st, created |-> pending[k],
                      at |-> t, source |-> src[k]]
<1>1. pending' = [k \in Claims |-> IF k \in K THEN NONE ELSE pending[k]]
  BY DEF Finalize
<1>2. PICK E \in SUBSET Claims :
        history' = [k \in Claims |->
                     IF k \in E THEN NoFinal ELSE Archived(K, st, t, src)[k]]
  BY DEF Finalize, Evictable, Rows
<1>3. \A k \in Claims : Archived(K, st, t, src)[k] =
                          IF k \in K THEN row(k) ELSE history[k]
  BY DEF Archived
<1>4. \A k \in K : k \in Claims /\ pending[k] \in Times
  BY DEF Quarantined, TypeOK
<1>5. \A k \in K : row(k) \in Finals
  BY <1>4 DEF Finals
<1>6. \A k \in Claims : history[k] \in Finals \cup {NoFinal}
  BY DEF TypeOK
<1>7. history' \in [Claims -> Finals \cup {NoFinal}]
  BY <1>2, <1>3, <1>5, <1>6, ZenonT(60)
<1>8. pending' \in [Claims -> Times \cup {NONE}]
  BY <1>1 DEF TypeOK
<1>9. Quarantined' = Quarantined \ K
  BY <1>1 DEF Quarantined
<1>11. \A k \in Claims :
         \/ history'[k] = NoFinal
         \/ k \notin K /\ history'[k] = history[k]
         \/ k \in K /\ history'[k] = row(k)
  BY <1>2, <1>3
<1>12. QED
  BY <1>7, <1>8, <1>9, <1>11 DEF FinalizeEffect

(* The step at the heart of the quarantine, common to ingestion and         *)
(* recovery: the claims of K are verified, claim k by trusted record src[k],*)
(* and no other trusted record changes except that one may be created       *)
(* unbound.  Binding only what was unbound preserves the invariant.         *)
LEMMA BindingStep ==
  ASSUME IInv, TypeOK', NEW K \in SUBSET Quarantined, NEW t,
         NEW src, src \in [K -> SourceIds],
         FinalizeEffect(K, "verified", t, src),
         BindingEffect(K, src),
         ReceiptHasSource'
  PROVE  IInv'
<1> USE DEF FinalizeEffect, BindingEffect
<1>1. \A k \in Claims : k.agent \in Agents /\ k.record # NONE
  BY NoneAssumption DEF Claims
<1>2. \A k \in Claims, s \in SourceIds :
        BindsTo(refs'[k.agent][s], k) =>
          \/ refs'[k.agent][s] = refs[k.agent][s]
          \/ k \in K /\ s = src[k]
  <2> SUFFICES ASSUME NEW k \in Claims, NEW s \in SourceIds,
                      BindsTo(refs'[k.agent][s], k),
                      refs'[k.agent][s] # refs[k.agent][s]
               PROVE  k \in K /\ s = src[k]
    OBVIOUS
  <2>1. refs'[k.agent][s].correlation # NONE
    BY <1>1 DEF BindsTo
  <2>2. PICK j \in K : k.agent = j.agent /\ s = src[j]
    BY <1>1, <2>1
  <2>3. BindsTo(refs'[k.agent][s], j)
    BY <2>2
  <2>4. j \in Claims
    BY DEF Quarantined
  <2>5. j = k
    BY <2>2, <2>3, <2>4, ClaimEquality DEF BindsTo
  <2>6. QED
    BY <2>2, <2>5
<1>3. \A k \in Quarantined, s \in SourceIds : ~BindsTo(refs[k.agent][s], k)
  BY DEF IInv, PendingNotBound, Bound
<1>4. PendingNotFinal'
  BY DEF IInv, PendingNotFinal, Quarantined
<1>5. PendingNotBound'
  <2> SUFFICES ASSUME NEW k \in Quarantined \ K, NEW s \in SourceIds,
                      BindsTo(refs'[k.agent][s], k)
               PROVE  FALSE
    BY DEF PendingNotBound, Bound
  <2> QED
    BY <1>2, <1>3 DEF Quarantined
<1>6. VerifiedProvenance'
  <2> SUFFICES ASSUME NEW k \in Claims, history'[k] # NoFinal,
                      history'[k].state = "verified"
               PROVE  /\ history'[k].source # NONE
                      /\ BindsTo(refs'[k.agent][history'[k].source], k)
                      /\ InWindow(history'[k].created,
                                  refs'[k.agent][history'[k].source].time)
    BY DEF VerifiedProvenance, Finalized
  <2>1. CASE k \in K
    <3> DEFINE row == [state |-> "verified", created |-> pending[k],
                       at |-> t, source |-> src[k]]
    <3>0. history'[k] = row
      BY <2>1
    <3>1. history'[k].source = src[k] /\ history'[k].created = pending[k]
      BY <3>0
    <3>2. src[k] \in SourceIds
      BY <2>1
    <3>3. QED
      BY <2>1, <3>1, <3>2, NoneAssumption
  <2>2. CASE k \notin K
    <3> DEFINE s == history[k].source
    <3>1. history'[k] = history[k]
      BY <2>2
    <3>2. /\ s # NONE
          /\ BindsTo(refs[k.agent][s], k)
          /\ InWindow(history[k].created, refs[k.agent][s].time)
      BY <3>1 DEF IInv, VerifiedProvenance, Finalized
    <3>3. s \in SourceIds
      BY <3>1, <3>2, SMTT(60) DEF IInv, TypeOK, Finals
    <3>4. refs[k.agent][s].correlation # NONE /\ refs[k.agent][s] # NoRef
      BY <1>1, <3>2 DEF BindsTo, NoRef
    <3>5. refs'[k.agent][s] = refs[k.agent][s]
      BY <1>1, <3>3, <3>4
    <3>6. QED
      BY <3>1, <3>2, <3>5
  <2>3. QED
    BY <2>1, <2>2
<1>7. OneSourcePerClaim'
  <2> SUFFICES ASSUME NEW k \in Claims, NEW s \in SourceIds, NEW u \in SourceIds,
                      BindsTo(refs'[k.agent][s], k), BindsTo(refs'[k.agent][u], k)
               PROVE  s = u
    BY DEF OneSourcePerClaim
  <2>1. CASE k \in K
    BY <1>2, <1>3, <2>1
  <2>2. CASE k \notin K
    BY <1>2, <2>2 DEF IInv, OneSourcePerClaim
  <2>3. QED
    BY <2>1, <2>2
<1>8. QED
  BY <1>4, <1>5, <1>6, <1>7 DEF IInv

(* Quarantining a claim is safe because the three lookups of                *)
(* _store_pending_on_connection find every place it could already be in.    *)
LEMMA CaptureUntrustedInv ==
  ASSUME IInv, NEW k \in Claims, NEW t \in Times, CaptureUntrusted(k, t)
  PROVE  IInv'
<1>1. TypeOK'
  BY DEF IInv, TypeOK, CaptureUntrusted, Known, HasRoom
<1>2. Quarantined' = Quarantined \cup {k}
  BY TimesAssumption DEF CaptureUntrusted, Known, HasRoom, Quarantined, IInv, TypeOK
<1>3. UNCHANGED <<history, refs, receipts>> /\ history[k] = NoFinal /\ ~Bound(k)
  BY DEF CaptureUntrusted, Known, HasRoom
<1>4. PendingNotFinal' /\ PendingNotBound'
  BY <1>2, <1>3 DEF IInv, PendingNotFinal, PendingNotBound, Bound, BindsTo
<1>5. VerifiedProvenance' /\ OneSourcePerClaim' /\ ReceiptHasSource'
  BY <1>3 DEF IInv, VerifiedProvenance, OneSourcePerClaim, ReceiptHasSource,
       Finalized, BindsTo, InWindow
<1>6. QED
  BY <1>1, <1>4, <1>5 DEF IInv

(* A new trusted record of a is a Refs row and binds what it is told to.    *)
LEMMA NewRefType ==
  ASSUME NEW p \in Projects, NEW m \in Models, NEW h \in Hashes, NEW v \in Times,
         NEW c \in RecordIds \cup {NONE}
  PROVE  /\ NewRef(p, m, h, v, c) \in Refs
         /\ NewRef(p, m, h, v, c) # NoRef
         /\ NewRef(p, m, h, v, c).correlation = c
         /\ NewRef(p, m, h, v, c).time = v
         /\ \A k \in Claims : k.project = p /\ k.model = m /\ k.hash = h /\ k.record = c
              => BindsTo(NewRef(p, m, h, v, c), k)
BY TimesAssumption DEF NewRef, Refs, NoRef, BindsTo

(* Ingestion of a new trusted record, with or without a claim to verify.    *)
LEMMA IngestNewInv ==
  ASSUME IInv, NEW a \in Agents, NEW s \in SourceIds, NEW p \in Projects,
         NEW m \in Models, NEW h \in Hashes, NEW v \in Times, NEW t \in Times,
         IngestNew(a, s, p, m, h, v, t)
  PROVE  IInv'
<1> DEFINE ref(c) == NewRef(p, m, h, v, c)
<1>1. TypeOK
  BY DEF IInv
<1>2. refs[a][s] = NoRef /\ refs[a][s].correlation = NONE
  BY DEF IngestNew, NoRef
<1>3. ASSUME NEW c \in RecordIds \cup {NONE},
             refs' = [refs EXCEPT ![a][s] = ref(c)]
      PROVE  /\ refs' \in [Agents -> [SourceIds -> Refs \cup {NoRef}]]
             /\ refs'[a][s] = ref(c)
             /\ \A b \in Agents, u \in SourceIds :
                  (b = a /\ u = s) \/ refs'[b][u] = refs[b][u]
             /\ ReceiptHasSource'
  <2>1. ref(c) \in Refs /\ ref(c) # NoRef
    BY NewRefType
  <2>2. /\ refs' \in [Agents -> [SourceIds -> Refs \cup {NoRef}]]
        /\ refs'[a][s] = ref(c)
        /\ \A b \in Agents, u \in SourceIds :
             (b = a /\ u = s) \/ refs'[b][u] = refs[b][u]
    BY <1>1, <1>3, <2>1 DEF TypeOK
  <2>3. receipts' \subseteq SourceIds
    BY <1>1 DEF IngestNew, Received, TypeOK
  <2>4. \A u \in receipts' : u \in receipts \/ (a = Codex /\ u = s)
    BY DEF IngestNew, Received
  <2>5. \A u \in receipts : refs[Codex][u] # NoRef
    BY DEF IInv, ReceiptHasSource
  <2>6. ReceiptHasSource'
    BY <2>1, <2>2, <2>3, <2>4, <2>5, CodexAssumption DEF ReceiptHasSource
  <2>7. QED
    BY <2>2, <2>6
<1>4. receipts' \subseteq SourceIds /\ current' \subseteq Projects
  BY <1>1 DEF IngestNew, Received, TypeOK
<1>5. CASE /\ refs' = [refs EXCEPT ![a][s] = ref(NONE)]
           /\ UNCHANGED <<pending, history>>
  <2> DEFINE K == {}
             src == [k \in K |-> s]
  <2>1. TypeOK' /\ ReceiptHasSource'
    BY <1>1, <1>3, <1>4, <1>5 DEF TypeOK
  <2>2. FinalizeEffect(K, "verified", t, src)
    BY <1>1, <1>5 DEF FinalizeEffect, Quarantined, TypeOK
  <2>3. ref(NONE).correlation = NONE
    BY NewRefType
  <2>4. BindingEffect(K, src)
    BY <1>2, <1>3, <1>5, <2>3 DEF BindingEffect
  <2>5. src \in [K -> SourceIds] /\ K \in SUBSET Quarantined
    OBVIOUS
  <2> HIDE DEF K, src
  <2>6. QED
    BY <2>1, <2>2, <2>4, <2>5, BindingStep
<1>6. CASE \E k \in Matching(a, p, m, h, v) :
             /\ ~Bound(k)
             /\ refs' = [refs EXCEPT ![a][s] = ref(k.record)]
             /\ Finalize({k}, "verified", t, [j \in {k} |-> s])
  <2>1. PICK k \in Matching(a, p, m, h, v) :
             /\ refs' = [refs EXCEPT ![a][s] = ref(k.record)]
             /\ Finalize({k}, "verified", t, [j \in {k} |-> s])
    BY <1>6
  <2> DEFINE K == {k}
             src == [j \in {k} |-> s]
  <2>2. /\ k \in Quarantined /\ k \in Claims
        /\ k.project = p /\ k.agent = a /\ k.model = m /\ k.hash = h
        /\ InWindow(pending[k], v)
    BY DEF Matching, Quarantined
  <2>3. k.record \in RecordIds
    BY <2>2 DEF Claims
  <2>4. /\ K \in SUBSET Quarantined
        /\ src \in [K -> SourceIds]
        /\ src \in [K -> SourceIds \cup {NONE}]
        /\ \A j : j \in K <=> j = k
        /\ src[k] = s
        /\ "verified" \in FinalStates
        /\ Finalize(K, "verified", t, src)
    BY <2>1, <2>2 DEF FinalStates
  <2> HIDE DEF K, src
  <2>5. FinalizeEffect(K, "verified", t, src)
    BY <1>1, <2>4, FinalizeHasEffect
  <2>6. TypeOK' /\ ReceiptHasSource'
    BY <1>3, <1>4, <2>1, <2>3, <2>5 DEF TypeOK, FinalizeEffect
  <2>7. refs'[a][s] = ref(k.record)
    BY <1>3, <2>1, <2>3
  <2>8. BindsTo(ref(k.record), k) /\ ref(k.record).time = v
    BY <2>2, <2>3, NewRefType
  <2>9. BindingEffect(K, src)
    BY <1>2, <1>3, <2>1, <2>2, <2>3, <2>4, <2>7, <2>8 DEF BindingEffect
  <2>10. QED
    BY <2>4, <2>5, <2>6, <2>9, BindingStep
<1>7. QED
  BY <1>5, <1>6 DEF IngestNew

(* An ordinary replay leaves everything but the receipt as it was.          *)
LEMMA IngestReplayInv ==
  ASSUME IInv, NEW a \in Agents, NEW s \in SourceIds, NEW p, NEW m, NEW h, NEW v,
         IngestReplay(a, s, p, m, h, v)
  PROVE  IInv'
<1>1. UNCHANGED <<current, pending, history, refs>> /\ refs[a][s] # NoRef
  BY DEF IngestReplay
<1>2. receipts' \subseteq SourceIds
  BY DEF IInv, TypeOK, IngestReplay, Received
<1>3. ReceiptHasSource'
  BY <1>1 DEF IInv, ReceiptHasSource, IngestReplay, Received
<1>4. TypeOK' /\ PendingNotFinal' /\ PendingNotBound'
  BY <1>1, <1>2 DEF IInv, TypeOK, PendingNotFinal, PendingNotBound, Bound, BindsTo,
       Quarantined
<1>5. VerifiedProvenance' /\ OneSourcePerClaim'
  BY <1>1 DEF IInv, VerifiedProvenance, OneSourcePerClaim, Finalized, BindsTo,
       InWindow
<1>6. QED
  BY <1>3, <1>4, <1>5 DEF IInv

(* Expiry verifies nothing: every part but the provenance of verified rows  *)
(* is immediate, and an expired row has no provenance to check.             *)
LEMMA ExpirePendingInv ==
  ASSUME IInv, NEW K \in SUBSET Quarantined, NEW t \in Times, ExpirePending(K, t)
  PROVE  IInv'
<1> DEFINE src == [k \in K |-> NONE]
<1>1. /\ TypeOK
      /\ UNCHANGED <<current, refs, receipts>>
      /\ Finalize(K, "expired", t, src)
      /\ "expired" \in FinalStates
      /\ src \in [K -> SourceIds \cup {NONE}]
  BY DEF IInv, ExpirePending, FinalStates
<1> HIDE DEF src
<1>2. FinalizeEffect(K, "expired", t, src)
  BY <1>1, FinalizeHasEffect
<1>3. TypeOK'
  BY <1>1, <1>2 DEF TypeOK, FinalizeEffect
<1>4. PendingNotFinal' /\ PendingNotBound'
  BY <1>1, <1>2 DEF IInv, PendingNotFinal, PendingNotBound, Bound, BindsTo,
       FinalizeEffect, Quarantined
<1>5. ASSUME NEW k \in Claims, history'[k] # NoFinal,
             history'[k].state = "verified"
      PROVE  history'[k] = history[k]
  <2> DEFINE row == [state |-> "expired", created |-> pending[k],
                     at |-> t, source |-> src[k]]
  <2>1. row.state # "verified"
    OBVIOUS
  <2>2. history'[k] = history[k] \/ history'[k] = row
    BY <1>2, <1>5 DEF FinalizeEffect
  <2>3. QED
    BY <1>5, <2>1, <2>2
<1>6. VerifiedProvenance'
  BY <1>1, <1>5 DEF IInv, VerifiedProvenance, Finalized, BindsTo, InWindow
<1>7. OneSourcePerClaim' /\ ReceiptHasSource'
  BY <1>1 DEF IInv, OneSourcePerClaim, ReceiptHasSource, BindsTo
<1>8. QED
  BY <1>3, <1>4, <1>6, <1>7 DEF IInv

(* What a recovery does to source_refs: the record a claim is mapped to was  *)
(* unbound, is bound to the claim afterwards, and was observed in its       *)
(* window; no other record changes.                                         *)
LEMMA RecoveryBinds ==
  ASSUME IInv, NEW K \in SUBSET Quarantined, NEW t \in Times,
         NEW src \in [K -> SourceIds], NEW at \in [K -> Times],
         RecoverPending(K, src, at, t)
  PROVE  /\ refs' \in [Agents -> [SourceIds -> Refs \cup {NoRef}]]
         /\ \A k \in K : /\ k.agent = Codex /\ InWindow(pending[k], at[k])
                         /\ refs[Codex][src[k]].correlation = NONE
                         /\ refs'[Codex][src[k]] # NoRef
                         /\ BindsTo(refs'[Codex][src[k]], k)
                         /\ refs'[Codex][src[k]].time = at[k]
         /\ \A a \in Agents, s \in SourceIds :
              \/ refs'[a][s] = refs[a][s]
              \/ a = Codex /\ \E k \in K : s = src[k]
<1>1. /\ TypeOK
      /\ K \subseteq Claims
      /\ \A k \in K : src[k] \in SourceIds /\ at[k] \in Times
      /\ \A k \in K : Recoverable(k, src[k], at[k])
      /\ \A j, k \in K : src[j] = src[k] => j = k
  BY DEF IInv, RecoverPending, Quarantined
<1> DEFINE bound(k) == NewRef(k.project, k.model, k.hash, at[k], k.record)
<1>3. \A k \in K :
        /\ k.agent = Codex /\ InWindow(pending[k], at[k])
        /\ \/ refs[Codex][src[k]] = NoRef
           \/ /\ refs[Codex][src[k]] # NoRef
              /\ refs[Codex][src[k]].project = k.project
              /\ refs[Codex][src[k]].model = k.model
              /\ refs[Codex][src[k]].hash = k.hash
              /\ refs[Codex][src[k]].time = at[k]
              /\ \/ refs[Codex][src[k]].correlation = k.record
                 \/ refs[Codex][src[k]].correlation = NONE
  BY <1>1 DEF Recoverable
<1>4. \A k \in K : bound(k) \in Refs /\ bound(k) # NoRef /\ BindsTo(bound(k), k)
                  /\ bound(k).time = at[k]
  BY <1>1, NewRefType DEF Claims
<1>5. \A k \in K : ~BindsTo(refs[k.agent][src[k]], k)
  BY <1>1 DEF IInv, PendingNotBound, Bound
<1>6. \A k \in K : refs[Codex][src[k]].correlation = NONE
  BY <1>3, <1>5 DEF BindsTo, NoRef
<1> DEFINE rebound(k) == [refs[Codex][src[k]] EXCEPT !.correlation = k.record]
<1>7. \A k \in K : refs[Codex][src[k]] # NoRef =>
        rebound(k) \in Refs /\ rebound(k) # NoRef /\ BindsTo(rebound(k), k)
        /\ rebound(k).time = at[k]
  <2> SUFFICES ASSUME NEW k \in K, refs[Codex][src[k]] # NoRef
               PROVE  rebound(k) \in Refs /\ rebound(k) # NoRef
                      /\ BindsTo(rebound(k), k) /\ rebound(k).time = at[k]
    OBVIOUS
  <2>1. refs[Codex][src[k]] \in Refs
    BY <1>1, CodexAssumption DEF TypeOK
  <2>2. k.record \in RecordIds /\ k.record # NONE
    BY <1>1, NoneAssumption DEF Claims
  <2>3. rebound(k) \in Refs /\ rebound(k).time = at[k] /\ BindsTo(rebound(k), k)
    BY <1>3, <2>1, <2>2 DEF Refs, BindsTo
  <2>4. rebound(k).correlation = k.record
    BY <2>3 DEF BindsTo
  <2>5. QED
    BY <2>2, <2>3, <2>4 DEF NoRef
<1>8. \A a \in Agents, s \in SourceIds :
        refs'[a][s] = IF a = Codex /\ \E k \in K : src[k] = s
                      THEN LET k == MappedClaim(K, src, s)
                           IN IF refs[a][s] = NoRef THEN bound(k)
                              ELSE [refs[a][s] EXCEPT !.correlation = k.record]
                      ELSE refs[a][s]
  BY DEF RecoverPending
<1>9. \A k \in K : refs'[Codex][src[k]] =
                   IF refs[Codex][src[k]] = NoRef THEN bound(k) ELSE rebound(k)
  <2> SUFFICES ASSUME NEW k \in K
               PROVE  refs'[Codex][src[k]] =
                        IF refs[Codex][src[k]] = NoRef THEN bound(k) ELSE rebound(k)
    OBVIOUS
  <2>1. MappedClaim(K, src, src[k]) = k
    BY <1>1 DEF MappedClaim
  <2>2. QED
    BY <1>1, <1>8, <2>1, CodexAssumption
<1>10. \A a \in Agents, s \in SourceIds :
         \/ refs'[a][s] = refs[a][s]
         \/ a = Codex /\ \E k \in K : s = src[k]
  BY <1>8, ZenonT(60)
<1>11. \A k \in K : /\ refs'[Codex][src[k]] \in Refs
                    /\ refs'[Codex][src[k]] # NoRef
                    /\ BindsTo(refs'[Codex][src[k]], k)
                    /\ refs'[Codex][src[k]].time = at[k]
  BY <1>4, <1>7, <1>9, ZenonT(60)
<1>12. refs' \in [Agents -> [SourceIds -> Refs \cup {NoRef}]]
  <2>1. \A a \in Agents, s \in SourceIds : refs'[a][s] \in Refs \cup {NoRef}
    BY <1>1, <1>10, <1>11 DEF TypeOK
  <2>2. refs' = [a \in Agents |-> [s \in SourceIds |-> refs'[a][s]]]
    BY DEF RecoverPending
  <2>3. QED
    BY <2>1, <2>2
<1>13. QED
  BY <1>3, <1>6, <1>10, <1>11, <1>12

(* Recovery verifies exactly the claims the operator named, by records that *)
(* were unbound, whether their source_ref is old or created by the recovery.*)
LEMMA RecoverPendingInv ==
  ASSUME IInv, NEW K \in SUBSET Quarantined, NEW t \in Times,
         NEW src \in [K -> SourceIds], NEW at \in [K -> Times],
         RecoverPending(K, src, at, t)
  PROVE  IInv'
<1>1. /\ TypeOK
      /\ \A k \in K : src[k] \in SourceIds /\ at[k] \in Times
      /\ src \in [K -> SourceIds \cup {NONE}]
      /\ "verified" \in FinalStates
      /\ Finalize(K, "verified", t, src)
      /\ receipts' = receipts \cup {src[k] : k \in K}
      /\ current' = current
  BY DEF IInv, RecoverPending, FinalStates
<1>2. FinalizeEffect(K, "verified", t, src)
  BY <1>1, FinalizeHasEffect
<1>3. /\ refs' \in [Agents -> [SourceIds -> Refs \cup {NoRef}]]
      /\ \A k \in K : /\ k.agent = Codex /\ InWindow(pending[k], at[k])
                      /\ refs[Codex][src[k]].correlation = NONE
                      /\ refs'[Codex][src[k]] # NoRef
                      /\ BindsTo(refs'[Codex][src[k]], k)
                      /\ refs'[Codex][src[k]].time = at[k]
      /\ \A a \in Agents, s \in SourceIds :
           \/ refs'[a][s] = refs[a][s]
           \/ a = Codex /\ \E k \in K : s = src[k]
  BY RecoveryBinds, ZenonT(60)
<1>4. TypeOK'
  BY <1>1, <1>2, <1>3 DEF TypeOK, FinalizeEffect
<1>5. BindingEffect(K, src)
  BY <1>1, <1>3 DEF BindingEffect
<1>6. ReceiptHasSource'
  BY <1>1, <1>3, CodexAssumption DEF IInv, ReceiptHasSource, TypeOK
<1>7. QED
  BY <1>1, <1>2, <1>4, <1>5, <1>6, BindingStep

(* A change of the registered projects touches no table of the quarantine.  *)
LEMMA ProjectChangesInv ==
  ASSUME IInv, NEW p \in Projects, ProjectChanges(p)
  PROVE  IInv'
BY DEF IInv, ProjectChanges, TypeOK, PendingNotFinal, PendingNotBound,
     VerifiedProvenance, OneSourcePerClaim, ReceiptHasSource, Quarantined,
     Finalized, Bound, BindsTo, InWindow

(* The invariant is inductive.                                              *)
LEMMA StepInv == IInv /\ [Next]_vars => IInv'
<1> SUFFICES ASSUME IInv, [Next]_vars PROVE IInv'
  OBVIOUS
<1>1. ASSUME NEW k \in Claims, NEW t \in Times, CaptureUntrusted(k, t)
      PROVE  IInv'
  BY <1>1, CaptureUntrustedInv
<1>2. ASSUME NEW a \in Agents, NEW s \in SourceIds, NEW p \in Projects,
             NEW m \in Models, NEW h \in Hashes, NEW v \in Times, NEW t \in Times,
             IngestNew(a, s, p, m, h, v, t)
      PROVE  IInv'
  BY <1>2, IngestNewInv
<1>3. ASSUME NEW a \in Agents, NEW s \in SourceIds, NEW p \in Projects,
             NEW m \in Models, NEW h \in Hashes, NEW v \in Times,
             IngestReplay(a, s, p, m, h, v)
      PROVE  IInv'
  BY <1>3, IngestReplayInv
<1>4. ASSUME NEW K \in SUBSET Quarantined, NEW t \in Times,
             NEW src \in [K -> SourceIds], NEW at \in [K -> Times],
             RecoverPending(K, src, at, t)
      PROVE  IInv'
  BY <1>4, RecoverPendingInv
<1>5. ASSUME NEW K \in SUBSET Quarantined, NEW t \in Times, ExpirePending(K, t)
      PROVE  IInv'
  BY <1>5, ExpirePendingInv
<1>6. ASSUME NEW p \in Projects, ProjectChanges(p)
      PROVE  IInv'
  BY <1>6, ProjectChangesInv
<1>7. CASE UNCHANGED vars
  BY <1>7 DEF vars, IInv, TypeOK, PendingNotFinal, PendingNotBound,
       VerifiedProvenance, OneSourcePerClaim, ReceiptHasSource, Quarantined,
       Finalized, Bound, BindsTo, InWindow
<1>8. QED
  BY <1>1, <1>2, <1>3, <1>4, <1>5, <1>6, <1>7 DEF Next

(* The five tables keep their types and the quarantine keeps its invariant, *)
(* for every instance of the constants and every clock.                     *)
THEOREM Invariance == Spec => []IInv
BY InitInv, StepInv, PTL DEF Spec

(* Type correctness.                                                        *)
THEOREM TypeCorrectness == Spec => []TypeOK
<1>1. IInv => TypeOK
  BY DEF IInv
<1>2. QED
  BY <1>1, Invariance, PTL

(* A verified claim always has the provenance that justified it, even after *)
(* the trusted record is replayed or another claim is recovered.            *)
THEOREM Provenance == Spec => []VerifiedProvenance
<1>1. IInv => VerifiedProvenance
  BY DEF IInv
<1>2. QED
  BY <1>1, Invariance, PTL

(* Finalizing a quarantined claim never hits the UNIQUE key of the history  *)
(* and binding it never hits the correlation index: trusted ingestion and   *)
(* expiry cannot be wedged by a claim.                                      *)
THEOREM NeverWedged == Spec => [](PendingNotFinal /\ PendingNotBound)
<1>1. IInv => PendingNotFinal /\ PendingNotBound
  BY DEF IInv
<1>2. QED
  BY <1>1, Invariance, PTL

-----------------------------------------------------------------------------
(* Besides its invariant, the quarantine never rewrites a binding: a claim  *)
(* whose record id is bound is not quarantined by any step, and a trusted   *)
(* record only ever gains its correlation.                                  *)
THEOREM BindingsAreForever == Spec => BindingIsForever
<1> DEFINE kept == /\ \A k \in Claims : Bound(k) => pending'[k] = NONE
                   /\ \A a \in Agents, s \in SourceIds :
                        refs[a][s] # NoRef =>
                          \/ refs'[a][s] = refs[a][s]
                          \/ /\ refs[a][s].correlation = NONE
                             /\ refs'[a][s] = [refs[a][s] EXCEPT
                                   !.correlation = refs'[a][s].correlation]
<1>1. ASSUME IInv, Next PROVE kept
  <2>1. \A k \in Claims : Bound(k) => pending[k] = NONE
    BY <1>1 DEF IInv, PendingNotBound, Quarantined
  <2>2. \A K, st, t, src : Finalize(K, st, t, src) =>
          \A k \in Claims : pending[k] = NONE => pending'[k] = NONE
    BY DEF Finalize
  <2>3. ASSUME NEW k \in Claims, NEW t \in Times, CaptureUntrusted(k, t)
        PROVE  kept
    BY <1>1, <2>1, <2>3 DEF CaptureUntrusted, Known, HasRoom, IInv, TypeOK
  <2>4. ASSUME NEW a \in Agents, NEW s \in SourceIds, NEW p \in Projects,
               NEW m \in Models, NEW h \in Hashes, NEW v \in Times, NEW t \in Times,
               IngestNew(a, s, p, m, h, v, t)
        PROVE  kept
    <3>1. \A k \in Claims : pending[k] = NONE => pending'[k] = NONE
      BY <2>2, <2>4 DEF IngestNew
    <3>2. \A b \in Agents, u \in SourceIds :
            refs[b][u] # NoRef => refs'[b][u] = refs[b][u]
      <4>1. refs[a][s] = NoRef
        BY <2>4 DEF IngestNew
      <4>2. \E c : refs' = [refs EXCEPT ![a][s] = NewRef(p, m, h, v, c)]
        BY <2>4 DEF IngestNew
      <4>3. PICK c : refs' = [refs EXCEPT ![a][s] = NewRef(p, m, h, v, c)]
        BY <4>2
      <4>4. /\ refs \in [Agents -> [SourceIds -> Refs \cup {NoRef}]]
        BY <1>1 DEF IInv, TypeOK
      <4>5. \A b \in Agents, u \in SourceIds :
              b # a \/ u # s => refs'[b][u] = refs[b][u]
        BY <4>3, <4>4
      <4>6. QED
        BY <4>1, <4>5
    <3>3. QED
      BY <2>1, <3>1, <3>2
  <2>5. ASSUME NEW a \in Agents, NEW s \in SourceIds, NEW p \in Projects,
               NEW m \in Models, NEW h \in Hashes, NEW v \in Times,
               IngestReplay(a, s, p, m, h, v)
        PROVE  kept
    BY <2>1, <2>5 DEF IngestReplay
  <2>6. ASSUME NEW K \in SUBSET Quarantined, NEW t \in Times,
               NEW src \in [K -> SourceIds], NEW at \in [K -> Times],
               RecoverPending(K, src, at, t)
        PROVE  kept
    <3>1. \A k \in Claims : pending[k] = NONE => pending'[k] = NONE
      BY <2>2, <2>6 DEF RecoverPending
    <3>2. ASSUME NEW a \in Agents, NEW s \in SourceIds, refs[a][s] # NoRef,
                 refs'[a][s] # refs[a][s]
          PROVE  /\ refs[a][s].correlation = NONE
                 /\ refs'[a][s] = [refs[a][s] EXCEPT
                                     !.correlation = refs'[a][s].correlation]
      <4> DEFINE k == MappedClaim(K, src, s)
      <4>1. a = Codex /\ \E j \in K : src[j] = s
        BY <2>6, <3>2 DEF RecoverPending
      <4>2. k \in K /\ src[k] = s
        BY <4>1 DEF MappedClaim
      <4>3. Recoverable(k, s, at[k]) /\ k \in Claims
        BY <2>6, <4>2 DEF RecoverPending, Quarantined
      <4>4. ~BindsTo(refs[a][s], k)
        BY <1>1, <4>1, <4>2, <4>3 DEF IInv, PendingNotBound, Bound, Recoverable
      <4>5. refs[a][s].correlation = NONE
        BY <3>2, <4>1, <4>3, <4>4 DEF Recoverable, BindsTo
      <4>6. refs'[a][s] = [refs[a][s] EXCEPT !.correlation = k.record]
        BY <2>6, <3>2, <4>1 DEF RecoverPending
      <4>7. refs[a][s] \in Refs
        BY <1>1, <3>2 DEF IInv, TypeOK
      <4>8. refs'[a][s].correlation = k.record
        BY <4>6, <4>7 DEF Refs
      <4>9. QED
        BY <4>5, <4>6, <4>8
    <3>3. QED
      BY <2>1, <3>1, <3>2
  <2>7. ASSUME NEW K \in SUBSET Quarantined, NEW t \in Times, ExpirePending(K, t)
        PROVE  kept
    BY <2>1, <2>2, <2>7 DEF ExpirePending
  <2>8. ASSUME NEW p \in Projects, ProjectChanges(p)
        PROVE  kept
    BY <2>1, <2>8 DEF ProjectChanges
  <2>9. QED
    BY <1>1, <2>3, <2>4, <2>5, <2>6, <2>7, <2>8 DEF Next
<1>2. IInv /\ [Next]_vars => [kept]_vars
  BY <1>1
<1>3. QED
  BY <1>2, Invariance, PTL DEF Spec, BindingIsForever

-----------------------------------------------------------------------------
(* A claim leaves the quarantine only in the step that binds a trusted      *)
(* record to it, or past its time to live; a replay confers nothing.        *)
THEOREM LeavesWithReason == Spec => FinalizedWithReason
<1> DEFINE verified(k) ==
      \E s \in SourceIds : /\ refs[k.agent][s].correlation = NONE
                           /\ refs'[k.agent][s].correlation = k.record
                           /\ refs'[k.agent][s].hash = k.hash
           expired(k) == /\ refs' = refs
                         /\ \E t \in Times : pending[k] + Ttl <= t
                         /\ history'[k].state \in {"expired", "none"}
           reason == \A k \in Quarantined :
             pending'[k] = NONE =>
               \/ \E s \in SourceIds : /\ refs[k.agent][s].correlation = NONE
                                       /\ refs'[k.agent][s].correlation = k.record
                                       /\ refs'[k.agent][s].hash = k.hash
               \/ /\ refs' = refs
                  /\ \E t \in Times : pending[k] + Ttl <= t
                  /\ history'[k].state \in {"expired", "none"}
<1>1. ASSUME IInv, Next PROVE reason
  <2> SUFFICES ASSUME NEW k \in Quarantined, pending'[k] = NONE
               PROVE  verified(k) \/ expired(k)
    OBVIOUS
  <2>1. /\ k \in Claims /\ k.agent \in Agents /\ pending[k] # NONE /\ k.record \in RecordIds
        /\ pending[k] \in Times
    BY <1>1 DEF Quarantined, Claims, IInv, TypeOK
  <2>2. ASSUME NEW K \in SUBSET Quarantined, NEW st, NEW t, NEW src, Finalize(K, st, t, src)
        PROVE  k \in K
    BY <2>1, <2>2 DEF Finalize
  <2>3. ASSUME pending' = pending PROVE FALSE
    BY <2>1, <2>3
  <2>4. ASSUME NEW j \in Claims, NEW t \in Times, CaptureUntrusted(j, t)
        PROVE  FALSE
    BY <1>1, <2>1, <2>4, TimesAssumption DEF CaptureUntrusted, IInv, TypeOK
  <2>5. ASSUME NEW a \in Agents, NEW s \in SourceIds, NEW p \in Projects,
               NEW m \in Models, NEW h \in Hashes, NEW v \in Times, NEW t \in Times,
               IngestNew(a, s, p, m, h, v, t)
        PROVE  verified(k)
    <3>1. PICK j \in Matching(a, p, m, h, v) :
            /\ refs' = [refs EXCEPT ![a][s] = NewRef(p, m, h, v, j.record)]
            /\ Finalize({j}, "verified", t, [i \in {j} |-> s])
      BY <2>3, <2>5 DEF IngestNew
    <3>2. j \in Quarantined /\ j.agent = a /\ j.hash = h
      BY DEF Matching
    <3>3. k = j
      BY <2>2, <3>1, <3>2
    <3>4. refs[a][s].correlation = NONE
      BY <2>5 DEF IngestNew, NoRef
    <3>5. refs'[a][s] = NewRef(p, m, h, v, k.record)
      BY <1>1, <3>1, <3>3 DEF IInv, TypeOK
    <3>6. refs'[a][s].correlation = k.record /\ refs'[a][s].hash = h
      BY <3>5 DEF NewRef
    <3>7. QED
      BY <3>2, <3>3, <3>4, <3>6
  <2>6. ASSUME NEW a \in Agents, NEW s \in SourceIds, NEW p \in Projects,
               NEW m \in Models, NEW h \in Hashes, NEW v \in Times,
               IngestReplay(a, s, p, m, h, v)
        PROVE  FALSE
    BY <2>3, <2>6 DEF IngestReplay
  <2>7. ASSUME NEW K \in SUBSET Quarantined, NEW t \in Times,
               NEW src \in [K -> SourceIds], NEW at \in [K -> Times],
               RecoverPending(K, src, at, t)
        PROVE  verified(k)
    <3>1. k \in K
      BY <2>2, <2>7 DEF RecoverPending
    <3>2. /\ k.agent = Codex
          /\ refs[Codex][src[k]].correlation = NONE
          /\ BindsTo(refs'[Codex][src[k]], k)
      BY <1>1, <2>7, <3>1, RecoveryBinds, SMTT(60)
    <3>3. QED
      BY <3>1, <3>2 DEF BindsTo
  <2>8. ASSUME NEW K \in SUBSET Quarantined, NEW t \in Times, ExpirePending(K, t)
        PROVE  expired(k)
    <3> DEFINE src == [j \in K |-> NONE]
    <3>1. Finalize(K, "expired", t, src) /\ K \subseteq Due(t) /\ refs' = refs
      BY <2>8 DEF ExpirePending
    <3> HIDE DEF src
    <3>2. k \in K
      BY <2>2, <3>1
    <3>3. pending[k] + Ttl <= t
      BY <3>1, <3>2 DEF Due
    <3>4. history'[k] = NoFinal \/ history'[k] = Archived(K, "expired", t, src)[k]
      BY <2>1, <3>1 DEF Finalize
    <3>5. Archived(K, "expired", t, src)[k].state = "expired"
      BY <2>1, <3>2 DEF Archived
    <3>6. history'[k].state \in {"expired", "none"}
      BY <3>4, <3>5 DEF NoFinal
    <3>7. QED
      BY <3>1, <3>3, <3>6
  <2>9. ASSUME NEW p \in Projects, ProjectChanges(p)
        PROVE  FALSE
    BY <2>3, <2>9 DEF ProjectChanges
  <2>10. QED
    BY <1>1, <2>4, <2>5, <2>6, <2>7, <2>8, <2>9 DEF Next
<1>2. IInv /\ [Next]_vars => [reason]_vars
  BY <1>1
<1>3. QED
  BY <1>2, Invariance, PTL DEF Spec, FinalizedWithReason

-----------------------------------------------------------------------------
(* The capacities, with the finiteness that cardinalities need.             *)
CapacityInv == /\ IsFiniteSet(Quarantined)
               /\ IsFiniteSet(Finalized)
               /\ WithinCapacity

(* A quarantine that only loses claims stays within its capacities.         *)
LEMMA SmallerQuarantine ==
  ASSUME CapacityInv, Quarantined' \subseteq Quarantined
  PROVE  /\ IsFiniteSet(Quarantined')
         /\ Cardinality(Quarantined') <= MaxGlobal
         /\ \A p \in Projects : Cardinality(QuarantinedIn(p)') <= MaxPerProject
<1>1. IsFiniteSet(Quarantined') /\ Cardinality(Quarantined') <= Cardinality(Quarantined)
  BY FS_Subset DEF CapacityInv
<1>2. Cardinality(Quarantined') \in Nat /\ Cardinality(Quarantined) \in Nat
  BY <1>1, FS_CardinalityType DEF CapacityInv
<1>3. Cardinality(Quarantined') <= MaxGlobal
  BY <1>1, <1>2, SizesAssumption DEF CapacityInv, WithinCapacity
<1>4. ASSUME NEW p \in Projects
      PROVE  Cardinality(QuarantinedIn(p)') <= MaxPerProject
  <2>1. QuarantinedIn(p)' \in SUBSET QuarantinedIn(p)
    BY DEF QuarantinedIn
  <2>2. QuarantinedIn(p) \in SUBSET Quarantined
    BY DEF QuarantinedIn
  <2>3. IsFiniteSet(QuarantinedIn(p))
    BY <2>2, FS_Subset DEF CapacityInv
  <2>4. /\ IsFiniteSet(QuarantinedIn(p)')
        /\ Cardinality(QuarantinedIn(p)') <= Cardinality(QuarantinedIn(p))
    BY <2>1, <2>3, FS_Subset
  <2>5. Cardinality(QuarantinedIn(p)) \in Nat /\ Cardinality(QuarantinedIn(p)') \in Nat
    BY <2>3, <2>4, FS_CardinalityType
  <2>6. QED
    BY <2>4, <2>5, SizesAssumption DEF CapacityInv, WithinCapacity
<1>5. QED
  BY <1>1, <1>3, <1>4

(* Cleanup restores the limit of the history in the same transaction.       *)
LEMMA FinalizeCapacity ==
  ASSUME CapacityInv, NEW K \in SUBSET Quarantined, NEW st, NEW t, NEW src,
         Finalize(K, st, t, src)
  PROVE  CapacityInv'
<1> DEFINE A == Archived(K, st, t, src)
<1>1. PICK E \in Evictable(A) :
        history' = [k \in Claims |-> IF k \in E THEN NoFinal ELSE A[k]]
  BY DEF Finalize
<1>2. Finalized' = Rows(A) \ E
  BY <1>1 DEF Finalized, Rows
<1>3. Rows(A) \subseteq Finalized \cup K
  BY DEF Rows, Archived, Finalized
<1>4. IsFiniteSet(Rows(A))
  <2>1. IsFiniteSet(K)
    BY FS_Subset DEF CapacityInv
  <2>2. IsFiniteSet(Finalized \cup K)
    BY <2>1, FS_Union DEF CapacityInv
  <2>3. QED
    BY <1>3, <2>2, FS_Subset
<1> DEFINE count == Cardinality(Rows(A))
           excess == IF count > MaxHistory THEN count - MaxHistory ELSE 0
<1>5. E \in SUBSET Rows(A) /\ Cardinality(E) = excess
  BY <1>1 DEF Evictable
<1>6. count \in Nat
  BY <1>4, FS_CardinalityType
<1>7. Rows(A) \cap E = E
  BY <1>5
<1>8. IsFiniteSet(Finalized') /\ Cardinality(Finalized') = count - excess
  BY <1>2, <1>4, <1>5, <1>7, FS_Difference
<1>9. Cardinality(Finalized') <= MaxHistory
  BY <1>6, <1>8, SizesAssumption
<1>10. Quarantined' \subseteq Quarantined
  BY DEF Finalize, Quarantined
<1>11. QED
  BY <1>8, <1>9, <1>10, SmallerQuarantine DEF CapacityInv, WithinCapacity

(* Quarantining one more claim: the capacity check precedes the insert.     *)
LEMMA CaptureCapacity ==
  ASSUME TypeOK, CapacityInv, NEW k \in Claims, NEW t \in Times,
         CaptureUntrusted(k, t)
  PROVE  CapacityInv'
<1>1. Quarantined' = Quarantined \cup {k} /\ k \notin Quarantined
  BY TimesAssumption DEF CaptureUntrusted, Known, HasRoom, Quarantined, TypeOK
<1>2. /\ IsFiniteSet(Quarantined')
      /\ Cardinality(Quarantined') = Cardinality(Quarantined) + 1
  BY <1>1, FS_AddElement DEF CapacityInv
<1>3. Cardinality(Quarantined') <= MaxGlobal
  BY <1>2, FS_CardinalityType, SizesAssumption DEF CaptureUntrusted, Known, HasRoom, CapacityInv
<1>4. ASSUME NEW p \in Projects
      PROVE  Cardinality(QuarantinedIn(p)') <= MaxPerProject
  <2>1. IsFiniteSet(QuarantinedIn(p))
    <3>1. QuarantinedIn(p) \in SUBSET Quarantined
      BY DEF QuarantinedIn
    <3>2. QED
      BY <3>1, FS_Subset DEF CapacityInv
  <2>2. Cardinality(QuarantinedIn(p)) \in Nat
    BY <2>1, FS_CardinalityType
  <2>3. CASE p = k.project
    <3>1. QuarantinedIn(p)' = QuarantinedIn(p) \cup {k} /\ k \notin QuarantinedIn(p)
      BY <1>1, <2>3 DEF QuarantinedIn
    <3>2. Cardinality(QuarantinedIn(p)') = Cardinality(QuarantinedIn(p)) + 1
      BY <2>1, <3>1, FS_AddElement
    <3>3. Cardinality(QuarantinedIn(p)) < MaxPerProject
      BY <2>3 DEF CaptureUntrusted, Known, HasRoom
    <3>4. QED
      BY <2>2, <3>2, <3>3, SizesAssumption
  <2>4. CASE p # k.project
    <3>1. QuarantinedIn(p)' = QuarantinedIn(p)
      BY <1>1, <2>4 DEF QuarantinedIn
    <3>2. QED
      BY <3>1 DEF CapacityInv, WithinCapacity
  <2>5. QED
    BY <2>3, <2>4
<1>5. Finalized' = Finalized
  BY DEF CaptureUntrusted, Known, HasRoom, Finalized
<1>6. QED
  BY <1>2, <1>3, <1>4, <1>5 DEF CapacityInv, WithinCapacity

(* The hard limits of the quarantine and of its history hold at every       *)
(* commit, for every interleaving of captures, ingestion, recovery, expiry. *)
THEOREM Capacity == Spec => []WithinCapacity
<1>1. Init => CapacityInv
  <2> SUFFICES ASSUME Init PROVE CapacityInv
    OBVIOUS
  <2>1. Quarantined = {} /\ Finalized = {}
    BY DEF Init, Quarantined, Finalized
  <2>2. \A p \in Projects : QuarantinedIn(p) = {}
    BY <2>1 DEF QuarantinedIn
  <2>3. QED
    BY <2>1, <2>2, FS_EmptySet, SizesAssumption DEF CapacityInv, WithinCapacity
<1>2. ASSUME TypeOK, CapacityInv, [Next]_vars PROVE CapacityInv'
  <2>1. ASSUME UNCHANGED <<pending, history>> PROVE CapacityInv'
    <3>1. Quarantined' = Quarantined /\ Finalized' = Finalized
      BY <2>1 DEF Quarantined, Finalized
    <3>2. \A p \in Projects : QuarantinedIn(p)' = QuarantinedIn(p)
      BY <3>1 DEF QuarantinedIn
    <3>3. QED
      BY <1>2, <3>1, <3>2 DEF CapacityInv, WithinCapacity
  <2>2. ASSUME NEW k \in Claims, NEW t \in Times, CaptureUntrusted(k, t)
        PROVE  CapacityInv'
    BY <1>2, <2>2, CaptureCapacity
  <2>3. ASSUME NEW a \in Agents, NEW s \in SourceIds, NEW p \in Projects,
               NEW m \in Models, NEW h \in Hashes, NEW v \in Times, NEW t \in Times,
               IngestNew(a, s, p, m, h, v, t)
        PROVE  CapacityInv'
    <3>1. CASE UNCHANGED <<pending, history>>
      BY <2>1, <3>1
    <3>2. ASSUME NEW k \in Matching(a, p, m, h, v),
                 Finalize({k}, "verified", t, [j \in {k} |-> s])
          PROVE  CapacityInv'
      <4> DEFINE K == {k}
                 src == [j \in {k} |-> s]
      <4>1. K \in SUBSET Quarantined /\ Finalize(K, "verified", t, src)
        BY <3>2 DEF Matching
      <4> HIDE DEF K, src
      <4>2. QED
        BY <1>2, <4>1, FinalizeCapacity
    <3>3. QED
      BY <2>3, <3>1, <3>2 DEF IngestNew
  <2>4. ASSUME NEW a, NEW s, NEW p, NEW m, NEW h, NEW v,
               IngestReplay(a, s, p, m, h, v)
        PROVE  CapacityInv'
    BY <2>1, <2>4 DEF IngestReplay
  <2>5. ASSUME NEW K \in SUBSET Quarantined, NEW t, NEW src, NEW at,
               RecoverPending(K, src, at, t)
        PROVE  CapacityInv'
    BY <1>2, <2>5, FinalizeCapacity DEF RecoverPending
  <2>6. ASSUME NEW K \in SUBSET Quarantined, NEW t, ExpirePending(K, t)
        PROVE  CapacityInv'
    <3> DEFINE src == [k \in K |-> NONE]
    <3>1. Finalize(K, "expired", t, src)
      BY <2>6 DEF ExpirePending
    <3> HIDE DEF src
    <3>2. QED
      BY <1>2, <3>1, FinalizeCapacity
  <2>7. ASSUME NEW p \in Projects, ProjectChanges(p)
        PROVE  CapacityInv'
    BY <2>1, <2>7 DEF ProjectChanges
  <2>8. CASE UNCHANGED vars
    BY <2>1, <2>8 DEF vars
  <2>9. QED
    BY <1>2, <2>2, <2>3, <2>4, <2>5, <2>6, <2>7, <2>8 DEF Next
<1>3. CapacityInv => WithinCapacity
  BY DEF CapacityInv
<1>4. QED
  BY <1>1, <1>2, <1>3, TypeCorrectness, PTL DEF Spec

(* The quarantine can wedge nothing, stays within its limits, and accounts  *)
(* for every claim it verified, for all instances at once.                  *)
THEOREM QuarantineIsSafe == Spec => []QuarantineSafe
<1>1. IInv /\ WithinCapacity => QuarantineSafe
  BY DEF IInv, QuarantineSafe
<1>2. QED
  BY <1>1, Invariance, Capacity, PTL
=============================================================================
