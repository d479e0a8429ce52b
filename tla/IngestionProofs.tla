-------------------------- MODULE IngestionProofs --------------------------
(***************************************************************************)
(* Proofs about the ingestion of one source, for every number of passes,   *)
(* records, projects, failures, and changes of file and registry.          *)
(***************************************************************************)
EXTENDS Ingestion, SequenceTheorems, FiniteSetTheorems, TLAPS

Bound == Projects \cup {NONE}

Locals ==
  [pc : {"idle", "source", "generation", "prepare", "commit"},
   retry : BOOLEAN, policy : Nat, base : Cursors, next : Cursors,
   batch : Seq(Records), gen : Nat, found : Seq(Bound)]

Distinct(s) == \A m, n \in 1..Len(s) : s[m] = s[n] => m = n

(* The start of a sequence.                                                *)
LEMMA Start ==
  ASSUME NEW S, NEW s \in Seq(S), NEW n \in 0..Len(s)
  PROVE  /\ SubSeq(s, 1, n) \in Seq(S)
         /\ Len(SubSeq(s, 1, n)) = n
         /\ \A k \in 1..n : SubSeq(s, 1, n)[k] = s[k]
<1>1. \A k \in 1..n : s[k] \in S
  BY ElementOfSeq, LenProperties
<1>2. QED
  BY <1>1, SubSeqProperties, LenProperties

(* A prefix is shorter and agrees in every place.                          *)
LEMMA PrefixAgrees ==
  ASSUME NEW S, NEW s \in Seq(S), NEW t \in Seq(S)
  PROVE  IsPrefix(s, t) <=> /\ Len(s) <= Len(t)
                            /\ \A k \in 1..Len(s) : s[k] = t[k]
<1>1. Len(s) \in Nat /\ Len(t) \in Nat
  BY LenProperties
<1>2. SubSeq(s, 1, Len(s)) = s
  BY SubSeqFull
<1>3. CASE Len(s) <= Len(t)
  <2>1. /\ SubSeq(t, 1, Len(s)) \in Seq(S)
        /\ Len(SubSeq(t, 1, Len(s))) = Len(s)
        /\ \A k \in 1..Len(s) : SubSeq(t, 1, Len(s))[k] = t[k]
    BY <1>1, <1>3, Start
  <2>2. SubSeq(t, 1, Len(s)) = s <=> \A k \in 1..Len(s) : s[k] = t[k]
    BY <2>1, SeqEqual
  <2>3. QED
    BY <1>2, <1>3, <2>2 DEF IsPrefix
<1>4. CASE ~(Len(s) <= Len(t))
  BY <1>4 DEF IsPrefix
<1>5. QED
  BY <1>3, <1>4

(* The deepest registered project is one of the projects.                  *)
LEMMA DeepestType ==
  ASSUME NEW rows, NEW r \in Records
  PROVE  Deepest(rows, r) \in Bound
<1>1. Paths[r] \in Seq(Projects)
  BY PathsAssumption
<1>2. CASE First(rows, r) # {}
  <2>1. (CHOOSE n \in First(rows, r) : TRUE) \in 1..Len(Paths[r])
    BY <1>2 DEF First
  <2>2. QED
    BY <1>1, <1>2, <2>1, ElementOfSeq DEF Deepest, Bound
<1>3. CASE First(rows, r) = {}
  BY <1>3 DEF Deepest, Bound
<1>4. QED
  BY <1>2, <1>3

(* find_by_cwd answers a project or none.                                  *)
LEMMA FindType == ASSUME NEW r \in Records PROVE Find(r) \in Bound
BY DeepestType DEF Find, Bound

(* The records of a part of a sequence.                                    *)
LEMMA Part ==
  ASSUME NEW S, NEW s \in Seq(S), NEW m \in Nat, NEW n \in 0..Len(s), m <= n
  PROVE  /\ SubSeq(s, m + 1, n) \in Seq(S)
         /\ Len(SubSeq(s, m + 1, n)) = n - m
         /\ \A k \in 1..(n - m) : SubSeq(s, m + 1, n)[k] = s[m + k]
<1>1. Len(s) \in Nat
  BY LenProperties
<1>2. \A k \in (m + 1)..n : s[k] \in S
  BY <1>1, ElementOfSeq
<1>3. /\ SubSeq(s, m + 1, n) \in Seq(S)
      /\ Len(SubSeq(s, m + 1, n)) = IF m + 1 <= n THEN n - (m + 1) + 1 ELSE 0
      /\ \A k \in 1..(n - (m + 1) + 1) : SubSeq(s, m + 1, n)[k] = s[m + 1 + k - 1]
  BY <1>1, <1>2, SubSeqProperties
<1>4. \A k \in 1..(n - m) : m + 1 + k - 1 = m + k
  BY <1>1
<1>5. QED
  BY <1>1, <1>3, <1>4

(* A pass reads on from a place in the file.                               *)
LEMMA OffsetBounds ==
  ASSUME TypeOK, NEW i \in Ingesters
  PROVE  /\ Offset(pass[i].base, pass[i].policy) \in 0..Len(file.log)
         /\ Len(file.log) \in Nat
<1>1. file.log \in Seq(Records) /\ pass[i].base.prefix \in Seq(Records)
  BY DEF TypeOK, Cursors
<1>2. QED
  BY <1>1, LenProperties DEF Offset, IsPrefix

(* A prepared binding names a record and a project.                        *)
LEMMA BindingsType ==
  ASSUME TypeOK, NEW i \in Ingesters, NEW b \in Prepared(i),
         Len(pass[i].batch) <= Len(pass[i].found)
  PROVE  b.record \in Records /\ b.project \in Projects
<1>1. pass[i].batch \in Seq(Records) /\ pass[i].found \in Seq(Bound)
  BY DEF TypeOK, Bound
<1>2. PICK n \in 1..Len(pass[i].batch) :
        b = [record |-> pass[i].batch[n], project |-> pass[i].found[n]]
  BY DEF Prepared, Bindings
<1>3. n \in 1..Len(pass[i].found)
  BY <1>1, LenProperties
<1>4. pass[i].batch[n] \in Records /\ pass[i].found[n] \in Bound
  BY <1>1, <1>3, ElementOfSeq
<1>5. QED
  BY <1>2, <1>4 DEF Prepared, Bound

-----------------------------------------------------------------------------
(* What a pass knows about the records it holds.                           *)

(* The checkpoint it wants to write covers its batch and what was behind   *)
(* the checkpoint it read; at the commit every record has been looked up.  *)
Covered(i) ==
  /\ pass[i].pc \in {"generation", "prepare", "commit"} =>
       /\ Distinct(pass[i].batch)
       /\ ToSet(pass[i].next.prefix) \in
            {ToSet(pass[i].base.prefix) \cup ToSet(pass[i].batch), ToSet(pass[i].batch)}
  /\ pass[i].pc = "commit" => Len(pass[i].batch) <= Len(pass[i].found)

(* As long as the registry did not change, what it looked up still holds.  *)
LookedUp(i) ==
  /\ pass[i].pc \in {"idle", "source", "generation"} => pass[i].found = <<>>
  /\ pass[i].pc \in {"prepare", "commit"} =>
       /\ pass[i].gen <= generation
       /\ pass[i].gen = generation =>
            \A n \in 1..Len(pass[i].found) :
              /\ n <= Len(pass[i].batch)
              /\ pass[i].found[n] # NONE =>
                   pass[i].found[n] = Deepest(registry, pass[i].batch[n])
              /\ moves = 0 => pass[i].found[n] = Find(pass[i].batch[n])

(* A cursor names a place in the file as it is now.                        *)
Follows(cp) ==
  /\ IsPrefix(cp.prefix, file.log)
  /\ cp.prefix # <<>> => cp.inode = file.inode /\ cp.policy = policy

(* As long as nothing was rewritten or upgraded, every cursor does, and a  *)
(* pass moves its own forward.                                             *)
Forward(i) ==
  /\ Follows(pass[i].base) /\ Follows(pass[i].next)
  /\ pass[i].retry \/ pass[i].pc # "idle" => pass[i].policy = policy
  /\ pass[i].pc \in {"generation", "prepare", "commit"} =>
       IsPrefix(pass[i].base.prefix, pass[i].next.prefix)

(* What a recovery holds.                                                  *)
Recovering ==
  recovery # NoRecovery =>
    /\ recovery.record \in Records /\ recovery.project \in Projects
    /\ \A d \in recovery.rows : d.record = recovery.record /\ d.state = "pending"
    /\ recovery.rows # {}

IInv ==
  /\ Handled
  /\ Distinct(file.log)
  /\ IsFiniteSet(deferred)
  /\ Recovering
  /\ \A i \in Ingesters : Covered(i) /\ LookedUp(i)
  /\ moves = 0 => Follows(checkpoint) /\ \A i \in Ingesters : Forward(i)

-----------------------------------------------------------------------------
(* The empty cursor and the idle pass have their types.                    *)
LEMMA NoCheckpointType == NoCheckpoint \in Cursors /\ Idle \in Locals
<1>1. <<>> \in Seq(Records)
  BY EmptySeq
<1>2. <<>> \in Seq(Bound)
  BY EmptySeq
<1>3. QED
  BY <1>1, <1>2 DEF NoCheckpoint, Idle, Cursors, Locals

(* Every step writes the tables, or changes only a pass, a recovery or what *)
(* is around the service.                                                  *)
LEMMA Steps ==
  ASSUME [Next]_vars
  PROVE  \/ \E i \in Ingesters : Commit(i)
         \/ RecoverCommit
         \/ UNCHANGED tables
BY DEF Next, Step, vars, ReadCheckpoint, ReadSource, ReadGeneration, Prepare,
  Conflict, Reject, Interrupt, AppendRecord, RecoverReplay, RecoverAbandon,
  Rewrite, Upgrade, MoveDirectory, ChangeRegistry

(* A pass whose step writes nothing.                                       *)
Reads(i) ==
  \/ ReadCheckpoint(i) \/ ReadSource(i) \/ ReadGeneration(i) \/ Prepare(i)
  \/ Conflict(i) \/ Reject(i) \/ Interrupt(i)

Outside ==
  \/ \E r \in Records : AppendRecord(r)
  \/ \E n \in 0..Len(file.log), inode \in 1..(MaxMoves + 1) : Rewrite(n, inode)
  \/ Upgrade
  \/ \E p \in Projects : MoveDirectory(p) \/ ChangeRegistry(p)

(* The steps by who takes them.                                            *)
LEMMA NextCases ==
  ASSUME [Next]_vars
  PROVE  \/ \E i \in Ingesters : Reads(i) \/ Commit(i)
         \/ Outside
         \/ \E r \in Records, p \in Projects : RecoverReplay(r, p)
         \/ RecoverCommit \/ RecoverAbandon
         \/ UNCHANGED vars
BY DEF Next, Step, Reads, Outside

(* The steps of a pass that writes nothing keep the types.                 *)
LEMMA ReadsType ==
  ASSUME TypeOK, NEW i \in Ingesters, Reads(i)
  PROVE  TypeOK'
<1>1. /\ pass \in [Ingesters -> Locals]
      /\ pass[i] \in Locals
  BY DEF TypeOK, Locals, Bound
<1>2. ASSUME NEW L \in Locals, pass' = [pass EXCEPT ![i] = L],
             UNCHANGED <<world, tables, recovery>>, failures' \in Nat
      PROVE  TypeOK'
  <2>1. pass' \in [Ingesters -> Locals]
    BY <1>1, <1>2
  <2>2. QED
    BY <1>2, <2>1 DEF TypeOK, Locals, Bound, world, tables
<1>3. failures \in Nat /\ generation \in Nat /\ policy \in Nat /\ checkpoint \in Cursors
  BY DEF TypeOK
<1>4. CASE ReadCheckpoint(i)
  <2> DEFINE L == [pass[i] EXCEPT !.pc = "source", !.base = checkpoint,
                     !.policy = IF pass[i].retry THEN @ ELSE policy]
  <2>1. L \in Locals
    BY <1>1, <1>3 DEF Locals
  <2>2. pass' = [pass EXCEPT ![i] = L] /\ UNCHANGED <<world, tables, recovery, failures>>
    BY <1>4 DEF ReadCheckpoint
  <2>3. QED
    BY <1>2, <1>3, <2>1, <2>2
<1>5. CASE ReadSource(i)
  <2> DEFINE from == Offset(pass[i].base, pass[i].policy)
             upto == IF from + BatchSize < Len(file.log)
                     THEN from + BatchSize ELSE Len(file.log)
             L == [pass[i] EXCEPT !.pc = "generation",
                     !.batch = SubSeq(file.log, from + 1, upto),
                     !.next = [inode |-> file.inode, policy |-> pass[i].policy,
                               prefix |-> SubSeq(file.log, 1, upto)]]
  <2>1. from \in Nat /\ upto \in 0..Len(file.log) /\ from <= upto
    BY OffsetBounds, BoundsAssumption
  <2>2. file.log \in Seq(Records) /\ file.inode \in Nat
    BY DEF TypeOK
  <2>3. SubSeq(file.log, from + 1, upto) \in Seq(Records)
    <3> HIDE DEF from, upto
    <3> QED BY <2>1, <2>2, Part
  <2>4. SubSeq(file.log, 1, upto) \in Seq(Records)
    <3> HIDE DEF from, upto
    <3> QED BY <2>1, <2>2, Start
  <2>5. L \in Locals
    <3> HIDE DEF from, upto
    <3> QED BY <1>1, <2>2, <2>3, <2>4 DEF Locals, Cursors
  <2>6. pass' = [pass EXCEPT ![i] = L] /\ UNCHANGED <<world, tables, recovery, failures>>
    BY <1>5 DEF ReadSource
  <2>7. QED
    <3> HIDE DEF L
    <3> QED BY <1>2, <1>3, <2>5, <2>6
<1>6. CASE ReadGeneration(i)
  <2> DEFINE L == [pass[i] EXCEPT !.pc = "prepare", !.gen = generation]
  <2>1. L \in Locals
    BY <1>1, <1>3 DEF Locals
  <2>2. pass' = [pass EXCEPT ![i] = L] /\ UNCHANGED <<world, tables, recovery, failures>>
    BY <1>6 DEF ReadGeneration
  <2>3. QED
    BY <1>2, <1>3, <2>1, <2>2
<1>7. CASE Prepare(i)
  <2> DEFINE n == Len(pass[i].found) + 1
             K == [pass[i] EXCEPT !.found = Append(@, Find(pass[i].batch[n]))]
             L == [pass[i] EXCEPT !.pc = "commit"]
  <2>1. pass[i].batch \in Seq(Records) /\ pass[i].found \in Seq(Bound)
    BY <1>1 DEF Locals
  <2>2. n \in Nat \ {0}
    BY <2>1, LenProperties
  <2>3. CASE n <= Len(pass[i].batch)
    <3>1. Find(pass[i].batch[n]) \in Bound
      BY <2>1, <2>2, <2>3, LenProperties, ElementOfSeq, FindType
    <3>2. Append(pass[i].found, Find(pass[i].batch[n])) \in Seq(Bound)
      BY <2>1, <3>1, AppendProperties
    <3>3. K \in Locals
      <4> HIDE DEF n
      <4> QED BY <1>1, <3>2 DEF Locals
    <3>4. pass' = [pass EXCEPT ![i] = K] /\ UNCHANGED <<world, tables, recovery, failures>>
      BY <1>7, <2>3 DEF Prepare
    <3>5. QED
      <4> HIDE DEF K
      <4> QED BY <1>2, <1>3, <3>3, <3>4
  <2>4. CASE ~(n <= Len(pass[i].batch))
    <3>1. L \in Locals
      BY <1>1 DEF Locals
    <3>2. pass' = [pass EXCEPT ![i] = L] /\ UNCHANGED <<world, tables, recovery, failures>>
      BY <1>7, <2>4 DEF Prepare
    <3>3. QED
      <4> HIDE DEF L
      <4> QED BY <1>2, <1>3, <3>1, <3>2
  <2>5. QED
    BY <2>3, <2>4
<1>8. Again(i) \in Locals
  BY <1>1, NoCheckpointType DEF Again, Locals, Idle
<1>9. CASE Conflict(i)
  BY <1>2, <1>3, <1>8, <1>9 DEF Conflict
<1>10. CASE Reject(i)
  BY <1>2, <1>3, <1>10, NoCheckpointType DEF Reject
<1>11. CASE Interrupt(i)
  <2>1. failures' \in Nat /\ UNCHANGED <<world, tables, recovery>>
    BY <1>3, <1>11 DEF Interrupt
  <2>2. PICK L \in {Idle, Again(i)} : pass' = [pass EXCEPT ![i] = L]
    BY <1>11 DEF Interrupt
  <2>3. QED
    BY <1>2, <1>8, <2>1, <2>2, NoCheckpointType
<1>12. QED
  BY <1>4, <1>5, <1>6, <1>7, <1>9, <1>10, <1>11 DEF Reads

(* What happens around the service keeps the types.                        *)
LEMMA OutsideType == ASSUME TypeOK, Outside PROVE TypeOK'
<1>1. CASE \E r \in Records : AppendRecord(r)
  <2>1. PICK r \in Records : AppendRecord(r)
    BY <1>1
  <2>2. file'.inode = file.inode /\ file'.log = Append(file.log, r)
        /\ file' \in [inode : Nat, log : Seq(Records)]
    BY <2>1, AppendProperties DEF AppendRecord, TypeOK
  <2>3. QED
    BY <2>1, <2>2 DEF AppendRecord, TypeOK, tables
<1>2. ASSUME NEW n \in 0..Len(file.log), NEW inode \in 1..(MaxMoves + 1), Rewrite(n, inode)
      PROVE  TypeOK'
  <2>1. SubSeq(file.log, 1, n) \in Seq(Records)
    BY Start DEF TypeOK
  <2>2. inode \in Nat /\ moves' \in Nat
    BY <1>2 DEF Rewrite, Moved, TypeOK
  <2>3. QED
    BY <1>2, <2>1, <2>2 DEF Rewrite, TypeOK, tables
<1>3. CASE Upgrade
  BY <1>3 DEF Upgrade, Moved, TypeOK, tables
<1>4. CASE \E p \in Projects : MoveDirectory(p)
  BY <1>4 DEF MoveDirectory, Moved, TypeOK, tables
<1>5. CASE \E p \in Projects : ChangeRegistry(p)
  BY <1>5 DEF ChangeRegistry, TypeOK, tables
<1>6. QED
  BY <1>1, <1>2, <1>3, <1>4, <1>5 DEF Outside

(* The locators a commit adds are locators.                                *)
LEMMA LocatorType ==
  ASSUME TypeOK, NEW i \in Ingesters
  PROVE  NewLocators(i) \subseteq Locators
<1>1. pass[i].batch \in Seq(Records) /\ pass[i].next \in Cursors
  BY DEF TypeOK
<1>2. ASSUME NEW n \in 1..Len(pass[i].batch)
      PROVE  Locator(pass[i].batch[n], pass[i].next) \in Locators
  BY <1>1, <1>2, ElementOfSeq DEF Locator, Locators, Cursors
<1>3. QED
  BY <1>2 DEF NewLocators, Bindings

(* A commit keeps the types.                                               *)
LEMMA CommitType ==
  ASSUME TypeOK, NEW i \in Ingesters, Covered(i), Commit(i)
  PROVE  TypeOK'
<1>1. Len(pass[i].batch) <= Len(pass[i].found)
  BY DEF Covered, Commit
<1>2. ASSUME NEW r \in PreparedRecords(i)
      PROVE  (CHOOSE b \in Prepared(i) : b.record = r).project \in Projects
  BY <1>1, <1>2, BindingsType DEF PreparedRecords
<1>3. stored' \in [Records -> Projects \cup {NONE}]
  BY <1>2 DEF Commit, TypeOK
<1>4. receipts' \subseteq Records
  BY <1>1, BindingsType DEF Commit, Receipted, PreparedRecords, TypeOK
<1>5. deferred' \subseteq Locators
  BY LocatorType DEF Commit, DeferredAfter, TypeOK
<1>6. checkpoint' \in Cursors
  BY DEF Commit, TypeOK
<1>7. pass' \in [Ingesters -> Locals]
  BY NoCheckpointType DEF Commit, TypeOK, Locals, Bound
<1>8. UNCHANGED <<world, recovery, failures>>
  BY DEF Commit
<1>9. QED
  BY <1>3, <1>4, <1>5, <1>6, <1>7, <1>8 DEF TypeOK, world, Locals, Bound

(* A recovery keeps the types.                                             *)
LEMMA RecoverType ==
  ASSUME TypeOK, Recovering,
         \/ \E r \in Records, p \in Projects : RecoverReplay(r, p)
         \/ RecoverCommit \/ RecoverAbandon
  PROVE  TypeOK'
<1>1. NoRecovery \in [record : Records \cup {NONE}, project : Projects \cup {NONE},
                      rows : SUBSET Locators]
  BY DEF NoRecovery
<1>2. ASSUME NEW r \in Records, NEW p \in Projects, RecoverReplay(r, p)
      PROVE  TypeOK'
  BY <1>2 DEF RecoverReplay, PendingRows, RowsOf, TypeOK, world, tables
<1>3. CASE RecoverCommit
  <2>1. recovery.record \in Records /\ recovery.project \in Projects
    BY <1>3 DEF RecoverCommit, Recovering
  <2>2. stored' \in [Records -> Projects \cup {NONE}]
    BY <1>3, <2>1 DEF RecoverCommit, TypeOK
  <2>3. ASSUME NEW d \in Locators PROVE [d EXCEPT !.state = "recovered"] \in Locators
    BY <2>3 DEF Locators
  <2>4. deferred' \subseteq Locators
    BY <1>3, <2>3 DEF RecoverCommit, TypeOK
  <2>5. QED
    BY <1>1, <1>3, <2>1, <2>2, <2>4 DEF RecoverCommit, TypeOK, world
<1>4. CASE RecoverAbandon
  BY <1>1, <1>4 DEF RecoverAbandon, TypeOK, world, tables
<1>5. QED
  BY <1>2, <1>3, <1>4

(* Every step keeps the types.                                             *)
LEMMA TypeStep == ASSUME IInv, [Next]_vars PROVE TypeOK'
<1>1. TypeOK /\ Recovering /\ \A i \in Ingesters : Covered(i)
  BY DEF IInv, Handled
<1>2. CASE UNCHANGED vars
  BY <1>1, <1>2 DEF vars, world, tables, TypeOK
<1>3. QED
  BY <1>1, <1>2, NextCases, ReadsType, OutsideType, CommitType, RecoverType

-----------------------------------------------------------------------------
(* The tables.                                                             *)

(* What a transaction stores was looked up for its record.                 *)
LEMMA StoredByCommit ==
  ASSUME TypeOK, NEW i \in Ingesters, Covered(i), Commit(i), NEW r \in PreparedRecords(i)
  PROVE  \E b \in Prepared(i) : b.record = r /\ stored'[r] = b.project
<1>1. Len(pass[i].batch) <= Len(pass[i].found)
  BY DEF Covered, Commit
<1>2. r \in Records
  BY <1>1, BindingsType DEF PreparedRecords
<1>3. \E b \in Prepared(i) : b.record = r
  BY DEF PreparedRecords
<1>4. stored'[r] = (CHOOSE b \in Prepared(i) : b.record = r).project
  BY <1>2 DEF Commit
<1>5. QED
  BY <1>3, <1>4

(* After the transaction no record of the batch is without a place.        *)
LEMMA BatchPlaced ==
  ASSUME TypeOK, NEW i \in Ingesters, Covered(i), Commit(i),
         NEW r \in ToSet(pass[i].batch)
  PROVE  stored'[r] # NONE \/ \E d \in deferred' : d.record = r
<1>1. pass[i].batch \in Seq(Records)
  BY DEF TypeOK
<1>2. PICK n \in 1..Len(pass[i].batch) : pass[i].batch[n] = r
  BY <1>1, LenProperties DEF ToSet
<1> DEFINE b == [record |-> pass[i].batch[n], project |-> pass[i].found[n]]
<1>3. b \in Bindings(i) /\ b.record = r
  BY <1>2 DEF Bindings
<1>4. CASE b \in Prepared(i)
  <2>1. r \in PreparedRecords(i)
    BY <1>3, <1>4 DEF PreparedRecords
  <2>2. QED
    BY <2>1, StoredByCommit DEF Prepared
<1>5. CASE b \notin Prepared(i)
  <2>1. Locator(r, pass[i].next).record = r
    BY DEF Locator
  <2>2. \/ Locator(r, pass[i].next) \in NewLocators(i)
        \/ \E e \in deferred : SameLocator(Locator(r, pass[i].next), e)
    BY <1>3, <1>5 DEF NewLocators
  <2>3. QED
    BY <2>1, <2>2 DEF Commit, DeferredAfter, SameLocator
<1>6. QED
  BY <1>4, <1>5

(* What was stored or put aside stays so.                                  *)
LEMMA Kept ==
  ASSUME IInv, [Next]_vars
  PROVE  /\ \A r \in Records : stored[r] # NONE => stored'[r] = stored[r]
         /\ receipts \subseteq receipts'
         /\ \A d \in deferred : \E e \in deferred' :
              SameLocator(d, e) /\ (d.state = "recovered" => e = d)
<1>1. TypeOK /\ Recovering /\ \A i \in Ingesters : Covered(i)
  BY DEF IInv, Handled
<1>2. \A d \in deferred : SameLocator(d, d)
  BY DEF SameLocator
<1>3. ASSUME NEW i \in Ingesters, Commit(i)
      PROVE  /\ \A r \in Records : stored[r] # NONE => stored'[r] = stored[r]
             /\ receipts \subseteq receipts' /\ deferred \subseteq deferred'
  <2>1. ASSUME NEW r \in Records, stored[r] # NONE
        PROVE  stored'[r] = stored[r]
    <3>1. CASE r \in PreparedRecords(i)
      BY <1>1, <1>3, <2>1, <3>1, StoredByCommit, ZenonT(60) DEF Commit, Accepted, Compatible
    <3>2. CASE r \notin PreparedRecords(i)
      BY <1>3, <3>2 DEF Commit
    <3>3. QED
      BY <3>1, <3>2
  <2>2. QED
    BY <1>3, <2>1 DEF Commit, Receipted, DeferredAfter
<1>4. CASE RecoverCommit
  <2>1. \A r \in Records : stored[r] # NONE => stored'[r] = stored[r]
    BY <1>1, <1>4 DEF RecoverCommit, TypeOK, Recovering
  <2>2. ASSUME NEW d \in deferred
        PROVE  \E e \in deferred' : SameLocator(d, e) /\ (d.state = "recovered" => e = d)
    <3>1. CASE d \in recovery.rows
      <4>1. d \in Locators /\ d.state = "pending"
        BY <1>1, <1>4, <3>1 DEF TypeOK, Recovering, RecoverCommit
      <4>2. [d EXCEPT !.state = "recovered"] \in deferred'
        BY <1>4, <3>1 DEF RecoverCommit
      <4>3. SameLocator(d, [d EXCEPT !.state = "recovered"])
        BY <4>1 DEF SameLocator, Locators
      <4>4. QED
        BY <4>1, <4>2, <4>3
    <3>2. CASE d \notin recovery.rows
      BY <1>2, <1>4, <3>2 DEF RecoverCommit
    <3>3. QED
      BY <3>1, <3>2
  <2>3. QED
    BY <1>4, <2>1, <2>2 DEF RecoverCommit
<1>5. CASE UNCHANGED tables
  BY <1>2, <1>5 DEF tables
<1>6. QED
  BY <1>2, <1>3, <1>4, <1>5, Steps

(* Every step keeps what is behind the checkpoint stored or deferred.      *)
LEMMA AckedStep == ASSUME IInv, [Next]_vars PROVE AckedHandled'
<1>1. TypeOK /\ AckedHandled /\ \A i \in Ingesters : Covered(i)
  BY DEF IInv, Handled
<1>2. ToSet(checkpoint.prefix) \subseteq Records
  BY <1>1, LenProperties, ElementOfSeq DEF TypeOK, Cursors, ToSet
<1>3. ASSUME NEW r \in ToSet(checkpoint.prefix)
      PROVE  stored'[r] # NONE \/ \E d \in deferred' : d.record = r
  BY <1>1, <1>2, <1>3, Kept DEF AckedHandled, SameLocator
<1>4. ASSUME NEW i \in Ingesters, Commit(i), NEW r \in ToSet(checkpoint'.prefix)
      PROVE  stored'[r] # NONE \/ \E d \in deferred' : d.record = r
  <2>1. r \in ToSet(checkpoint.prefix) \/ r \in ToSet(pass[i].batch)
    BY <1>1, <1>4 DEF Commit, Covered, Unmoved
  <2>2. QED
    BY <1>1, <1>3, <1>4, <2>1, BatchPlaced
<1>5. CASE \E i \in Ingesters : Commit(i)
  BY <1>4, <1>5 DEF AckedHandled
<1>6. CASE RecoverCommit \/ UNCHANGED tables
  BY <1>3, <1>6 DEF AckedHandled, RecoverCommit, tables
<1>7. QED
  BY <1>5, <1>6, Steps

(* Every step leaves each receipt its source_ref.                          *)
LEMMA ReceiptStep == ASSUME IInv, [Next]_vars PROVE ReceiptHasRef'
<1>1. TypeOK /\ ReceiptHasRef /\ Recovering /\ \A i \in Ingesters : Covered(i)
  BY DEF IInv, Handled
<1>2. \A r \in receipts : stored'[r] # NONE
  BY <1>1, Kept DEF ReceiptHasRef, TypeOK
<1>3. ASSUME NEW i \in Ingesters, Commit(i)
      PROVE  ReceiptHasRef'
  <2>1. \A r \in PreparedRecords(i) : stored'[r] # NONE
    BY <1>1, <1>3, StoredByCommit DEF Prepared
  <2>2. receipts' = receipts \cup PreparedRecords(i)
    BY <1>3 DEF Commit, Receipted
  <2>3. QED
    BY <1>2, <2>1, <2>2 DEF ReceiptHasRef
<1>4. CASE RecoverCommit
  <2>1. stored'[recovery.record] # NONE
    BY <1>1, <1>4, PathsAssumption DEF RecoverCommit, Recovering, TypeOK
  <2>2. QED
    BY <1>2, <1>4, <2>1 DEF ReceiptHasRef, RecoverCommit
<1>5. CASE UNCHANGED tables
  BY <1>1, <1>5 DEF ReceiptHasRef, tables
<1>6. QED
  BY <1>3, <1>4, <1>5, Steps

(* A set listed by a sequence of indices is finite.                        *)
LEMMA ListedIsFinite ==
  ASSUME NEW n \in Nat, NEW f, DOMAIN f = 1..n, f \in [1..n -> {f[k] : k \in 1..n}]
  PROVE  IsFiniteSet({f[k] : k \in 1..n})
<1>1. f \in Surjection(1..n, {f[k] : k \in 1..n})
  BY DEF Surjection
<1>2. IsFiniteSet(1..n)
  <2>1. 1 \in Int /\ n \in Int
    OBVIOUS
  <2>2. QED
    BY <2>1, FS_Interval
<1>3. QED
  BY <1>1, <1>2, FS_Surjection

(* Every step leaves finitely many locators.                               *)
LEMMA FiniteStep == ASSUME IInv, [Next]_vars PROVE IsFiniteSet(deferred')
<1>1. TypeOK /\ IsFiniteSet(deferred)
  BY DEF IInv, Handled
<1>2. ASSUME NEW i \in Ingesters, Commit(i)
      PROVE  IsFiniteSet(deferred')
  <2> DEFINE n == Len(pass[i].batch)
             f == [k \in 1..n |-> Locator(pass[i].batch[k], pass[i].next)]
  <2>1. n \in Nat
    BY <1>1, LenProperties DEF TypeOK
  <2>2. IsFiniteSet({f[k] : k \in 1..n})
    <3>1. DOMAIN f = 1..n /\ f \in [1..n -> {f[k] : k \in 1..n}]
      OBVIOUS
    <3>2. QED
      <4> HIDE DEF f, n
      <4> QED BY <2>1, <3>1, ListedIsFinite
  <2>3. NewLocators(i) \subseteq {f[k] : k \in 1..n}
    BY DEF NewLocators, Bindings
  <2>4. IsFiniteSet(NewLocators(i))
    <3> HIDE DEF f, n
    <3> QED BY <2>2, <2>3, FS_Subset
  <2>5. QED
    BY <1>1, <1>2, <2>4, FS_Union DEF Commit, DeferredAfter
<1>3. CASE RecoverCommit
  <2> DEFINE f == [d \in recovery.rows |-> [d EXCEPT !.state = "recovered"]]
             T == {f[d] : d \in recovery.rows}
  <2>1. IsFiniteSet(recovery.rows)
    BY <1>1, <1>3, FS_Subset DEF RecoverCommit
  <2>2. f \in Surjection(recovery.rows, T)
    BY DEF Surjection
  <2>3. IsFiniteSet(T)
    <3> HIDE DEF f
    <3> QED BY <2>1, <2>2, FS_Surjection
  <2>4. IsFiniteSet(deferred \ recovery.rows)
    BY <1>1, FS_Subset
  <2>5. deferred' = (deferred \ recovery.rows) \cup T
    BY <1>3 DEF RecoverCommit
  <2>6. QED
    <3> HIDE DEF T
    <3> QED BY <2>3, <2>4, <2>5, FS_Union
<1>4. CASE UNCHANGED tables
  BY <1>1, <1>4 DEF tables
<1>5. QED
  BY <1>2, <1>3, <1>4, Steps

(* Every step keeps the locators unique and within the limit.              *)
LEMMA LocatorsStep == ASSUME IInv, [Next]_vars PROVE LocatorsBounded'
<1>1. TypeOK /\ LocatorsBounded /\ IsFiniteSet(deferred) /\ Recovering
  BY DEF IInv, Handled
<1>2. ASSUME NEW i \in Ingesters, Commit(i)
      PROVE  LocatorsBounded'
  <2>1. deferred' = deferred \cup NewLocators(i)
    BY <1>2 DEF Commit, DeferredAfter
  <2>2. Cardinality(PendingRows(deferred')) <= MaxDeferred
    BY <1>2, <2>1 DEF Commit, Accepted, HasCapacity, DeferredAfter
  <2>3. ASSUME NEW d \in NewLocators(i), NEW e \in NewLocators(i), SameLocator(d, e)
        PROVE  d = e
    <3>1. /\ d = Locator(d.record, pass[i].next)
          /\ e = Locator(e.record, pass[i].next)
      BY DEF NewLocators, Locator
    <3>2. QED
      BY <2>3, <3>1 DEF SameLocator
  <2>4. ASSUME NEW d \in NewLocators(i), NEW e \in deferred
        PROVE  ~SameLocator(d, e) /\ ~SameLocator(e, d)
    BY DEF NewLocators, SameLocator
  <2>5. QED
    BY <1>1, <2>1, <2>2, <2>3, <2>4 DEF LocatorsBounded
<1>3. CASE RecoverCommit
  <2> DEFINE Done(d) == [d EXCEPT !.state = "recovered"]
  <2>1. deferred' = (deferred \ recovery.rows) \cup {Done(d) : d \in recovery.rows}
    BY <1>3 DEF RecoverCommit
  <2>2. \A d \in recovery.rows : d \in deferred /\ d \in Locators
    BY <1>1, <1>3 DEF RecoverCommit, TypeOK
  <2>3. \A d \in Locators : /\ Done(d).state = "recovered"
                            /\ SameLocator(d, Done(d))
    BY DEF Locators, SameLocator
  <2>4. PendingRows(deferred') \subseteq PendingRows(deferred)
    BY <2>1, <2>2, <2>3 DEF PendingRows
  <2>5. IsFiniteSet(PendingRows(deferred))
    BY <1>1, FS_Subset DEF PendingRows
  <2>6. Cardinality(PendingRows(deferred')) <= MaxDeferred
    <3>1. /\ Cardinality(PendingRows(deferred')) <= Cardinality(PendingRows(deferred))
          /\ Cardinality(PendingRows(deferred)) \in Nat
          /\ IsFiniteSet(PendingRows(deferred'))
      BY <2>4, <2>5, FS_Subset, FS_CardinalityType
    <3>2. Cardinality(PendingRows(deferred')) \in Nat
      BY <3>1, FS_CardinalityType
    <3>3. QED
      BY <1>1, <3>1, <3>2, BoundsAssumption DEF LocatorsBounded
  <2>7. \A d, e \in deferred : SameLocator(d, e) => d = e
    BY <1>1 DEF LocatorsBounded
  <2>8. ASSUME NEW d \in deferred', NEW e \in deferred', SameLocator(d, e)
        PROVE  d = e
    <3>1. \A x \in deferred' : \E y \in deferred :
            /\ SameLocator(x, y)
            /\ x = IF y \in recovery.rows THEN Done(y) ELSE y
      BY <2>1, <2>2, <2>3 DEF SameLocator
    <3>2. PICK y \in deferred, z \in deferred :
            /\ SameLocator(d, y) /\ d = IF y \in recovery.rows THEN Done(y) ELSE y
            /\ SameLocator(e, z) /\ e = IF z \in recovery.rows THEN Done(z) ELSE z
      BY <3>1
    <3>3. SameLocator(y, z)
      BY <2>8, <3>2 DEF SameLocator
    <3>4. QED
      BY <2>7, <3>2, <3>3
  <2>9. QED
    BY <2>6, <2>8 DEF LocatorsBounded
<1>4. CASE UNCHANGED tables
  BY <1>1, <1>4 DEF LocatorsBounded, tables
<1>5. QED
  BY <1>2, <1>3, <1>4, Steps

-----------------------------------------------------------------------------
(* The passes.                                                             *)

(* Another pass keeps its locals.                                          *)
LEMMA PassFrame ==
  ASSUME TypeOK, NEW i \in Ingesters, Reads(i) \/ Commit(i)
  PROVE  /\ UNCHANGED <<world, recovery>>
         /\ \A j \in Ingesters \ {i} : pass'[j] = pass[j]
BY DEF TypeOK, Reads, Commit, ReadCheckpoint, ReadSource, ReadGeneration,
  Prepare, Conflict, Reject, Interrupt

(* What is not a step of a pass leaves the passes alone.                   *)
LEMMA OtherFrame ==
  ASSUME Outside \/ RecoverCommit \/ RecoverAbandon \/ UNCHANGED vars
         \/ \E r \in Records, p \in Projects : RecoverReplay(r, p)
  PROVE  pass' = pass
BY DEF Outside, RecoverReplay, RecoverCommit, RecoverAbandon, vars,
  AppendRecord, Rewrite, Upgrade, MoveDirectory, ChangeRegistry

(* A pass that ends is idle, and empty.                                    *)
LEMMA Ends ==
  ASSUME TypeOK, NEW i \in Ingesters,
         Commit(i) \/ Conflict(i) \/ Reject(i) \/ Interrupt(i)
  PROVE  pass'[i].pc = "idle" /\ pass'[i].found = <<>>
<1>1. /\ Idle.pc = "idle" /\ Idle.found = <<>>
      /\ Again(i).pc = "idle" /\ Again(i).found = <<>>
  BY DEF Idle, Again
<1>2. pass' \in {[pass EXCEPT ![i] = Idle], [pass EXCEPT ![i] = Again(i)]}
  BY DEF Commit, Conflict, Reject, Interrupt
<1>3. QED
  BY <1>1, <1>2 DEF TypeOK

(* A prefix and what was read after it.                                    *)
LEMMA ReadOn ==
  ASSUME NEW S, NEW s \in Seq(S), NEW b \in Seq(S), IsPrefix(b, s),
         NEW n \in Nat, Len(b) <= n, n <= Len(s)
  PROVE  /\ ToSet(SubSeq(s, 1, n)) = ToSet(b) \cup ToSet(SubSeq(s, Len(b) + 1, n))
         /\ IsPrefix(b, SubSeq(s, 1, n))
<1> DEFINE t == SubSeq(s, 1, n)
           u == SubSeq(s, Len(b) + 1, n)
<1>1. Len(b) \in Nat /\ Len(s) \in Nat
  BY LenProperties
<1>2. /\ t \in Seq(S) /\ Len(t) = n
      /\ \A k \in 1..n : t[k] = s[k]
  BY <1>1, Start
<1>3. /\ u \in Seq(S) /\ Len(u) = n - Len(b)
      /\ \A k \in 1..(n - Len(b)) : u[k] = s[Len(b) + k]
  BY <1>1, Part
<1>4. \A k \in 1..Len(b) : b[k] = s[k]
  BY PrefixAgrees
<1> HIDE DEF t, u
<1>5. IsPrefix(b, t)
  BY <1>1, <1>2, <1>4, PrefixAgrees
<1>6. /\ ToSet(t) = {t[k] : k \in 1..n}
      /\ ToSet(b) = {b[k] : k \in 1..Len(b)}
      /\ ToSet(u) = {u[k] : k \in 1..(n - Len(b))}
  BY <1>2, <1>3, LenProperties DEF ToSet
<1>7. ToSet(t) \subseteq ToSet(b) \cup ToSet(u)
  <2>1. ASSUME NEW k \in 1..n PROVE t[k] \in ToSet(b) \cup ToSet(u)
    <3>1. CASE k <= Len(b)
      BY <1>1, <1>2, <1>4, <1>6, <3>1
    <3>2. CASE ~(k <= Len(b))
      <4>1. k - Len(b) \in 1..(n - Len(b)) /\ Len(b) + (k - Len(b)) = k
        BY <1>1, <3>2
      <4>2. u[k - Len(b)] = t[k]
        BY <1>2, <1>3, <4>1
      <4>3. QED
        BY <1>6, <4>1, <4>2
    <3>3. QED
      BY <3>1, <3>2
  <2>2. QED
    BY <1>6, <2>1
<1>8. ToSet(b) \subseteq ToSet(t)
  BY <1>1, <1>2, <1>4, <1>6
<1>9. ToSet(u) \subseteq ToSet(t)
  <2>1. ASSUME NEW k \in 1..(n - Len(b)) PROVE u[k] \in ToSet(t)
    <3>1. Len(b) + k \in 1..n
      BY <1>1
    <3>2. QED
      BY <1>2, <1>3, <1>6, <3>1
  <2>2. QED
    BY <1>6, <2>1
<1>10. QED
  BY <1>5, <1>7, <1>8, <1>9 DEF t, u

(* A part of a file without repetition has none.                           *)
LEMMA PartIsDistinct ==
  ASSUME NEW S, NEW s \in Seq(S), Distinct(s), NEW m \in Nat, NEW n \in 0..Len(s), m <= n
  PROVE  Distinct(SubSeq(s, m + 1, n))
<1> DEFINE u == SubSeq(s, m + 1, n)
<1>1. Len(s) \in Nat
  BY LenProperties
<1>2. Len(u) = n - m /\ \A k \in 1..(n - m) : u[k] = s[m + k]
  BY Part
<1> HIDE DEF u
<1>3. ASSUME NEW j \in 1..Len(u), NEW k \in 1..Len(u), u[j] = u[k]
      PROVE  j = k
  <2>1. m + j \in 1..Len(s) /\ m + k \in 1..Len(s)
    BY <1>1, <1>2
  <2>2. s[m + j] = s[m + k]
    BY <1>2, <1>3
  <2>3. m + j = m + k
    BY <2>1, <2>2 DEF Distinct
  <2>4. QED
    BY <1>1, <1>2, <2>3
<1>4. QED
  BY <1>3 DEF Distinct, u

(* What ReadSource takes from the file.                                    *)
LEMMA SourceRead ==
  ASSUME TypeOK, NEW i \in Ingesters, ReadSource(i)
  PROVE  \E upto \in 0..Len(file.log) :
           /\ Offset(pass[i].base, pass[i].policy) <= upto
           /\ pass'[i].batch = SubSeq(file.log, Offset(pass[i].base, pass[i].policy) + 1, upto)
           /\ pass'[i].next = [inode |-> file.inode, policy |-> pass[i].policy,
                               prefix |-> SubSeq(file.log, 1, upto)]
           /\ pass'[i].base = pass[i].base
           /\ pass'[i].policy = pass[i].policy
           /\ pass'[i].retry = pass[i].retry
           /\ pass'[i].found = pass[i].found
           /\ pass'[i].pc = "generation"
<1> DEFINE from == Offset(pass[i].base, pass[i].policy)
           upto == IF from + BatchSize < Len(file.log)
                   THEN from + BatchSize ELSE Len(file.log)
<1>1. from \in Nat /\ upto \in 0..Len(file.log) /\ from <= upto
  BY OffsetBounds, BoundsAssumption
<1>2. /\ pass'[i].batch = SubSeq(file.log, from + 1, upto)
      /\ pass'[i].next = [inode |-> file.inode, policy |-> pass[i].policy,
                          prefix |-> SubSeq(file.log, 1, upto)]
      /\ pass'[i].base = pass[i].base
      /\ pass'[i].policy = pass[i].policy
      /\ pass'[i].retry = pass[i].retry
      /\ pass'[i].found = pass[i].found
      /\ pass'[i].pc = "generation"
  BY ZenonT(60) DEF ReadSource, TypeOK
<1>3. QED
  <2> HIDE DEF from, upto
  <2>1. QED BY <1>1, <1>2 DEF from

(* Every step keeps what a pass knows about its batch.                     *)
LEMMA CoveredStep ==
  ASSUME IInv, [Next]_vars, NEW j \in Ingesters
  PROVE  Covered(j)'
<1>1. TypeOK /\ Distinct(file.log) /\ Covered(j)
  BY DEF IInv, Handled
<1>2. CASE pass'[j] = pass[j]
  BY <1>1, <1>2 DEF Covered, Distinct
<1>3. CASE ReadCheckpoint(j)
  BY <1>1, <1>3 DEF ReadCheckpoint, Covered, TypeOK
<1>4. CASE ReadSource(j)
  <2>1. PICK upto \in 0..Len(file.log) :
          /\ Offset(pass[j].base, pass[j].policy) <= upto
          /\ pass'[j].batch = SubSeq(file.log, Offset(pass[j].base, pass[j].policy) + 1, upto)
          /\ pass'[j].next = [inode |-> file.inode, policy |-> pass[j].policy,
                              prefix |-> SubSeq(file.log, 1, upto)]
          /\ pass'[j].base = pass[j].base
          /\ pass'[j].pc = "generation"
    BY <1>1, <1>4, SourceRead
  <2>2. file.log \in Seq(Records) /\ pass[j].base.prefix \in Seq(Records)
    BY <1>1 DEF TypeOK, Cursors
  <2>3. Offset(pass[j].base, pass[j].policy) \in Nat /\ Len(file.log) \in Nat
    BY <1>1, OffsetBounds
  <2>4. Distinct(pass'[j].batch)
    BY <1>1, <2>1, <2>2, <2>3, PartIsDistinct
  <2>5. CASE Offset(pass[j].base, pass[j].policy) = 0
    <3>1. pass'[j].batch = pass'[j].next.prefix
      BY <2>1, <2>5
    <3>2. QED
      BY <2>1, <2>4, <3>1 DEF Covered, Distinct
  <2>6. CASE Offset(pass[j].base, pass[j].policy) # 0
    <3>1. /\ Offset(pass[j].base, pass[j].policy) = Len(pass[j].base.prefix)
          /\ IsPrefix(pass[j].base.prefix, file.log)
      BY <2>6 DEF Offset
    <3>2. ToSet(SubSeq(file.log, 1, upto)) = ToSet(pass[j].base.prefix)
            \cup ToSet(SubSeq(file.log, Len(pass[j].base.prefix) + 1, upto))
      BY <2>1, <2>2, <2>3, <3>1, ReadOn, SMTT(60)
    <3>3. ToSet(pass'[j].next.prefix) =
            ToSet(pass'[j].base.prefix) \cup ToSet(pass'[j].batch)
      BY <2>1, <3>1, <3>2
    <3>4. QED
      BY <2>1, <2>4, <3>3 DEF Covered, Distinct
  <2>7. QED
    BY <2>5, <2>6
<1>5. CASE ReadGeneration(j)
  BY <1>1, <1>5 DEF ReadGeneration, Covered, Distinct, TypeOK
<1>6. CASE Prepare(j)
  <2>1. /\ pass'[j].batch = pass[j].batch
        /\ pass'[j].base = pass[j].base
        /\ pass'[j].next = pass[j].next
        /\ \/ pass'[j].pc = "prepare"
           \/ /\ pass'[j].pc = "commit"
              /\ pass'[j].found = pass[j].found
              /\ ~(Len(pass[j].found) + 1 <= Len(pass[j].batch))
    BY <1>1, <1>6, SMTT(60) DEF Prepare, TypeOK
  <2>2. Len(pass[j].found) \in Nat /\ Len(pass[j].batch) \in Nat
    BY <1>1, LenProperties DEF TypeOK
  <2>3. QED
    BY <1>1, <1>6, <2>1, <2>2 DEF Prepare, Covered, Distinct
<1>7. CASE Commit(j) \/ Conflict(j) \/ Reject(j) \/ Interrupt(j)
  BY <1>1, <1>7, Ends DEF Covered
<1>8. QED
  BY <1>1, <1>2, <1>3, <1>4, <1>5, <1>6, <1>7, NextCases, PassFrame, OtherFrame DEF Reads

(* Every step keeps what a pass knows about the projects it found.         *)
LEMMA LookedUpStep ==
  ASSUME IInv, [Next]_vars, NEW j \in Ingesters
  PROVE  LookedUp(j)'
<1>1. /\ TypeOK /\ LookedUp(j)
      /\ generation \in Nat /\ moves \in Nat
      /\ pass[j] \in Locals
  BY DEF IInv, Handled, TypeOK, Locals, Bound
<1>2. CASE pass'[j] = pass[j] /\ UNCHANGED world
  BY <1>1, <1>2 DEF LookedUp, Find, Current, world
<1>3. CASE pass' = pass /\ Outside
  <2>1. CASE \E p \in Projects : ChangeRegistry(p)
    <3>1. generation' = generation + 1 /\ pass' = pass
      BY <1>3, <2>1 DEF ChangeRegistry
    <3>2. pass[j].gen \in Nat
      BY <1>1 DEF Locals
    <3>3. QED
      BY <1>1, <3>1, <3>2 DEF LookedUp
  <2>2. CASE UNCHANGED <<registry, generation, present, moves>>
    BY <1>1, <1>3, <2>2 DEF LookedUp, Find, Current
  <2>3. CASE UNCHANGED <<registry, generation>> /\ moves' # 0
    BY <1>1, <1>3, <2>3, SMTT(60) DEF LookedUp
  <2>4. QED
    BY <1>1, <1>3, <2>1, <2>2, <2>3 DEF Outside, AppendRecord, Rewrite, Upgrade,
      MoveDirectory, Moved
<1>4. CASE ReadCheckpoint(j)
  BY <1>1, <1>4 DEF ReadCheckpoint, LookedUp, TypeOK
<1>5. CASE ReadSource(j)
  <2>1. pass'[j].pc = "generation" /\ pass'[j].found = pass[j].found
    BY <1>1, <1>5, SourceRead
  <2>2. QED
    BY <1>1, <1>5, <2>1 DEF LookedUp, ReadSource
<1>6. CASE ReadGeneration(j)
  <2>1. pass'[j].pc = "prepare" /\ pass'[j].gen = generation /\ pass'[j].found = <<>>
    BY <1>1, <1>6 DEF ReadGeneration, LookedUp, TypeOK
  <2>2. generation' = generation
    BY <1>6 DEF ReadGeneration, world
  <2>3. Len(pass'[j].found) = 0
    BY <2>1, EmptySeq
  <2>4. QED
    BY <1>1, <2>1, <2>2, <2>3 DEF LookedUp
<1>7. CASE Prepare(j)
  <2> DEFINE n == Len(pass[j].found) + 1
             p == Find(pass[j].batch[n])
  <2>1. UNCHANGED <<registry, generation, present, moves>>
    BY <1>7 DEF Prepare, world
  <2>2. pass[j].found \in Seq(Bound) /\ pass[j].batch \in Seq(Records)
    BY <1>1 DEF Locals
  <2>3. Len(pass[j].found) \in Nat /\ Len(pass[j].batch) \in Nat
    BY <2>2, LenProperties
  <2>4. CASE n <= Len(pass[j].batch)
    <3>1. /\ pass'[j].found = Append(pass[j].found, p)
          /\ pass'[j].pc = "prepare"
          /\ pass'[j].batch = pass[j].batch
          /\ pass'[j].gen = pass[j].gen
      BY <1>1, <1>7, <2>4, SMTT(60) DEF Prepare, TypeOK
    <3>2. pass[j].batch[n] \in Records
      BY <2>2, <2>3, <2>4, ElementOfSeq
    <3>3. p \in Bound
      BY <3>2, FindType
    <3>4. p # NONE => p = Deepest(registry, pass[j].batch[n])
      BY DEF Find
    <3> HIDE DEF p
    <3>5. /\ Len(pass'[j].found) = n
          /\ \A k \in 1..Len(pass[j].found) : pass'[j].found[k] = pass[j].found[k]
          /\ pass'[j].found[n] = p
      BY <2>2, <3>1, <3>3, AppendProperties
    <3>6. \A r : Find(r)' = Find(r)
      BY <2>1 DEF Find, Current
    <3>7. ASSUME pass[j].gen = generation, NEW k \in 1..n
          PROVE  /\ k <= Len(pass[j].batch)
                 /\ pass'[j].found[k] # NONE =>
                      pass'[j].found[k] = Deepest(registry, pass[j].batch[k])
                 /\ moves = 0 => pass'[j].found[k] = Find(pass[j].batch[k])
      <4>1. CASE k = n
        BY <2>3, <2>4, <3>4, <3>5, <4>1 DEF p
      <4>2. CASE k \in 1..Len(pass[j].found)
        BY <1>1, <1>7, <3>5, <3>7, <4>2 DEF LookedUp, Prepare
      <4>3. QED
        BY <2>3, <4>1, <4>2
    <3>8. pass[j].gen <= generation
      BY <1>1, <1>7 DEF LookedUp, Prepare
    <3>9. QED
      <4> HIDE DEF n
      <4> QED BY <2>1, <3>1, <3>5, <3>6, <3>7, <3>8 DEF LookedUp
  <2>5. CASE ~(n <= Len(pass[j].batch))
    <3>1. /\ pass'[j].found = pass[j].found
          /\ pass'[j].pc = "commit"
          /\ pass'[j].batch = pass[j].batch
          /\ pass'[j].gen = pass[j].gen
      BY <1>1, <1>7, <2>5 DEF Prepare, TypeOK
    <3>2. QED
      BY <1>1, <1>7, <2>1, <3>1 DEF LookedUp, Prepare, Find, Current
  <2>6. QED
    BY <2>4, <2>5
<1>8. CASE Commit(j) \/ Conflict(j) \/ Reject(j) \/ Interrupt(j)
  BY <1>1, <1>8, Ends DEF LookedUp
<1>9. CASE UNCHANGED world
  BY <1>1, <1>2, <1>4, <1>5, <1>6, <1>7, <1>8, <1>9, NextCases, PassFrame, OtherFrame
  DEF Reads
<1>10. QED
  <2>1. Outside \/ UNCHANGED world
    BY <1>1, NextCases, PassFrame DEF RecoverReplay, RecoverCommit, RecoverAbandon, vars
  <2>2. QED
    BY <1>3, <1>9, <2>1, OtherFrame

(* The start of a sequence is a prefix of it.                              *)
LEMMA StartIsPrefix ==
  ASSUME NEW S, NEW s \in Seq(S), NEW n \in 0..Len(s)
  PROVE  IsPrefix(SubSeq(s, 1, n), s)
<1>1. /\ SubSeq(s, 1, n) \in Seq(S) /\ Len(SubSeq(s, 1, n)) = n
      /\ \A k \in 1..n : SubSeq(s, 1, n)[k] = s[k]
  BY Start
<1>2. n <= Len(s)
  BY LenProperties
<1>3. QED
  BY <1>1, <1>2, PrefixAgrees

(* A prefix stays one when the sequence grows.                             *)
LEMMA PrefixOfLonger ==
  ASSUME NEW S, NEW s \in Seq(S), NEW t \in Seq(S), IsPrefix(s, t), NEW e \in S
  PROVE  IsPrefix(s, Append(t, e))
<1> DEFINE u == Append(t, e)
<1>1. Len(s) \in Nat /\ Len(t) \in Nat
  BY LenProperties
<1>2. /\ u \in Seq(S) /\ Len(u) = Len(t) + 1
      /\ \A k \in 1..Len(t) : u[k] = t[k]
  BY AppendProperties
<1>3. Len(s) <= Len(t) /\ \A k \in 1..Len(s) : s[k] = t[k]
  BY PrefixAgrees
<1> HIDE DEF u
<1>4. Len(s) <= Len(u) /\ \A k \in 1..Len(s) : s[k] = u[k]
  BY <1>1, <1>2, <1>3
<1>5. IsPrefix(s, u)
  BY <1>2, <1>4, PrefixAgrees
<1>6. QED
  BY <1>5 DEF u

(* The empty cursor names the start of any file.                           *)
LEMMA EmptyFollows == ASSUME TypeOK PROVE Follows(NoCheckpoint)
<1> DEFINE e == <<>>
<1>1. file.log \in Seq(Records) /\ e \in Seq(Records) /\ Len(e) = 0
  BY EmptySeq DEF TypeOK
<1> HIDE DEF e
<1>2. Len(e) <= Len(file.log) /\ \A k \in 1..Len(e) : e[k] = file.log[k]
  BY <1>1, LenProperties
<1>3. IsPrefix(e, file.log)
  BY <1>1, <1>2, PrefixAgrees
<1>4. QED
  BY <1>3 DEF Follows, NoCheckpoint, e

(* While nothing is rewritten or upgraded, a cursor stays good.            *)
LEMMA FollowsStays ==
  ASSUME TypeOK, [Next]_vars, moves' = 0, NEW cp \in Cursors, Follows(cp)
  PROVE  moves = 0 /\ UNCHANGED policy /\ Follows(cp)'
<1>1. moves \in Nat /\ file.log \in Seq(Records) /\ cp.prefix \in Seq(Records)
  BY DEF TypeOK, Cursors
<1>2. CASE UNCHANGED <<file, policy, moves>>
  BY <1>2 DEF Follows
<1>3. CASE \E r \in Records : AppendRecord(r)
  <2>1. PICK r \in Records : AppendRecord(r)
    BY <1>3
  <2>2. /\ file'.log = Append(file.log, r) /\ file'.inode = file.inode
        /\ UNCHANGED <<policy, moves>>
    BY <2>1 DEF AppendRecord, TypeOK
  <2>3. IsPrefix(cp.prefix, file'.log)
    BY <1>1, <2>2, PrefixOfLonger DEF Follows
  <2>4. QED
    BY <2>2, <2>3 DEF Follows
<1>4. CASE Outside
  BY <1>1, <1>2, <1>3, <1>4 DEF Outside, Rewrite, Upgrade, MoveDirectory, Moved, ChangeRegistry
<1>5. QED
  BY <1>2, <1>4, NextCases, PassFrame DEF world, RecoverReplay, RecoverCommit,
    RecoverAbandon, vars

(* While nothing is rewritten, the checkpoint names a place in the file.   *)
LEMMA CheckpointStep ==
  ASSUME IInv, [Next]_vars, moves' = 0
  PROVE  Follows(checkpoint)'
<1>1. TypeOK /\ checkpoint \in Cursors
  BY DEF IInv, Handled, TypeOK
<1>2. moves = 0 /\ policy' = policy
  BY <1>1, NoCheckpointType, EmptyFollows, FollowsStays
<1>3. \A cp \in Cursors : Follows(cp) =>
        IsPrefix(cp.prefix, file'.log)
        /\ (cp.prefix # <<>> => cp.inode = file'.inode /\ cp.policy = policy)
  BY <1>1, <1>2, FollowsStays DEF Follows
<1>4. ASSUME NEW i \in Ingesters, Commit(i)
      PROVE  Follows(checkpoint)'
  <2>1. checkpoint' = pass[i].next /\ pass[i].next \in Cursors /\ Follows(pass[i].next)
    BY <1>1, <1>2, <1>4 DEF Commit, TypeOK, Forward, IInv
  <2>2. QED
    BY <1>2, <1>3, <2>1 DEF Follows
<1>5. CASE checkpoint' = checkpoint
  BY <1>1, <1>2, <1>3, <1>5 DEF Follows, IInv
<1>6. QED
  BY <1>4, <1>5, Steps DEF RecoverCommit, tables

(* While nothing is rewritten, every pass moves its cursor forward.        *)
LEMMA ForwardStep ==
  ASSUME IInv, [Next]_vars, moves' = 0, NEW j \in Ingesters
  PROVE  Forward(j)'
<1>1. /\ TypeOK /\ checkpoint \in Cursors
      /\ pass[j] \in Locals /\ pass[j].base \in Cursors /\ pass[j].next \in Cursors
  BY DEF IInv, Handled, TypeOK, Locals, Bound
<1>2. moves = 0 /\ policy' = policy
  BY <1>1, NoCheckpointType, EmptyFollows, FollowsStays
<1>3. Follows(checkpoint) /\ Forward(j)
  BY <1>2 DEF IInv
<1>4. \A cp \in Cursors : Follows(cp) =>
        IsPrefix(cp.prefix, file'.log)
        /\ (cp.prefix # <<>> => cp.inode = file'.inode /\ cp.policy = policy)
  BY <1>1, <1>2, FollowsStays DEF Follows
<1>5. CASE pass'[j] = pass[j]
  BY <1>1, <1>2, <1>3, <1>4, <1>5 DEF Forward, Follows
<1>6. CASE ReadCheckpoint(j)
  <2>1. /\ pass'[j].base = checkpoint /\ pass'[j].next = pass[j].next
        /\ pass'[j].policy = policy /\ pass'[j].pc = "source"
    BY <1>1, <1>3, <1>6 DEF ReadCheckpoint, Forward, TypeOK
  <2>2. QED
    BY <1>1, <1>2, <1>3, <1>4, <2>1 DEF Forward, Follows
<1>7. CASE ReadSource(j)
  <2>1. PICK upto \in 0..Len(file.log) :
           /\ Offset(pass[j].base, pass[j].policy) <= upto
           /\ pass'[j].next = [inode |-> file.inode, policy |-> pass[j].policy,
                               prefix |-> SubSeq(file.log, 1, upto)]
           /\ pass'[j].base = pass[j].base
           /\ pass'[j].policy = pass[j].policy
           /\ pass'[j].retry = pass[j].retry
           /\ pass'[j].pc = "generation"
    BY <1>1, <1>7, SourceRead
  <2>2. /\ pass[j].policy = policy /\ Follows(pass[j].base)
        /\ file' = file
    BY <1>3, <1>7 DEF Forward, ReadSource, world
  <2>3. /\ file.log \in Seq(Records) /\ pass[j].base.prefix \in Seq(Records)
        /\ Len(file.log) \in Nat
    BY <1>1, LenProperties DEF TypeOK, Cursors
  <2>4. Offset(pass[j].base, pass[j].policy) = Len(pass[j].base.prefix)
    <3>1. CASE pass[j].base.prefix = <<>>
      BY <3>1, EmptySeq DEF Offset
    <3>2. CASE pass[j].base.prefix # <<>>
      BY <2>2, <3>2 DEF Offset, Follows
    <3>3. QED
      BY <3>1, <3>2
  <2>5. IsPrefix(pass[j].base.prefix, SubSeq(file.log, 1, upto))
    BY <2>1, <2>2, <2>3, <2>4, ReadOn DEF Follows
  <2>6. IsPrefix(SubSeq(file.log, 1, upto), file.log)
    BY <2>3, StartIsPrefix
  <2>7. Follows(pass[j].base)' /\ Follows(pass[j].next)'
    BY <1>1, <1>2, <1>4, <2>1, <2>2, <2>6 DEF Follows
  <2>8. QED
    BY <1>2, <2>1, <2>2, <2>5, <2>7 DEF Forward
<1>8. CASE ReadGeneration(j) \/ Prepare(j)
  <2>1. /\ pass'[j].base = pass[j].base /\ pass'[j].next = pass[j].next
        /\ pass'[j].policy = pass[j].policy /\ pass'[j].retry = pass[j].retry
        /\ pass[j].pc \in {"generation", "prepare"}
    BY <1>1, <1>8 DEF ReadGeneration, Prepare, TypeOK
  <2>2. QED
    BY <1>1, <1>2, <1>3, <1>4, <2>1 DEF Forward, Follows
<1>9. CASE Commit(j) \/ Conflict(j) \/ Reject(j) \/ Interrupt(j)
  <2>1. /\ Idle.base = NoCheckpoint /\ Idle.next = NoCheckpoint
        /\ Idle.pc = "idle" /\ Idle.retry = FALSE
        /\ Again(j).base = NoCheckpoint /\ Again(j).next = NoCheckpoint
        /\ Again(j).pc = "idle"
        /\ Again(j).retry => Again(j).policy = pass[j].policy
    BY DEF Again, Idle
  <2>2. pass'[j] = Idle \/ pass'[j] = Again(j)
    BY <1>1, <1>9 DEF Commit, Conflict, Reject, Interrupt, TypeOK
  <2>3. pass[j].pc # "idle"
    BY <1>9 DEF Commit, Conflict, Reject, Interrupt
  <2>4. pass[j].policy = policy
    BY <1>3, <2>3 DEF Forward
  <2>5. Follows(NoCheckpoint)'
    BY <1>1, <1>2, <1>4, NoCheckpointType, EmptyFollows DEF Follows
  <2>6. QED
    BY <1>2, <2>1, <2>2, <2>4, <2>5 DEF Forward
<1>10. QED
  BY <1>1, <1>5, <1>6, <1>7, <1>8, <1>9, NextCases, PassFrame, OtherFrame
  DEF Reads

(* A record is written once.                                               *)
LEMMA FileStep == ASSUME IInv, [Next]_vars PROVE Distinct(file.log)'
<1>1. TypeOK /\ Distinct(file.log) /\ file.log \in Seq(Records) /\ Len(file.log) \in Nat
  BY LenProperties DEF IInv, Handled, TypeOK
<1>2. CASE file' = file
  BY <1>1, <1>2 DEF Distinct
<1>3. ASSUME NEW r \in Records, AppendRecord(r)
      PROVE  Distinct(file.log)'
  <2>1. file'.log = Append(file.log, r)
    BY <1>1, <1>3 DEF AppendRecord, TypeOK
  <2>2. \A k \in 1..Len(file.log) : file.log[k] # r
    BY <1>1, <1>3, LenProperties DEF AppendRecord, ToSet
  <2>3. QED
    BY <1>1, <2>1, <2>2, AppendProperties DEF Distinct
<1>4. ASSUME NEW n \in 0..Len(file.log), NEW inode \in 1..(MaxMoves + 1), Rewrite(n, inode)
      PROVE  Distinct(file.log)'
  <2>1. file'.log = SubSeq(file.log, 0 + 1, n)
    BY <1>4 DEF Rewrite
  <2>2. 0 \in Nat /\ n \in 0..Len(file.log) /\ 0 <= n
    BY <1>1
  <2>3. Distinct(SubSeq(file.log, 0 + 1, n))
    BY <1>1, <2>2, PartIsDistinct
  <2>4. QED
    BY <2>1, <2>3 DEF Distinct
<1>5. CASE Outside
  BY <1>2, <1>3, <1>4, <1>5 DEF Outside, Upgrade, MoveDirectory, ChangeRegistry
<1>6. QED
  BY <1>1, <1>2, <1>5, NextCases, PassFrame DEF world, RecoverReplay, RecoverCommit,
    RecoverAbandon, vars

(* Every step keeps what a recovery holds.                                 *)
LEMMA RecoveringStep == ASSUME IInv, [Next]_vars PROVE Recovering'
<1>1. TypeOK /\ Recovering
  BY DEF IInv, Handled
<1>2. CASE recovery' = recovery
  BY <1>1, <1>2 DEF Recovering
<1>3. ASSUME NEW r \in Records, NEW p \in Projects, RecoverReplay(r, p)
      PROVE  Recovering'
  BY <1>3 DEF Recovering, RecoverReplay, PendingRows, RowsOf
<1>4. CASE recovery' = NoRecovery
  BY <1>4 DEF Recovering
<1>5. QED
  BY <1>1, <1>2, <1>3, <1>4, NextCases, PassFrame DEF Outside, AppendRecord, Rewrite,
    Upgrade, MoveDirectory, ChangeRegistry, RecoverCommit, RecoverAbandon, vars

-----------------------------------------------------------------------------
(* The initial states satisfy the inductive invariant.                     *)
LEMMA InitEstablishes == Init => IInv
<1> SUFFICES ASSUME Init PROVE IInv
  OBVIOUS
<1>1. <<>> \in Seq(Records) /\ Len(<<>>) = 0 /\ ToSet(<<>>) = {}
  BY EmptySeq DEF ToSet
<1>2. TypeOK
  BY <1>1, NoCheckpointType DEF Init, TypeOK, Locals, Bound, NoRecovery
<1>3. AckedHandled /\ ReceiptHasRef /\ Recovering
  BY <1>1 DEF Init, AckedHandled, ReceiptHasRef, Recovering, NoCheckpoint
<1>4. LocatorsBounded /\ IsFiniteSet(deferred)
  <2>1. PendingRows({}) = {}
    BY DEF PendingRows
  <2>2. IsFiniteSet({}) /\ Cardinality({}) = 0
    BY FS_EmptySet
  <2>3. 0 <= MaxDeferred
    BY BoundsAssumption
  <2>4. QED
    BY <2>1, <2>2, <2>3 DEF Init, LocatorsBounded
<1>5. Distinct(file.log)
  BY <1>1 DEF Init, Distinct
<1>6. ASSUME NEW i \in Ingesters
      PROVE  Covered(i) /\ LookedUp(i) /\ Forward(i)
  <2>1. pass[i] = Idle
    BY DEF Init
  <2>2. Follows(NoCheckpoint)
    BY <1>2, EmptyFollows
  <2>3. /\ Idle.pc = "idle" /\ Idle.retry = FALSE /\ Idle.found = <<>>
        /\ Idle.base = NoCheckpoint /\ Idle.next = NoCheckpoint
    BY DEF Idle
  <2>4. QED
    BY <2>1, <2>2, <2>3 DEF Covered, LookedUp, Forward
<1>7. Follows(checkpoint)
  BY <1>2, EmptyFollows DEF Init
<1>8. QED
  BY <1>2, <1>3, <1>4, <1>5, <1>6, <1>7 DEF IInv, Handled

(* Every step preserves the inductive invariant.                           *)
LEMMA StepPreserves == IInv /\ [Next]_vars => IInv'
<1> SUFFICES ASSUME IInv, [Next]_vars PROVE IInv'
  OBVIOUS
<1>1. Handled'
  BY TypeStep, AckedStep, ReceiptStep, LocatorsStep DEF Handled
<1>2. \A i \in Ingesters : Covered(i)' /\ LookedUp(i)'
  BY CoveredStep, LookedUpStep
<1>3. moves' = 0 => Follows(checkpoint)' /\ \A i \in Ingesters : Forward(i)'
  BY CheckpointStep, ForwardStep
<1>4. QED
  BY <1>1, <1>2, <1>3, FileStep, FiniteStep, RecoveringStep DEF IInv

(* The inductive invariant holds in every reachable state.                 *)
THEOREM Invariance == Spec => []IInv
<1>1. QED
  BY InitEstablishes, StepPreserves, PTL DEF Spec

(* No record is lost behind the checkpoint, no receipt stands without its  *)
(* source_ref, and no scope has more locators waiting than its limit: for  *)
(* every number of passes and records, every batch size and limit, and     *)
(* however often files, directories, parser and registry change.           *)
THEOREM HandledAlways == Spec => []Handled
<1>1. IInv => Handled
  BY DEF IInv
<1>2. QED
  BY <1>1, Invariance, PTL

(* No step of any pass or recovery moves a stored record to another project,*)
(* withdraws a receipt or makes a recovered locator pending again.         *)
THEOREM NothingIsUndone == Spec => NothingUndone
<1>1. IInv /\ [Next]_vars =>
        [/\ \A r \in Records : stored[r] # NONE => stored'[r] = stored[r]
         /\ receipts \subseteq receipts'
         /\ \A d \in deferred : \E e \in deferred' :
              SameLocator(d, e) /\ (d.state = "recovered" => e = d)
        ]_vars
  BY Kept
<1>2. QED
  BY <1>1, Invariance, PTL DEF Spec, NothingUndone

(* While the file only grows and the parser stays, no pass, however many   *)
(* run at once, sets the checkpoint back.                                  *)
THEOREM CheckpointMovesForward == Spec => CheckpointForward
<1>1. ASSUME IInv, [Next]_vars, moves = 0
      PROVE  IsPrefix(checkpoint.prefix, checkpoint'.prefix)
  <2>1. \A i \in Ingesters : Forward(i)
    BY <1>1 DEF IInv
  <2>2. CASE \E i \in Ingesters : Commit(i)
    BY <2>1, <2>2 DEF Commit, Unmoved, Forward
  <2>3. CASE checkpoint' = checkpoint
    BY <2>3 DEF IsPrefix
  <2>4. QED
    BY <1>1, <2>2, <2>3, Steps DEF RecoverCommit, tables
<1>2. IInv /\ [Next]_vars =>
        [moves = 0 => IsPrefix(checkpoint.prefix, checkpoint'.prefix)]_vars
  BY <1>1
<1>3. QED
  BY <1>2, Invariance, PTL DEF Spec, CheckpointForward

(* A transaction decides by the registry of the instant it commits, not by *)
(* the one the pass looked its projects up in.                             *)
THEOREM CommitsByCurrentRegistry == Spec => DecidedByCurrentRegistry
<1> DEFINE AsCurrent(r) ==
             /\ stored'[r] # stored[r] => stored'[r] = Find(r)
             /\ (\E d \in deferred' \ deferred : d.record = r) /\ moves = 0
                  => Find(r) = NONE
<1>1. ASSUME IInv, NEW i \in Ingesters, Commit(i), NEW r \in Records
      PROVE  AsCurrent(r)
  <2>1. /\ TypeOK /\ Covered(i) /\ LookedUp(i)
        /\ pass[i].gen = generation /\ pass[i].pc = "commit"
        /\ \A b \in Prepared(i) : Current(b.project)
    BY <1>1 DEF IInv, Handled, Commit, Accepted, Guarded
  <2>2. Len(pass[i].batch) \in Nat /\ Len(pass[i].found) \in Nat
    BY <2>1, LenProperties DEF TypeOK
  <2>3. ASSUME NEW b \in Bindings(i)
        PROVE  /\ b.project # NONE => b.project = Deepest(registry, b.record)
               /\ moves = 0 => b.project = Find(b.record)
    <3>1. PICK n \in 1..Len(pass[i].batch) :
            b = [record |-> pass[i].batch[n], project |-> pass[i].found[n]]
      BY DEF Bindings
    <3>2. n \in 1..Len(pass[i].found)
      BY <2>1, <2>2 DEF Covered
    <3>3. QED
      BY <2>1, <3>1, <3>2 DEF LookedUp
  <2>4. stored'[r] # stored[r] => stored'[r] = Find(r)
    <3>1. CASE r \in PreparedRecords(i)
      <4>1. PICK b \in Prepared(i) : b.record = r /\ stored'[r] = b.project
        BY <1>1, <2>1, <3>1, StoredByCommit
      <4>2. b.project # NONE /\ b \in Bindings(i) /\ Current(b.project)
        BY <2>1 DEF Prepared
      <4>3. QED
        BY <2>3, <4>1, <4>2 DEF Find
    <3>2. CASE r \notin PreparedRecords(i)
      BY <1>1, <3>2 DEF Commit
    <3>3. QED
      BY <3>1, <3>2
  <2>5. ASSUME NEW d \in deferred' \ deferred, d.record = r, moves = 0
        PROVE  Find(r) = NONE
    <3>1. d \in NewLocators(i)
      BY <1>1 DEF Commit, DeferredAfter
    <3>2. PICK b \in Bindings(i) \ Prepared(i) : d = Locator(b.record, pass[i].next)
      BY <3>1 DEF NewLocators
    <3>3. b.record = r /\ b.project = NONE
      BY <2>5, <3>2 DEF Locator, Prepared
    <3>4. QED
      BY <2>3, <2>5, <3>3
  <2>6. QED
    BY <2>4, <2>5
<1>2. ASSUME [Next]_vars, checkpoint' # checkpoint
      PROVE  \E i \in Ingesters : Commit(i)
  BY <1>2, Steps DEF RecoverCommit, tables
<1>3. IInv /\ [Next]_vars =>
        [checkpoint' # checkpoint => \A r \in Records : AsCurrent(r)]_vars
  BY <1>1, <1>2
<1>4. QED
  BY <1>3, Invariance, PTL DEF Spec, DecidedByCurrentRegistry

-----------------------------------------------------------------------------
(* The refinement of the ledger.                                           *)
Stored == {r \in Records : stored[r] # NONE}
Deferred == {d.record : d \in deferred}

(* A commit delivers the batch: what was prepared is stored, the rest is   *)
(* put aside, and with that the batch is acknowledged.                     *)
LEMMA CommitDelivers ==
  ASSUME IInv, NEW i \in Ingesters, Commit(i)
  PROVE  /\ ToSet(pass[i].batch) \subseteq Records
         /\ PreparedRecords(i) \subseteq ToSet(pass[i].batch)
         /\ Stored' = Stored \cup PreparedRecords(i)
         /\ Deferred' = Deferred \cup (ToSet(pass[i].batch) \ PreparedRecords(i))
         /\ ToSet(checkpoint'.prefix) \in
              {ToSet(checkpoint.prefix) \cup ToSet(pass[i].batch), ToSet(pass[i].batch)}
<1> DEFINE s == pass[i].batch
<1>1. /\ TypeOK /\ Covered(i) /\ Distinct(s)
      /\ s \in Seq(Records) /\ Len(s) \in Nat
      /\ \A n \in 1..Len(s) : s[n] \in Records
  <2>1. TypeOK /\ Covered(i) /\ s \in Seq(Records)
    BY DEF IInv, Handled, TypeOK
  <2>2. QED
    BY <2>1, LenProperties, ElementOfSeq DEF Covered, Commit
<1>2. ToSet(s) = {s[n] : n \in 1..Len(s)}
  BY <1>1, LenProperties DEF ToSet
<1>3. /\ Bindings(i) = {[record |-> s[n], project |-> pass[i].found[n]] : n \in 1..Len(s)}
      /\ {b.record : b \in Bindings(i)} = ToSet(s)
  <2>1. Bindings(i) = {[record |-> s[n], project |-> pass[i].found[n]] : n \in 1..Len(s)}
    BY DEF Bindings
  <2>2. \A b \in Bindings(i) : b.record \in ToSet(s)
    BY <1>2, <2>1
  <2>3. ASSUME NEW n \in 1..Len(s) PROVE s[n] \in {b.record : b \in Bindings(i)}
    <3>1. [record |-> s[n], project |-> pass[i].found[n]] \in Bindings(i)
      BY <2>1
    <3>2. QED
      BY <3>1
  <2>4. QED
    BY <1>2, <2>1, <2>2, <2>3
<1>4. PreparedRecords(i) \subseteq ToSet(s)
  BY <1>3 DEF PreparedRecords, Prepared
<1>5. ASSUME NEW b \in Bindings(i), NEW c \in Bindings(i), b.record = c.record
      PROVE  b = c
  <2>1. PICK m \in 1..Len(s), n \in 1..Len(s) :
          /\ b = [record |-> s[m], project |-> pass[i].found[m]]
          /\ c = [record |-> s[n], project |-> pass[i].found[n]]
    BY <1>3
  <2>2. m = n
    BY <1>1, <1>5, <2>1 DEF Distinct
  <2>3. QED
    BY <2>1, <2>2
<1>6. {b.record : b \in Bindings(i) \ Prepared(i)} = ToSet(s) \ PreparedRecords(i)
  BY <1>3, <1>5 DEF PreparedRecords, Prepared
<1>7. Stored' = Stored \cup PreparedRecords(i)
  <2>1. ASSUME NEW r \in Records
        PROVE  stored'[r] # NONE <=> stored[r] # NONE \/ r \in PreparedRecords(i)
    <3>1. CASE r \in PreparedRecords(i)
      BY <1>1, <3>1, StoredByCommit DEF Prepared
    <3>2. CASE r \notin PreparedRecords(i)
      BY <3>2 DEF Commit
    <3>3. QED
      BY <3>1, <3>2
  <2>2. PreparedRecords(i) \subseteq Records
    BY <1>1, <1>2, <1>4
  <2>3. QED
    BY <2>1, <2>2 DEF Stored
<1>8. Deferred' = Deferred \cup (ToSet(s) \ PreparedRecords(i))
  <2>1. deferred' = deferred \cup NewLocators(i)
    BY DEF Commit, DeferredAfter
  <2>2. ASSUME NEW d \in NewLocators(i) PROVE d.record \in ToSet(s) \ PreparedRecords(i)
    BY <1>6 DEF NewLocators, Locator
  <2>3. ASSUME NEW b \in Bindings(i) \ Prepared(i) PROVE b.record \in Deferred'
    <3> DEFINE d == Locator(b.record, pass[i].next)
    <3>1. d.record = b.record
      BY DEF Locator
    <3>2. d \in NewLocators(i) \/ \E e \in deferred : SameLocator(d, e)
      BY DEF NewLocators
    <3>3. QED
      BY <2>1, <3>1, <3>2 DEF SameLocator, Deferred
  <2>4. QED
    BY <1>6, <2>1, <2>2, <2>3 DEF Deferred
<1>9. ToSet(checkpoint'.prefix) \in
        {ToSet(checkpoint.prefix) \cup ToSet(s), ToSet(s)}
  BY <1>1 DEF Commit, Covered, Unmoved
<1>10. QED
  BY <1>1, <1>2, <1>4, <1>7, <1>8, <1>9

(* A recovery places one deferred record.                                  *)
LEMMA RecoverPlaces ==
  ASSUME IInv, RecoverCommit
  PROVE  /\ recovery.record \in Deferred
         /\ recovery.record \in Records
         /\ Stored' = Stored \cup {recovery.record}
         /\ Deferred' = Deferred
         /\ checkpoint' = checkpoint
<1>1. TypeOK /\ Recovering
  BY DEF IInv, Handled
<1>2. /\ recovery.record \in Records /\ recovery.project \in Projects
      /\ \E d \in deferred : d.record = recovery.record
      /\ recovery.rows \subseteq deferred
  BY <1>1 DEF Recovering, RecoverCommit
<1>3. Stored' = Stored \cup {recovery.record}
  BY <1>1, <1>2, PathsAssumption DEF Stored, RecoverCommit, TypeOK
<1>4. Deferred' = Deferred
  <2>1. \A d \in deferred : [d EXCEPT !.state = "recovered"].record = d.record
    BY <1>1 DEF TypeOK, Locators
  <2>2. \A d \in deferred' : d.record \in Deferred
    BY <1>2, <2>1 DEF RecoverCommit, Deferred
  <2>3. \A d \in deferred : d.record \in Deferred'
    BY <2>1 DEF RecoverCommit, Deferred
  <2>4. QED
    BY <2>2, <2>3 DEF Deferred
<1>5. QED
  BY <1>2, <1>3, <1>4 DEF Deferred, RecoverCommit

(* Ingestion implements the ledger: passes that interleave, fail and start *)
(* again, files that change under them and recoveries add up to batches    *)
(* that are delivered at once or not at all.                               *)
THEOREM LedgerImplemented == Spec => ImplementsLedger
<1>1. Init => Ledger!Init
  BY EmptySeq DEF Init, Ledger!Init, NoCheckpoint, ToSet
<1>2. ASSUME IInv, [Next]_vars
      PROVE  [Ledger!Next]_(Ledger!vars)
  <2>1. ASSUME NEW i \in Ingesters, Commit(i)
        PROVE  Ledger!Next
    <3>1. Ledger!Deliver(ToSet(pass[i].batch), PreparedRecords(i))
      BY <1>2, <2>1, CommitDelivers DEF Ledger!Deliver, Stored, Deferred
    <3>2. /\ ToSet(pass[i].batch) \in SUBSET Records
          /\ PreparedRecords(i) \in SUBSET ToSet(pass[i].batch)
      BY <1>2, <2>1, CommitDelivers
    <3>3. QED
      BY <3>1, <3>2 DEF Ledger!Next, Ledger!Deliver
  <2>2. CASE RecoverCommit
    <3>1. Ledger!Place(recovery.record)
      BY <1>2, <2>2, RecoverPlaces DEF Ledger!Place, Stored, Deferred
    <3>2. recovery.record \in Records
      BY <1>2, <2>2, RecoverPlaces
    <3>3. QED
      BY <3>1, <3>2 DEF Ledger!Next, Ledger!Place
  <2>3. CASE UNCHANGED tables
    BY <2>3 DEF tables, Ledger!vars
  <2>4. QED
    BY <1>2, <2>1, <2>2, <2>3, Steps
<1>3. QED
  BY <1>1, <1>2, Invariance, PTL DEF Spec, ImplementsLedger, Ledger!Spec
=============================================================================
