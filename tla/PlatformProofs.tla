---- MODULE PlatformProofs ----
(* Proofs about Platform.tla.  Of its components one moves in a behaviour,  *)
(* and its focus says which: for each there is an invariant of its own,     *)
(* which holds in every behaviour that the focus gives to it, and which its *)
(* own steps keep.                                                          *)
EXTENDS Platform, TLAPS

(* A step leaves the focus where it is.                                     *)
LEMMA FocusStays == [Next]_vars => focus' = focus
<1>1. CASE UNCHANGED vars
  BY <1>1, SMTT(60) DEF vars
<1>2. CASE Next
  BY <1>2 DEF Next, DbAlone, ConfigAlone, AgentsAlone, BrokerAlone, WebAlone,
              ProcessAlone, SnapshotAlone, CleanupAlone
<1>3. QED
  BY <1>1, <1>2

-----------------------------------------------------------------------------
(* The database.                                                            *)

(* While the focus is on the database, it moves alone.                      *)
LEMMA DatabaseMoves ==
  ASSUME [Next]_vars, focus = "database"
  PROVE  [Db!Next]_(Db!vars)
<1>1. CASE UNCHANGED vars
  BY <1>1 DEF vars, databaseVars, Db!vars
<1>2. CASE Next
  BY <1>2 DEF Next, Db!Next
<1>3. QED
  BY <1>1, <1>2

Contents == [schema : Seq(Nat), rows : Nat]
InOrder(c) == \A i \in DOMAIN c.schema : c.schema[i] = i

Migrations == [pc : {"off", "history", "apply", "check", "ready"}, next : Nat]

Stamps == [main : Nat, wal : Nat]
SomePages == UNION {[some -> Contents] : some \in SUBSET Pages}
Readings == [kind : {NONE, "connection", "snapshot"},
             pc : {"off", "sidecars", "stat", "read", "accepted"},
             stamps : Stamps \cup {NONE}, pages : SomePages]

DatabaseType ==
  /\ latest \in Contents
  /\ main \in [Pages -> Contents] /\ mainStamp \in Nat
  /\ wal \in Contents \cup {NONE} /\ walStamp \in Nat
  /\ migrating \in [Processes -> Migrations]
  /\ reading \in [Readers -> Readings]

(* The log holds the content last committed, or is empty and all pages do.  *)
LogIsLatest ==
  IF wal = NONE THEN \A p \in Pages : main[p] = latest ELSE wal = latest

(* What a process has behind it when it is at a script: it begins with the  *)
(* first, has seen to all before the next, and at the end to all it knows.  *)
RunSoFar(p) ==
  LET m == migrating[p] IN
  /\ m.pc = "history" => m.next = 1
  /\ m.pc = "apply" => m.next >= 1 /\ Len(latest.schema) >= m.next - 1
  /\ m.pc \in {"check", "ready"} => Len(latest.schema) >= Known[p]

(* As long as the stamps a reader took are those of the files, the pages it *)
(* has read are those of the file; and the log of a connection was empty.   *)
AsStamped(r) ==
  LET x == reading[r] IN
  x.pc = "read" =>
    /\ x.stamps \in Stamps /\ x.stamps.main <= mainStamp /\ x.stamps.wal <= walStamp
    /\ x.stamps.main = mainStamp => \A p \in DOMAIN x.pages : x.pages[p] = main[p]
    /\ x.kind = "connection" /\ x.stamps.wal = walStamp => wal = NONE

(* Before it reads, a connection has the stamps it took and no page yet.    *)
BeforeReading(r) ==
  LET x == reading[r] IN
  /\ x.pc \in {"sidecars", "stat"} => DOMAIN x.pages = {}
  /\ x.pc = "sidecars" => /\ x.kind = "connection" /\ x.stamps \in Stamps
                          /\ x.stamps.main <= mainStamp /\ x.stamps.wal <= walStamp
  /\ x.pc = "stat" => x.kind = "snapshot"

DatabaseInv ==
  /\ DatabaseType /\ LogIsLatest /\ InOrder(latest)
  /\ \A p \in Processes : RunSoFar(p)
  /\ \A r \in Readers : AsStamped(r) /\ BeforeReading(r)

(* A reader at rest.                                                        *)
LEMMA RestingType == Db!Resting \in Readings
<1>1. [p \in {} |-> NONE] \in [{} -> Contents]
  OBVIOUS
<1>2. QED
  BY <1>1 DEF Db!Resting, Readings, SomePages

(* A new database: every page of it is empty, and so is the log.            *)
LEMMA DatabaseInit == Db!Init => DatabaseInv
<1> SUFFICES ASSUME Db!Init PROVE DatabaseInv
  OBVIOUS
<1>1. latest \in Contents /\ InOrder(latest)
  <2>1. PICK n \in Nat : latest = [schema |-> [i \in 1..n |-> i], rows |-> 0]
    BY DEF Db!Init
  <2>2. [i \in 1..n |-> i] \in Seq(Nat)
    OBVIOUS
  <2>3. QED
    BY <2>1, <2>2 DEF Contents, InOrder
<1>2. DatabaseType
  BY <1>1, RestingType DEF DatabaseType, Db!Init, Migrations
<1>3. \A p \in Processes : RunSoFar(p)
  BY DEF RunSoFar, Db!Init
<1>4. \A r \in Readers : AsStamped(r) /\ BeforeReading(r)
  BY DEF Db!Init, AsStamped, BeforeReading, Db!Resting
<1>5. QED
  BY <1>1, <1>2, <1>3, <1>4 DEF DatabaseInv, LogIsLatest, Db!Init

(* A commit goes to the log, and its stamp tells every reader.              *)
LEMMA CommitStep ==
  ASSUME DatabaseInv, NEW fresh \in Contents, Db!Commit(fresh), UNCHANGED reading
  PROVE  /\ latest' \in Contents /\ main' \in [Pages -> Contents] /\ mainStamp' \in Nat
         /\ wal' \in Contents \cup {NONE} /\ walStamp' \in Nat
         /\ LogIsLatest'
         /\ \A r \in Readers : AsStamped(r)' /\ BeforeReading(r)'
<1> USE DEF DatabaseInv, DatabaseType, Db!Commit
<1>1. fresh # NONE
  BY DatabaseAssumption DEF Contents
<1>2. LogIsLatest'
  BY <1>1 DEF LogIsLatest
<1>3. \A r \in Readers : AsStamped(r)'
  BY DEF AsStamped, Stamps
<1>4. \A r \in Readers : BeforeReading(r)'
  BY DEF BeforeReading, Stamps
<1>5. QED
  BY <1>2, <1>3, <1>4

(* Nor do the files move under a reader that does not notice.               *)
LEMMA WriteStep ==
  ASSUME DatabaseInv, Db!WriteTransaction
  PROVE  DatabaseInv'
<1> DEFINE fresh == [latest EXCEPT !.rows = @ + 1]
<1>0. latest \in Contents
  BY DEF DatabaseInv, DatabaseType
<1>1. fresh \in Contents /\ fresh.schema = latest.schema
  BY <1>0 DEF Contents
<1>2. Db!Commit(fresh) /\ UNCHANGED <<migrating, reading>>
  BY DEF Db!WriteTransaction
<1> HIDE DEF fresh
<1>3. latest' = fresh
  BY <1>2 DEF Db!Commit
<1>4. \A p \in Processes : RunSoFar(p)'
  BY <1>1, <1>2, <1>3 DEF DatabaseInv, RunSoFar
<1>5. InOrder(latest)'
  BY <1>1, <1>3 DEF DatabaseInv, InOrder
<1>6. QED
  BY <1>1, <1>2, <1>4, <1>5, CommitStep DEF DatabaseInv, DatabaseType

(* A checkpoint brings the log into the file, and changes no content.       *)
LEMMA CheckpointStep ==
  ASSUME DatabaseInv, (\E p \in Pages : Db!CheckpointPage(p)) \/ Db!EmptyLog
  PROVE  DatabaseInv'
<1> USE DEF DatabaseInv, DatabaseType, Db!CheckpointPage, Db!EmptyLog
<1>1. DatabaseType' /\ UNCHANGED <<latest, migrating, reading>>
  OBVIOUS
<1>2. LogIsLatest'
  BY DEF LogIsLatest
<1>3. InOrder(latest)' /\ \A p \in Processes : RunSoFar(p)'
  BY <1>1 DEF InOrder, RunSoFar
<1>4. \A r \in Readers : AsStamped(r)'
  <2>1. CASE \E p \in Pages : Db!CheckpointPage(p)
    <3>1. mainStamp' = mainStamp + 1 /\ walStamp' = walStamp /\ wal' = wal
      BY <2>1
    <3>2. QED
      BY <1>1, <3>1 DEF AsStamped, Stamps
  <2>2. CASE Db!EmptyLog
    <3>1. walStamp' = walStamp + 1 /\ UNCHANGED <<main, mainStamp>>
      BY <2>2
    <3>2. QED
      BY <1>1, <3>1 DEF AsStamped, Stamps
  <2>3. QED
    BY <2>1, <2>2
<1>5. \A r \in Readers : BeforeReading(r)'
  BY <1>1 DEF BeforeReading, Stamps
<1>6. QED
  BY <1>1, <1>2, <1>3, <1>4, <1>5

(* A script is run once: what the transaction looks up in the history tells *)
(* exactly whether another process, of another release too, was there first.*)
LEMMA MigrateStep ==
  ASSUME DatabaseInv, NEW p \in Processes, Db!Migrate(p)
  PROVE  DatabaseInv'
<1> USE DEF DatabaseInv, DatabaseType
<1>0. Known[p] \in Nat /\ migrating[p] \in Migrations
  BY DatabaseAssumption
<1>1. ASSUME UNCHANGED Db!files, UNCHANGED reading,
             migrating' \in [Processes -> Migrations],
             \A q \in Processes \ {p} : migrating'[q] = migrating[q],
             RunSoFar(p)'
      PROVE  DatabaseInv'
  <2>1. \A q \in Processes : RunSoFar(q)'
    BY <1>1 DEF RunSoFar, Db!files
  <2>2. \A r \in Readers : AsStamped(r)' /\ BeforeReading(r)'
    BY <1>1 DEF AsStamped, BeforeReading, Db!files
  <2>3. QED
    BY <1>1, <2>1, <2>2 DEF LogIsLatest, InOrder, Db!files
<1>2. ASSUME NEW step \in {"off", "check", "apply", "ready"}, Db!Step(p, step)
      PROVE  /\ migrating' \in [Processes -> Migrations]
             /\ \A q \in Processes \ {p} : migrating'[q] = migrating[q]
             /\ migrating'[p].pc = step /\ migrating'[p].next = migrating[p].next
  <2>1. migrating' = [migrating EXCEPT ![p] = [migrating[p] EXCEPT !.pc = step]]
    BY <1>0, <1>2 DEF Db!Step
  <2>2. [migrating[p] EXCEPT !.pc = step] \in Migrations
    BY <1>0 DEF Migrations
  <2>3. QED
    BY <1>0, <2>1, <2>2 DEF Migrations
<1>3. CASE Db!Begin(p)
  <2>1. [pc |-> "history", next |-> 1] \in Migrations
    BY DEF Migrations
  <2>2. QED
    BY <1>1, <1>3, <2>1 DEF Db!Begin, RunSoFar
<1>4. CASE Db!ValidateHistory(p)
  <2>1. UNCHANGED <<Db!files, reading>>
    BY <1>4 DEF Db!ValidateHistory
  <2>2. \/ Db!Step(p, "off")
        \/ Db!Step(p, "apply") /\ migrating[p].pc = "history"
        \/ Db!Step(p, "ready") /\ migrating[p].pc = "check"
    BY <1>4 DEF Db!ValidateHistory
  <2>3. Len(latest.schema) \in Nat /\ latest' = latest
    BY <2>1 DEF Contents, Db!files
  <2>4. RunSoFar(p)'
    BY <1>0, <1>2, <2>2, <2>3 DEF RunSoFar, Migrations
  <2>5. QED
    BY <1>1, <1>2, <2>1, <2>2, <2>4
<1>5. CASE Db!Applied(p)
  <2>1. Db!Step(p, "check") /\ UNCHANGED <<Db!files, reading>>
    BY <1>5 DEF Db!Applied
  <2>2. Len(latest.schema) >= Known[p]
    <3>1. Len(latest.schema) >= migrating[p].next - 1 /\ migrating[p].next > Known[p]
      BY <1>5 DEF Db!Applied, RunSoFar
    <3>2. Len(latest.schema) \in Nat /\ migrating[p].next \in Nat
      BY <1>0 DEF Contents, Migrations
    <3>3. QED
      BY <1>0, <3>1, <3>2
  <2>3. RunSoFar(p)'
    BY <1>2, <2>1, <2>2 DEF RunSoFar, Db!files
  <2>4. QED
    BY <1>1, <1>2, <2>1, <2>3
<1>6. CASE Db!Crash(p)
  BY <1>1, <1>2, <1>6 DEF Db!Crash, RunSoFar
<1>7. CASE Db!ApplyMigration(p)
  <2> DEFINE version == migrating[p].next
             longer == Append(latest.schema, version)
  <2>1. /\ migrating[p].pc = "apply" /\ version \in Nat /\ version >= 1
        /\ latest.schema \in Seq(Nat) /\ Len(latest.schema) \in Nat
        /\ Len(latest.schema) >= version - 1
    BY <1>0, <1>7 DEF Db!ApplyMigration, RunSoFar, Migrations, Contents
  <2>2. migrating' = [migrating EXCEPT ![p] = [migrating[p] EXCEPT !.next = version + 1]]
    BY <1>0, <1>7 DEF Db!ApplyMigration
  <2>3. [migrating[p] EXCEPT !.next = version + 1] \in Migrations
    BY <1>0, <2>1 DEF Migrations
  <2>4. /\ migrating' \in [Processes -> Migrations]
        /\ \A q \in Processes \ {p} : migrating'[q] = migrating[q]
        /\ migrating'[p].pc = "apply" /\ migrating'[p].next = version + 1
    BY <1>0, <2>1, <2>2, <2>3 DEF Migrations
  <2>5. CASE ~Db!NotApplied(version)
    <3>1. UNCHANGED <<Db!files, reading>>
      BY <1>7, <2>5 DEF Db!ApplyMigration
    <3>2. PICK i \in DOMAIN latest.schema : latest.schema[i] = version
      BY <2>5 DEF Db!NotApplied
    <3>3. Len(latest.schema) >= version
      <4>1. i \in 1..Len(latest.schema)
        BY <2>1
      <4>2. i = version
        BY <3>2 DEF InOrder
      <4>3. QED
        BY <2>1, <4>1, <4>2
    <3>4. RunSoFar(p)'
      BY <2>1, <2>4, <3>1, <3>3 DEF RunSoFar, Db!files
    <3>5. QED
      BY <1>1, <2>4, <3>1, <3>4
  <2>6. CASE Db!NotApplied(version)
    <3> DEFINE fresh == [latest EXCEPT !.schema = longer]
    <3>1. Len(latest.schema) = version - 1
      <4>1. ASSUME Len(latest.schema) >= version PROVE FALSE
        <5>1. version \in DOMAIN latest.schema
          BY <2>1, <4>1
        <5>2. QED
          BY <2>6, <5>1 DEF InOrder, Db!NotApplied
      <4>2. QED
        BY <2>1, <4>1
    <3>2. longer \in Seq(Nat) /\ Len(longer) = version
      BY <2>1, <3>1
    <3>3. fresh \in Contents /\ fresh.schema = longer
      BY <3>2 DEF Contents
    <3>4. Db!Commit(fresh) /\ UNCHANGED reading
      BY <1>7, <2>6 DEF Db!ApplyMigration
    <3> HIDE DEF fresh
    <3>5. latest' = fresh
      BY <3>4 DEF Db!Commit
    <3>6. InOrder(latest)'
      <4>1. \A i \in 1..version : longer[i] = i
        BY <2>1, <3>1, SMTT(60) DEF InOrder
      <4>2. latest'.schema = longer /\ DOMAIN longer = 1..version
        BY <2>1, <3>2, <3>3, <3>5
      <4>3. QED
        BY <4>1, <4>2 DEF InOrder
    <3>7. \A q \in Processes : RunSoFar(q)'
      <4>1. Len(latest'.schema) = Len(latest.schema) + 1
        BY <2>1, <3>1, <3>2, <3>3, <3>5
      <4>2. ASSUME NEW q \in Processes \ {p} PROVE RunSoFar(q)'
        <5>1. migrating'[q] = migrating[q] /\ migrating[q] \in Migrations /\ Known[q] \in Nat
          BY <2>4, DatabaseAssumption
        <5>2. QED
          BY <2>1, <4>1, <5>1 DEF RunSoFar, Migrations
      <4>3. RunSoFar(p)'
        BY <2>1, <2>4, <3>1, <4>1 DEF RunSoFar
      <4>4. QED
        BY <4>2, <4>3
    <3>8. QED
      BY <2>4, <3>3, <3>4, <3>6, <3>7, CommitStep
  <2>7. QED
    BY <2>5, <2>6
<1>8. QED
  BY <1>3, <1>4, <1>5, <1>6, <1>7 DEF Db!Migrate

(* A reader that goes on reads what is in the file at that moment.          *)
LEMMA ReadStep ==
  ASSUME DatabaseInv, NEW r \in Readers, Db!Read(r)
  PROVE  /\ DatabaseInv'
         /\ reading[r].pc = "read" /\ reading'[r].pc = "accepted" =>
              \A p \in Pages : reading[r].pages[p] = latest
         /\ \A q \in Readers \ {r} : reading'[q] = reading[q]
<1> USE DEF DatabaseInv, DatabaseType
<1>1. UNCHANGED <<Db!files, migrating>>
  BY DEF Db!Read, Db!OpenReadonly, Db!OpenSnapshot, Db!CheckSidecars, Db!StatDocument,
         Db!ReadPage, Db!FinishRead, Db!Close
<1>2. \A q \in Readers \ {r} : reading'[q] = reading[q]
  BY DEF Db!Read, Db!OpenReadonly, Db!OpenSnapshot, Db!CheckSidecars, Db!StatDocument,
         Db!ReadPage, Db!FinishRead, Db!Close
<1>3. ASSUME reading' \in [Readers -> Readings], AsStamped(r)', BeforeReading(r)'
      PROVE  DatabaseInv'
  <2>1. \A q \in Readers : AsStamped(q)' /\ BeforeReading(q)'
    BY <1>1, <1>2, <1>3 DEF AsStamped, BeforeReading, Db!files
  <2>2. \A p \in Processes : RunSoFar(p)'
    BY <1>1 DEF RunSoFar, Db!files
  <2>3. DatabaseType' /\ LogIsLatest' /\ InOrder(latest)'
    BY <1>1, <1>3 DEF LogIsLatest, InOrder, Db!files
  <2>4. QED
    BY <2>1, <2>2, <2>3
<1>4. Db!FileState \in Stamps /\ Db!FileState.main = mainStamp /\ Db!FileState.wal = walStamp
  BY DEF Db!FileState, Stamps
<1>5. reading' \in [Readers -> Readings] /\ AsStamped(r)' /\ BeforeReading(r)'
  <2>0. /\ reading[r] \in Readings /\ Db!FileState \in Stamps \cup {NONE}
        /\ Db!Resting \in Readings
    BY <1>4, RestingType
  <2> DEFINE After(x) == /\ x \in Readings
                         /\ reading' = [reading EXCEPT ![r] = x]
  <2>1. ASSUME NEW x, After(x)
        PROVE  reading' \in [Readers -> Readings] /\ reading'[r] = x
    BY <2>1
  <2>2. ASSUME After(Db!Resting)
        PROVE  reading' \in [Readers -> Readings] /\ AsStamped(r)' /\ BeforeReading(r)'
    BY <2>1, <2>2 DEF AsStamped, BeforeReading, Db!Resting
  <2>3. CASE Db!OpenReadonly(r)
    <3> DEFINE x == [Db!Resting EXCEPT !.kind = "connection", !.pc = "sidecars",
                                       !.stamps = Db!FileState]
    <3>1. /\ x \in Readings /\ x.pc = "sidecars" /\ x.kind = "connection"
          /\ x.stamps = Db!FileState /\ x.pages = Db!Resting.pages
      BY <2>0 DEF Readings
    <3>2. reading' = [reading EXCEPT ![r] = x]
      BY <2>3 DEF Db!OpenReadonly
    <3> HIDE DEF x
    <3>3. reading' \in [Readers -> Readings] /\ reading'[r] = x
      BY <2>1, <3>1, <3>2
    <3>4. DOMAIN Db!Resting.pages = {}
      BY DEF Db!Resting
    <3>5. QED
      BY <1>1, <1>4, <3>1, <3>3, <3>4 DEF AsStamped, BeforeReading, Db!files
  <2>4. CASE Db!OpenSnapshot(r)
    <3> DEFINE x == [Db!Resting EXCEPT !.kind = "snapshot", !.pc = "stat"]
    <3>1. /\ x \in Readings /\ x.pc = "stat" /\ x.kind = "snapshot"
          /\ x.pages = Db!Resting.pages
      BY <2>0 DEF Readings
    <3>2. reading' = [reading EXCEPT ![r] = x]
      BY <2>4 DEF Db!OpenSnapshot
    <3> HIDE DEF x
    <3>3. reading' \in [Readers -> Readings] /\ reading'[r] = x
      BY <2>1, <3>1, <3>2
    <3>4. DOMAIN Db!Resting.pages = {}
      BY DEF Db!Resting
    <3>5. QED
      BY <3>1, <3>3, <3>4 DEF AsStamped, BeforeReading
  <2>5. CASE Db!CheckSidecars(r)
    <3>1. CASE Db!Quiescent
      <4> DEFINE x == [reading[r] EXCEPT !.pc = "read"]
      <4>1. /\ x \in Readings /\ x.pc = "read" /\ x.kind = reading[r].kind
            /\ x.stamps = reading[r].stamps /\ x.pages = reading[r].pages
        BY <2>0 DEF Readings
      <4>2. reading' = [reading EXCEPT ![r] = x]
        BY <2>5, <3>1 DEF Db!CheckSidecars
      <4> HIDE DEF x
      <4>3. reading' \in [Readers -> Readings] /\ reading'[r] = x
        BY <2>1, <4>1, <4>2
      <4>4. reading[r].pc = "sidecars" /\ wal = NONE
        BY <2>5, <3>1 DEF Db!CheckSidecars, Db!Quiescent
      <4>5. QED
        BY <1>1, <4>1, <4>3, <4>4 DEF AsStamped, BeforeReading, Db!files
    <3>2. CASE ~Db!Quiescent
      BY <2>0, <2>2, <2>5, <3>2 DEF Db!CheckSidecars
    <3>3. QED
      BY <3>1, <3>2
  <2>6. CASE Db!StatDocument(r)
    <3> DEFINE x == [reading[r] EXCEPT !.pc = "read", !.stamps = Db!FileState]
    <3>1. /\ x \in Readings /\ x.pc = "read" /\ x.kind = reading[r].kind
          /\ x.stamps = Db!FileState /\ x.pages = reading[r].pages
      BY <2>0 DEF Readings
    <3>2. reading' = [reading EXCEPT ![r] = x]
      BY <2>6 DEF Db!StatDocument
    <3> HIDE DEF x
    <3>3. reading' \in [Readers -> Readings] /\ reading'[r] = x
      BY <2>1, <3>1, <3>2
    <3>4. reading[r].pc = "stat"
      BY <2>6 DEF Db!StatDocument
    <3>5. QED
      BY <1>1, <1>4, <3>1, <3>3, <3>4 DEF AsStamped, BeforeReading, Db!files
  <2>7. ASSUME NEW p \in Pages, Db!ReadPage(r, p)
        PROVE  reading' \in [Readers -> Readings] /\ AsStamped(r)' /\ BeforeReading(r)'
    <3> DEFINE pages == [q \in DOMAIN reading[r].pages \cup {p} |->
                           IF q = p THEN main[p] ELSE reading[r].pages[q]]
               x == [reading[r] EXCEPT !.pages = pages]
    <3>0. pages \in SomePages
      <4>1. PICK some \in SUBSET Pages : reading[r].pages \in [some -> Contents]
        BY <2>0 DEF Readings, SomePages
      <4>2. pages \in [some \cup {p} -> Contents] /\ some \cup {p} \in SUBSET Pages
        BY <4>1
      <4>3. QED
        BY <4>2 DEF SomePages
    <3>1. reading' = [reading EXCEPT ![r] = x]
      BY <2>7 DEF Db!ReadPage
    <3>2. \A q \in DOMAIN pages : q = p \/ q \in DOMAIN reading[r].pages
      OBVIOUS
    <3>3. \A q \in DOMAIN pages : pages[q] = IF q = p THEN main[p] ELSE reading[r].pages[q]
      OBVIOUS
    <3> HIDE DEF pages
    <3>4. /\ x \in Readings /\ x.pc = reading[r].pc /\ x.kind = reading[r].kind
          /\ x.stamps = reading[r].stamps /\ x.pages = pages
      BY <2>0, <3>0 DEF Readings
    <3> HIDE DEF x
    <3>5. reading' \in [Readers -> Readings] /\ reading'[r] = x
      BY <2>1, <3>1, <3>4
    <3>6. reading[r].pc = "read"
      BY <2>7 DEF Db!ReadPage
    <3>7. QED
      BY <1>1, <3>2, <3>3, <3>4, <3>5, <3>6 DEF AsStamped, BeforeReading, Db!files
  <2>8. CASE Db!FinishRead(r)
    <3>1. CASE Db!Unchanged(r)
      <4> DEFINE x == [reading[r] EXCEPT !.pc = "accepted"]
      <4>1. x \in Readings /\ x.pc = "accepted"
        BY <2>0 DEF Readings
      <4>2. reading' = [reading EXCEPT ![r] = x]
        BY <2>8, <3>1 DEF Db!FinishRead
      <4> HIDE DEF x
      <4>3. reading' \in [Readers -> Readings] /\ reading'[r] = x
        BY <2>1, <4>1, <4>2
      <4>4. QED
        BY <4>1, <4>3 DEF AsStamped, BeforeReading
    <3>2. CASE ~Db!Unchanged(r)
      BY <2>0, <2>2, <2>8, <3>2 DEF Db!FinishRead
    <3>3. QED
      BY <3>1, <3>2
  <2>9. CASE Db!Close(r)
    BY <2>0, <2>2, <2>9 DEF Db!Close
  <2>10. QED
    BY <2>3, <2>4, <2>5, <2>6, <2>7, <2>8, <2>9 DEF Db!Read
<1>6. ASSUME reading[r].pc = "read", reading'[r].pc = "accepted", NEW p \in Pages
      PROVE  reading[r].pages[p] = latest
  <2>1. CASE Db!FinishRead(r)
    <3>1. Db!Unchanged(r) /\ p \in DOMAIN reading[r].pages
      BY <1>6, <2>1 DEF Db!FinishRead, Db!Resting
    <3>2. reading[r].stamps.main = mainStamp /\ wal = NONE
      BY <1>4, <1>6, <3>1 DEF Db!Unchanged, Db!SameDocument, Db!Quiescent, AsStamped
    <3>3. QED
      BY <1>6, <3>1, <3>2 DEF AsStamped, LogIsLatest
  <2>2. ASSUME NEW q \in Pages, Db!ReadPage(r, q) PROVE FALSE
    BY <1>6, <2>2 DEF Db!ReadPage
  <2>3. QED
    BY <1>6, <2>1, <2>2 DEF Db!Read, Db!OpenReadonly, Db!OpenSnapshot, Db!CheckSidecars,
                            Db!StatDocument, Db!Close
<1>7. QED
  BY <1>2, <1>3, <1>5, <1>6

(* The invariant of the database, and what its readers accept.              *)
LEMMA DatabaseStep ==
  ASSUME DatabaseInv, [Db!Next]_(Db!vars)
  PROVE  DatabaseInv' /\ Db!AcceptsCommitted
<1>1. ASSUME UNCHANGED reading PROVE Db!AcceptsCommitted
  BY <1>1 DEF Db!AcceptsCommitted
<1>2. CASE UNCHANGED Db!vars
  <2>1. DatabaseInv'
    BY <1>2 DEF Db!vars, DatabaseInv, DatabaseType, LogIsLatest, InOrder, RunSoFar,
                AsStamped, BeforeReading
  <2>2. QED
    BY <1>1, <1>2, <2>1 DEF Db!vars
<1>3. CASE Db!WriteTransaction
  BY <1>1, <1>3, WriteStep DEF Db!WriteTransaction
<1>4. CASE Db!EmptyLog \/ \E p \in Pages : Db!CheckpointPage(p)
  BY <1>1, <1>4, CheckpointStep DEF Db!EmptyLog, Db!CheckpointPage
<1>5. ASSUME NEW p \in Processes, Db!Migrate(p) PROVE DatabaseInv' /\ Db!AcceptsCommitted
  <2>1. UNCHANGED reading
    BY <1>5 DEF Db!Migrate, Db!Begin, Db!ValidateHistory, Db!ApplyMigration, Db!Applied,
                Db!Crash
  <2>2. QED
    BY <1>1, <1>5, <2>1, MigrateStep
<1>6. ASSUME NEW r \in Readers, Db!Read(r) PROVE DatabaseInv' /\ Db!AcceptsCommitted
  BY <1>6, ReadStep DEF Db!AcceptsCommitted
<1>7. QED
  BY <1>2, <1>3, <1>4, <1>5, <1>6 DEF Db!Next

(* In every behaviour in which the database moves, its invariant holds.     *)
LEMMA DatabaseHolds == Spec => [](focus = "database" => DatabaseInv)
<1>1. Init => (focus = "database" => DatabaseInv)
  BY DatabaseInit DEF Init
<1>2. (focus = "database" => DatabaseInv) /\ [Next]_vars
        => (focus = "database" => DatabaseInv)'
  BY FocusStays, DatabaseMoves, DatabaseStep
<1>3. QED
  BY <1>1, <1>2, PTL DEF Spec

(* However many releases start together on a database and die on the way,   *)
(* every script has run once and in order, and a process that is ready      *)
(* found every script it knows.                                             *)
THEOREM ScriptsRunOnce == Spec => []MigratedOnce
<1>1. (focus = "database" => DatabaseInv) => MigratedOnce
  BY DEF MigratedOnce, Db!MigratedOnce, DatabaseInv, InOrder, RunSoFar
<1>2. QED
  BY <1>1, DatabaseHolds, PTL

(* A lock-free reader accepts only the committed content, whole, for any    *)
(* number of pages and whatever is written, checkpointed or migrated        *)
(* between its reads.                                                       *)
THEOREM ReadersAcceptCommitted == Spec => AcceptsCommitted
<1>1. (focus = "database" => DatabaseInv) /\ [Next]_vars
        => [focus = "database" => Db!AcceptsCommitted]_vars
  BY DatabaseMoves, DatabaseStep
<1>2. QED
  BY <1>1, DatabaseHolds, PTL DEF Spec, AcceptsCommitted

-----------------------------------------------------------------------------
(* The configuration.                                                       *)

(* While the focus is on the configuration, it moves alone.                 *)
LEMMA ConfigurationMoves ==
  ASSUME [Next]_vars, focus = "configuration"
  PROVE  [Config!Next]_(Config!vars)
<1>1. CASE UNCHANGED vars
  BY <1>1 DEF vars, configurationVars, Config!vars
<1>2. CASE Next
  BY <1>2 DEF Next, Config!Next
<1>3. QED
  BY <1>1, <1>2

Documents == [config : Config!Configs, layout : {"hub", "edited"}]
Files == [doc : Documents, stamp : Nat, links : {1, 2}, synced : {TRUE}]
Kinds == {"settings", "setup", "toggle"}
Saves == [pc : {"idle", "link", "unlink", "shown", "lock", "write", "check", "replace",
                "sync"},
          kind : Kinds \cup {NONE}, seen : Documents \cup {NONE},
          want : Config!Configs \cup {NONE}, expected : Documents \cup {NONE},
          snapshot : Files \cup {NONE}]

(* Every file under the name was synced before it got there.                *)
ConfigurationType ==
  /\ file \in Files \cup {NONE} /\ disk \in Files \cup {NONE}
  /\ lock \in Writers \cup {NONE} /\ late \in BOOLEAN /\ promised \in Nat
  /\ save \in [Writers -> Saves]

(* The disk is never ahead of the file, nor behind what was promised.       *)
DiskHolds ==
  /\ disk # NONE => file # NONE /\ file.stamp >= disk.stamp
  /\ promised > 0 => disk # NONE /\ disk.stamp >= promised

(* What a save is about to write differs from what it has read only in what *)
(* its user was shown.                                                      *)
AsAsked(x) ==
  /\ x.want \in Config!Configs /\ x.expected \in Documents /\ x.kind \in Kinds
  /\ x.kind \in {"setup", "toggle"} => x.expected = x.seen
  /\ x.kind = "settings" => x.want["kept"] = x.expected.config["kept"]

(* What a writer knows: the one that holds the lock has read the file, and  *)
(* until it replaces it only an editor can have written another.            *)
WriterInv(w) ==
  LET x == save[w] IN
  /\ x.pc \in {"write", "check", "replace", "sync"} => lock = w
  /\ x.pc = "shown" => x.seen \in Documents /\ x.kind \in Kinds
  /\ x.pc \in {"lock", "write", "check", "replace", "sync"} => AsAsked(x)
  /\ x.pc \in {"write", "check", "replace"} =>
       x.snapshot \in Files /\ x.snapshot.doc = x.expected /\ x.snapshot.links = 1
  /\ x.pc \in {"unlink", "write", "check", "replace", "sync"} => file # NONE
  /\ x.pc = "replace" /\ ~late => file = x.snapshot
  /\ x.pc = "sync" => x.snapshot \in Files /\ file.stamp >= x.snapshot.stamp

ConfigurationInv == ConfigurationType /\ DiskHolds /\ \A w \in Writers : WriterInv(w)

(* Null is no document, no file and no writer.                              *)
LEMMA NullIsNothing == NONE \notin Documents \cup Files \cup Writers
BY ConfigurationAssumption DEF Documents, Files

(* What the fields of a file are.                                           *)
LEMMA FileFacts ==
  ASSUME NEW f \in Files
  PROVE  f.doc \in Documents /\ f.stamp \in Nat /\ f.links \in {1, 2} /\ f.synced /\ f # NONE
BY NullIsNothing DEF Files

(* A file that is written in whole.                                         *)
LEMMA WrittenFile ==
  ASSUME NEW d \in Documents, NEW s \in Nat, NEW l \in {1, 2}
  PROVE  [doc |-> d, stamp |-> s, links |-> l, synced |-> TRUE] \in Files
BY DEF Files

(* A save that has not begun.                                               *)
LEMMA IdleType == Config!Idle \in Saves /\ Config!Idle.pc = "idle"
BY DEF Config!Idle, Saves

(* Nothing is there before a process has started.                           *)
LEMMA ConfigurationInit == Config!Init => ConfigurationInv
<1> SUFFICES ASSUME Config!Init PROVE ConfigurationInv
  OBVIOUS
<1>1. /\ file \in Files \cup {NONE} /\ disk = file /\ promised = 0 /\ lock = NONE
      /\ late = FALSE /\ save = [w \in Writers |-> Config!Idle]
  BY WrittenFile DEF Config!Init, Config!Serialize, Documents
<1>2. ConfigurationType /\ \A w \in Writers : save[w] = Config!Idle
  BY <1>1, IdleType DEF ConfigurationType
<1>3. \A w \in Writers : WriterInv(w)
  BY <1>2, IdleType DEF WriterInv
<1>4. DiskHolds
  BY <1>1, FileFacts DEF DiskHolds
<1>5. QED
  BY <1>2, <1>3, <1>4 DEF ConfigurationInv

(* A writer that is idle knows nothing.                                     *)
LEMMA IdleKnows ==
  ASSUME NEW w \in Writers, save'[w] = Config!Idle PROVE WriterInv(w)'
BY IdleType DEF WriterInv

(* A step of one writer that leaves the file as it is.                      *)
LEMMA QuietStep ==
  ASSUME ConfigurationInv, NEW w \in Writers, NEW x \in Saves,
         UNCHANGED <<file, disk, promised>>,
         save' = [save EXCEPT ![w] = x],
         lock' = lock \/ (lock = NONE /\ lock' = w) \/ (lock = w /\ lock' = NONE),
         late' = late \/ (late' = FALSE /\ lock = w),
         WriterInv(w)'
  PROVE  ConfigurationInv'
<1> USE DEF ConfigurationInv, ConfigurationType
<1>1. save' \in [Writers -> Saves] /\ \A v \in Writers \ {w} : save'[v] = save[v]
  OBVIOUS
<1>2. \A v \in Writers \ {w} : WriterInv(v)'
  BY <1>1, NullIsNothing DEF WriterInv
<1>3. QED
  BY <1>1, <1>2 DEF DiskHolds

(* A save that is refused goes back to its beginning.                       *)
LEMMA RefusedStep ==
  ASSUME ConfigurationInv, NEW w \in Writers, lock \in {NONE, w}, Config!Refused(w),
         UNCHANGED <<file, disk, promised>>,
         late' = late \/ (late' = FALSE /\ lock = w)
  PROVE  ConfigurationInv'
<1>1. save' = [save EXCEPT ![w] = Config!Idle] /\ lock' = NONE
  BY DEF Config!Refused
<1>2. WriterInv(w)'
  BY <1>1, IdleKnows DEF ConfigurationInv, ConfigurationType
<1>3. QED
  BY <1>1, <1>2, IdleType, QuietStep

(* A file that is given its name has all of its text by then.               *)
LEMMA StartUpStep ==
  ASSUME ConfigurationInv, NEW w \in Writers,
         Config!Start(w) \/ Config!LinkDefault(w) \/ Config!UnlinkCandidate(w)
  PROVE  ConfigurationInv'
<1> USE DEF ConfigurationInv, ConfigurationType
<1>1. CASE Config!Start(w)
  <2> DEFINE x == [save[w] EXCEPT !.pc = "link"]
  <2>1. x \in Saves /\ x.pc = "link"
    BY DEF Saves
  <2>2. save' = [save EXCEPT ![w] = x]
    BY <1>1 DEF Config!Start
  <2> HIDE DEF x
  <2>3. WriterInv(w)'
    BY <2>1, <2>2 DEF WriterInv
  <2>4. UNCHANGED <<file, disk, promised, lock, late>>
    BY <1>1 DEF Config!Start
  <2>5. QED
    BY <2>1, <2>2, <2>3, <2>4, QuietStep
<1>2. CASE Config!LinkDefault(w)
  <2>1. CASE file # NONE
    <3>1. /\ save' = [save EXCEPT ![w] = Config!Idle]
          /\ UNCHANGED <<file, disk, promised, lock, late>>
      BY <1>2, <2>1 DEF Config!LinkDefault
    <3>2. WriterInv(w)'
      BY <3>1, IdleKnows
    <3>3. QED
      BY <3>1, <3>2, IdleType, QuietStep
  <2>2. CASE file = NONE
    <3> DEFINE x == [save[w] EXCEPT !.pc = "unlink"]
    <3>1. x \in Saves /\ x.pc = "unlink"
      BY DEF Saves
    <3>2. /\ save' = [save EXCEPT ![w] = x] /\ UNCHANGED <<disk, lock, late, promised>>
          /\ file' = [doc |-> Config!Serialize(Config!Defaults), stamp |-> Config!Stamp,
                      links |-> 2, synced |-> TRUE]
      BY <1>2, <2>2 DEF Config!LinkDefault
    <3> HIDE DEF x
    <3>3. file' \in Files /\ file' # NONE
      <4>1. Config!Serialize(Config!Defaults) \in Documents /\ Config!Stamp \in Nat
        BY <2>2 DEF Config!Serialize, Config!Defaults, Documents, Config!Configs,
                    Config!Fields, Config!Stamp
      <4>2. file' \in Files
        BY <3>2, <4>1, WrittenFile
      <4>3. QED
        BY <4>2, NullIsNothing
    <3>4. save' \in [Writers -> Saves] /\ \A v \in Writers \ {w} : save'[v] = save[v]
      BY <3>1, <3>2
    <3>5. save'[w] = x
      BY <3>2
    <3>6. \A v \in Writers : WriterInv(v)'
      BY <2>2, <3>1, <3>2, <3>3, <3>4, <3>5 DEF WriterInv
    <3>7. DiskHolds'
      BY <2>2, <3>2, <3>3 DEF DiskHolds
    <3>8. QED
      BY <3>2, <3>3, <3>4, <3>6, <3>7
  <2>3. QED
    BY <2>1, <2>2
<1>3. CASE Config!UnlinkCandidate(w)
  <2>1. /\ file \in Files /\ file' = [file EXCEPT !.links = 1]
        /\ save' = [save EXCEPT ![w] = Config!Idle]
        /\ UNCHANGED <<disk, lock, late, promised>>
    BY <1>3 DEF Config!UnlinkCandidate
  <2>2. file' \in Files /\ file'.stamp = file.stamp /\ (file.links = 1 => file' = file)
    BY <2>1 DEF Files
  <2>3. file' # NONE
    BY <2>2, NullIsNothing
  <2>4. save' \in [Writers -> Saves] /\ \A v \in Writers \ {w} : save'[v] = save[v]
    BY <2>1, IdleType
  <2>5. ASSUME NEW v \in Writers \ {w} PROVE WriterInv(v)'
    BY <2>1, <2>2, <2>3, <2>4 DEF WriterInv
  <2>6. WriterInv(w)'
    BY <2>1, IdleKnows
  <2>7. DiskHolds'
    BY <2>1, <2>2, <2>3 DEF DiskHolds
  <2>8. QED
    BY <2>1, <2>2, <2>4, <2>5, <2>6, <2>7
<1>4. QED
  BY <1>1, <1>2, <1>3

(* What is shown, and what is then asked of a save.                         *)
LEMMA AskStep ==
  ASSUME ConfigurationInv, NEW w \in Writers,
         \/ \E kind \in Kinds : Config!Load(w, kind)
         \/ Config!SetSourceEnabled(w) \/ Config!SaveSettings(w)
  PROVE  ConfigurationInv'
<1> USE DEF ConfigurationInv, ConfigurationType
<1>0. UNCHANGED <<file, disk, promised, lock, late>> /\ save[w] \in Saves
  BY DEF Config!Load, Config!SetSourceEnabled, Config!SaveSettings
<1>1. ASSUME NEW x \in Saves, save' = [save EXCEPT ![w] = x],
             x.pc = "idle" \/ (x.pc = "shown" /\ x.seen \in Documents /\ x.kind \in Kinds)
                           \/ (x.pc = "lock" /\ AsAsked(x))
      PROVE  ConfigurationInv'
  <2>1. WriterInv(w)'
    BY <1>1 DEF WriterInv
  <2>2. QED
    BY <1>0, <1>1, <2>1, QuietStep
<1>2. ASSUME NEW kind \in Kinds, Config!Load(w, kind) PROVE ConfigurationInv'
  <2> DEFINE x == [Config!Idle EXCEPT !.pc = "shown", !.kind = kind, !.seen = file.doc]
  <2>1. file.doc \in Documents
    BY <1>2 DEF Config!Load, Config!Readable, Files
  <2>2. x \in Saves /\ x.pc = "shown" /\ x.seen = file.doc /\ x.kind = kind
    BY <2>1, IdleType DEF Saves
  <2>3. save' = [save EXCEPT ![w] = x]
    BY <1>2 DEF Config!Load
  <2> HIDE DEF x
  <2>4. QED
    BY <1>1, <2>1, <2>2, <2>3
<1>3. CASE Config!SetSourceEnabled(w)
  <2> DEFINE want == [save[w].seen.config EXCEPT !["sources"] = 1 - @]
             x == [save[w] EXCEPT !.pc = "lock", !.want = want, !.expected = save[w].seen]
  <2>1. save[w].seen \in Documents /\ save[w].kind = "toggle"
    BY <1>3 DEF Config!SetSourceEnabled, WriterInv
  <2>2. want \in Config!Configs
    BY <2>1 DEF Documents, Config!Configs, Config!Fields
  <2>3. save' = [save EXCEPT ![w] = x]
    BY <1>3 DEF Config!SetSourceEnabled
  <2> HIDE DEF want
  <2>4. /\ x \in Saves /\ x.pc = "lock" /\ x.want = want /\ x.expected = save[w].seen
        /\ x.seen = save[w].seen /\ x.kind = "toggle"
    BY <1>0, <2>1, <2>2 DEF Saves
  <2> HIDE DEF x
  <2>5. AsAsked(x)
    BY <2>1, <2>2, <2>4 DEF AsAsked, Kinds
  <2>6. QED
    BY <1>1, <2>3, <2>4, <2>5
<1>4. CASE Config!SaveSettings(w)
  <2>1. PICK form \in Config!Configs, complete \in BOOLEAN :
          /\ complete => save[w].kind = "setup"
          /\ save' = IF Config!Readable /\ Config!AsShown(w)
                     THEN [save EXCEPT ![w].pc = "lock",
                                       ![w].want = Config!Merged(w, form, complete),
                                       ![w].expected = file.doc]
                     ELSE [save EXCEPT ![w] = Config!Idle]
    BY <1>4, ZenonT(60) DEF Config!SaveSettings
  <2>2. CASE ~(Config!Readable /\ Config!AsShown(w))
    BY <1>1, <2>1, <2>2, IdleType
  <2>3. CASE Config!Readable /\ Config!AsShown(w)
    <3> DEFINE want == Config!Merged(w, form, complete)
               x == [save[w] EXCEPT !.pc = "lock", !.want = want, !.expected = file.doc]
    <3>1. file.doc \in Documents /\ file.doc.config \in Config!Configs
      BY <2>3 DEF Config!Readable, Files, Documents
    <3>2. want \in Config!Configs /\ (~complete => want["kept"] = file.doc.config["kept"])
      BY <3>1 DEF Config!Merged, Config!Configs, Config!Fields
    <3>3. save[w].kind \in {"settings", "setup"}
          /\ (save[w].kind = "setup" => file.doc = save[w].seen)
      BY <1>4, <2>3 DEF Config!SaveSettings, Config!AsShown
    <3>4. save' = [save EXCEPT ![w] = x]
      BY <2>1, <2>3
    <3> HIDE DEF want
    <3>5. /\ x \in Saves /\ x.pc = "lock" /\ x.want = want /\ x.expected = file.doc
          /\ x.seen = save[w].seen /\ x.kind = save[w].kind
      BY <1>0, <3>1, <3>2 DEF Saves
    <3> HIDE DEF x
    <3>6. AsAsked(x)
      BY <2>1, <3>1, <3>2, <3>3, <3>5 DEF AsAsked, Kinds
    <3>7. QED
      BY <1>1, <3>4, <3>5, <3>6
  <2>4. QED
    BY <2>2, <2>3
<1>5. QED
  BY <1>2, <1>3, <1>4

(* The steps of a save up to the replacement.                               *)
LEMMA SaveStep ==
  ASSUME ConfigurationInv, NEW w \in Writers,
         Config!LockAndRead(w) \/ Config!WriteTemporary(w) \/ Config!CheckLatest(w)
  PROVE  ConfigurationInv'
<1> USE DEF ConfigurationInv, ConfigurationType
<1>0. UNCHANGED <<file, disk, promised>> /\ save[w] \in Saves
  BY DEF Config!LockAndRead, Config!WriteTemporary, Config!CheckLatest
<1>1. CASE Config!LockAndRead(w)
  <2>1. CASE Config!Refused(w)
    BY <1>0, <1>1, <2>1, RefusedStep DEF Config!LockAndRead
  <2>2. CASE ~Config!Refused(w)
    <3> DEFINE x == [save[w] EXCEPT !.pc = "write", !.snapshot = file]
    <3>1. /\ lock = NONE /\ lock' = w /\ late' = late /\ save[w].pc = "lock"
          /\ Config!Readable /\ Config!ExpectedRevision(w)
          /\ save' = [save EXCEPT ![w] = x]
      BY <1>1, <2>2 DEF Config!LockAndRead
    <3>2. file \in Files /\ file.links = 1 /\ file.doc = save[w].expected /\ file # NONE
      BY <3>1 DEF Config!Readable, Config!ExpectedRevision
    <3>3. /\ x \in Saves /\ x.pc = "write" /\ x.snapshot = file /\ x.want = save[w].want
          /\ x.expected = save[w].expected /\ x.seen = save[w].seen /\ x.kind = save[w].kind
      BY <1>0 DEF Saves
    <3> HIDE DEF x
    <3>4. AsAsked(x)
      BY <3>1, <3>3 DEF WriterInv, AsAsked
    <3>5. WriterInv(w)'
      BY <1>0, <3>1, <3>2, <3>3, <3>4 DEF WriterInv
    <3>6. QED
      BY <1>0, <3>1, <3>3, <3>5, QuietStep
  <2>3. QED
    BY <2>1, <2>2
<1>2. ASSUME NEW next \in {"check", "replace"}, lock' = lock, lock = w,
             save' = [save EXCEPT ![w].pc = next], save[w].pc \in {"write", "check"},
             late' \in {late, FALSE}, next = "replace" => file = save[w].snapshot
      PROVE  ConfigurationInv'
  <2> DEFINE x == [save[w] EXCEPT !.pc = next]
  <2>1. save' = [save EXCEPT ![w] = x]
    BY <1>2
  <2>2. /\ x \in Saves /\ x.pc = next /\ x.snapshot = save[w].snapshot
        /\ x.want = save[w].want /\ x.expected = save[w].expected
        /\ x.seen = save[w].seen /\ x.kind = save[w].kind
    BY <1>0, <1>2 DEF Saves
  <2> HIDE DEF x
  <2>3. AsAsked(x)
    BY <1>2, <2>2 DEF WriterInv, AsAsked
  <2>4. WriterInv(w)'
    BY <1>0, <1>2, <2>1, <2>2, <2>3 DEF WriterInv
  <2>5. QED
    BY <1>0, <1>2, <2>1, <2>2, <2>4, QuietStep
<1>3. CASE Config!WriteTemporary(w)
  BY <1>0, <1>2, <1>3, RefusedStep DEF Config!WriteTemporary, WriterInv
<1>4. CASE Config!CheckLatest(w)
  BY <1>0, <1>2, <1>4, RefusedStep DEF Config!CheckLatest, Config!Untouched, WriterInv
<1>5. QED
  BY <1>1, <1>3, <1>4

(* The replacement: while it is not late, it replaces what was read.        *)
LEMMA ReplaceStep ==
  ASSUME ConfigurationInv, NEW w \in Writers, Config!Replace(w)
  PROVE  /\ ConfigurationInv'
         /\ ~late => /\ save[w].kind \in {"setup", "toggle"} => file.doc = save[w].seen
                     /\ save[w].kind = "settings" =>
                          file'.doc.config["kept"] = file.doc.config["kept"]
<1> USE DEF ConfigurationInv, ConfigurationType
<1>1. /\ save[w].pc = "replace" /\ lock = w /\ file \in Files /\ file # NONE
      /\ AsAsked(save[w]) /\ UNCHANGED <<disk, lock, late, promised>>
      /\ save[w] \in Saves
  BY DEF Config!Replace, WriterInv
<1>2. file' = [doc |-> Config!Serialize(save[w].want), stamp |-> file.stamp + 1, links |-> 1,
               synced |-> TRUE]
  BY <1>1 DEF Config!Replace, Config!Replacement, Config!Stamp
<1>3. Config!Serialize(save[w].want) \in Documents
      /\ Config!Serialize(save[w].want).config = save[w].want
  BY <1>1 DEF Config!Serialize, Documents, AsAsked
<1>4. /\ file' \in Files /\ file'.stamp = file.stamp + 1 /\ file.stamp \in Nat
      /\ file'.doc.config = save[w].want /\ file' # NONE
  <2>1. file.stamp \in Nat
    BY <1>1, FileFacts
  <2>2. file.stamp + 1 \in Nat
    BY <2>1
  <2> HIDE DEF ConfigurationInv, ConfigurationType
  <2>3. file' \in Files
    BY <1>2, <1>3, <2>2, WrittenFile
  <2>4. QED
    BY <1>2, <1>3, <2>1, <2>3, NullIsNothing
<1> DEFINE x == [save[w] EXCEPT !.pc = "sync", !.snapshot = file']
<1>5. save' = [save EXCEPT ![w] = x]
  BY DEF Config!Replace
<1>6. /\ x \in Saves /\ x.pc = "sync" /\ x.snapshot = file'
      /\ x.want = save[w].want /\ x.expected = save[w].expected
      /\ x.seen = save[w].seen /\ x.kind = save[w].kind
  BY <1>1, <1>4 DEF Saves
<1> HIDE DEF x
<1>7. /\ save' \in [Writers -> Saves] /\ save'[w] = x
      /\ \A v \in Writers \ {w} : save'[v] = save[v]
  BY <1>5, <1>6
<1>8. WriterInv(w)'
  BY <1>1, <1>4, <1>6, <1>7 DEF WriterInv, AsAsked
<1>9. \A v \in Writers \ {w} : WriterInv(v)'
  BY <1>1, <1>4, <1>7 DEF WriterInv
<1>10. DiskHolds'
  <2>1. disk # NONE => disk.stamp \in Nat /\ file.stamp >= disk.stamp
    BY FileFacts DEF DiskHolds
  <2>2. QED
    BY <1>1, <1>4, <2>1 DEF DiskHolds
<1>11. ASSUME ~late
       PROVE  /\ save[w].kind \in {"setup", "toggle"} => file.doc = save[w].seen
              /\ save[w].kind = "settings" =>
                   file'.doc.config["kept"] = file.doc.config["kept"]
  <2>1. file.doc = save[w].expected
    BY <1>1, <1>11 DEF WriterInv
  <2>2. QED
    BY <1>1, <1>4, <2>1 DEF AsAsked
<1>12. QED
  BY <1>1, <1>4, <1>7, <1>8, <1>9, <1>10, <1>11

(* The report of a save: what is promised is on the disk by then.           *)
LEMMA SyncStep ==
  ASSUME ConfigurationInv, NEW w \in Writers, Config!SyncParent(w)
  PROVE  ConfigurationInv'
<1> USE DEF ConfigurationInv, ConfigurationType
<1>1. /\ save[w].pc = "sync" /\ lock = w /\ file \in Files /\ file # NONE
      /\ save[w].snapshot \in Files /\ file.stamp >= save[w].snapshot.stamp
      /\ UNCHANGED <<file, late>> /\ Config!Refused(w)
  BY DEF Config!SyncParent, WriterInv
<1>2. CASE UNCHANGED <<disk, promised>>
  BY <1>1, <1>2, RefusedStep
<1>3. CASE disk' = file /\ promised' = save[w].snapshot.stamp
  <2>1. save' = [save EXCEPT ![w] = Config!Idle] /\ lock' = NONE
    BY <1>1 DEF Config!Refused
  <2>2. save' \in [Writers -> Saves] /\ \A v \in Writers \ {w} : save'[v] = save[v]
    BY <2>1, IdleType
  <2>3. WriterInv(w)'
    BY <2>1, IdleKnows
  <2>4. \A v \in Writers \ {w} : WriterInv(v)'
    BY <1>1, <2>1, <2>2 DEF WriterInv
  <2>5. DiskHolds' /\ promised' \in Nat
    BY <1>1, <1>3, FileFacts DEF DiskHolds
  <2>6. QED
    BY <1>1, <1>3, <2>1, <2>2, <2>3, <2>4, <2>5
<1>4. QED
  BY <1>2, <1>3 DEF Config!SyncParent, Config!Synced

(* The editor, a kill, and a power loss.                                    *)
LEMMA MishapStep ==
  ASSUME ConfigurationInv,
         Config!Edit \/ Config!PowerLoss \/ \E w \in Writers : Config!Kill(w)
  PROVE  ConfigurationInv'
<1> USE DEF ConfigurationInv, ConfigurationType
<1>1. CASE Config!Edit
  <2>1. PICK config \in Config!Configs :
          file' = [doc |-> [config |-> config, layout |-> "edited"], stamp |-> Config!Stamp,
                   links |-> 1, synced |-> TRUE]
    BY <1>1 DEF Config!Edit
  <2>2. /\ file \in Files /\ disk' = file' /\ UNCHANGED <<lock, save, promised>>
        /\ late' = \E w \in Writers : save[w].pc = "replace"
    BY <1>1 DEF Config!Edit
  <2>3. Config!Stamp = file.stamp + 1 /\ file.stamp \in Nat
    BY <2>2, NullIsNothing DEF Config!Stamp, Files
  <2>4. file' \in Files /\ file'.stamp = file.stamp + 1
    <3>1. \A values \in Config!Configs :
            [config |-> values, layout |-> "edited"] \in Documents
      BY DEF Documents
    <3>2. Config!Stamp \in Nat
      BY <2>3
    <3> HIDE DEF ConfigurationInv, ConfigurationType
    <3>3. file' \in Files
      BY <2>1, <3>1, <3>2, WrittenFile
    <3>4. QED
      BY <2>1, <2>3, <3>3
  <2>5. file' # NONE
    BY <2>4, NullIsNothing
  <2>6. \A w \in Writers : WriterInv(w)'
    <3>1. ASSUME NEW w \in Writers PROVE WriterInv(w)'
      <4>1. save[w].pc = "sync" => save[w].snapshot.stamp \in Nat
        BY FileFacts DEF WriterInv
      <4>2. save[w].pc = "sync" => file'.stamp >= save[w].snapshot.stamp
        BY <2>3, <2>4, <4>1 DEF WriterInv
      <4>3. QED
        BY <2>2, <2>5, <4>2 DEF WriterInv
    <3>2. QED
      BY <3>1
  <2>7. DiskHolds'
    <3>1. promised > 0 => disk # NONE /\ disk.stamp \in Nat /\ disk.stamp >= promised
      BY FileFacts DEF DiskHolds
    <3>2. disk # NONE => file.stamp >= disk.stamp
      BY DEF DiskHolds
    <3>3. promised > 0 => file'.stamp >= promised
      BY <2>3, <2>4, <3>1, <3>2
    <3>4. QED
      BY <2>2, <2>3, <2>4, <2>5, <3>3 DEF DiskHolds
  <2>8. QED
    BY <2>2, <2>4, <2>6, <2>7
<1>2. CASE Config!PowerLoss
  <2>1. PICK found \in {disk, file} :
          file' = IF found # NONE /\ ~found.synced
                  THEN [found EXCEPT !.doc = NONE, !.synced = TRUE] ELSE found
    BY <1>2 DEF Config!PowerLoss
  <2>2. file' = found
    BY <2>1, FileFacts
  <2>3. disk' = file' /\ UNCHANGED promised /\ lock' = NONE /\ late' = FALSE
    BY <1>2 DEF Config!PowerLoss
  <2>4. save' = [w \in Writers |-> Config!Idle]
    BY <1>2 DEF Config!PowerLoss
  <2>5. save' \in [Writers -> Saves] /\ \A w \in Writers : WriterInv(w)'
    BY <2>4, IdleType, IdleKnows
  <2>6. DiskHolds'
    <3>1. disk # NONE => disk.stamp \in Nat
      BY FileFacts
    <3>2. file # NONE => file.stamp \in Nat
      BY FileFacts
    <3>3. QED
      BY <2>1, <2>2, <2>3, <3>1, <3>2 DEF DiskHolds
  <2>7. QED
    BY <2>2, <2>3, <2>5, <2>6
<1>3. ASSUME NEW w \in Writers, Config!Kill(w) PROVE ConfigurationInv'
  <2>1. /\ save' = [save EXCEPT ![w] = Config!Idle] /\ UNCHANGED <<file, disk, late, promised>>
        /\ lock' = IF lock = w THEN NONE ELSE lock
    BY <1>3 DEF Config!Kill
  <2>2. WriterInv(w)'
    BY <2>1, IdleKnows
  <2>3. QED
    BY <2>1, <2>2, IdleType, QuietStep
<1>4. QED
  BY <1>1, <1>2, <1>3

(* Every step keeps the invariant, and replaces what it may.                *)
LEMMA ConfigurationStep ==
  ASSUME ConfigurationInv, [Config!Next]_(Config!vars)
  PROVE  ConfigurationInv' /\ Config!SavesKeepOthers
<1> USE DEF ConfigurationInv, ConfigurationType
<1>1. ASSUME \A w \in Writers : save[w].pc = "replace" => save'[w].pc # "sync"
      PROVE  Config!SavesKeepOthers
  BY <1>1 DEF Config!SavesKeepOthers, Config!Replaces
<1>2. CASE UNCHANGED Config!vars
  <2>1. ConfigurationInv'
    BY <1>2 DEF Config!vars, DiskHolds, WriterInv
  <2>2. QED
    BY <1>1, <1>2, <2>1 DEF Config!vars
<1>3. ASSUME NEW w \in Writers, Config!Replace(w)
      PROVE  ConfigurationInv' /\ Config!SavesKeepOthers
  <2>1. \A v \in Writers \ {w} : save'[v] = save[v]
    BY <1>3 DEF Config!Replace
  <2>2. \A v \in Writers \ {w} : ~Config!Replaces(v)
    BY <2>1 DEF Config!Replaces
  <2>3. QED
    BY <1>3, <2>2, ReplaceStep DEF Config!SavesKeepOthers
<1>4. ASSUME NEW w \in Writers, NEW x, save' = [save EXCEPT ![w] = x],
             x.pc # "sync"
      PROVE  Config!SavesKeepOthers
  <2>1. \A v \in Writers : save[v].pc = "replace" => save'[v].pc # "sync"
    BY <1>4
  <2>2. QED
    BY <1>1, <2>1
<1>5. ASSUME NEW w \in Writers,
             \/ Config!Start(w) \/ Config!LinkDefault(w) \/ Config!UnlinkCandidate(w)
      PROVE  ConfigurationInv' /\ Config!SavesKeepOthers
  <2>1. save[w] \in Saves /\ save[w].pc # "replace"
    BY <1>5 DEF Config!Start, Config!LinkDefault, Config!UnlinkCandidate
  <2>2. \A v \in Writers \ {w} : save'[v] = save[v]
    BY <1>5 DEF Config!Start, Config!LinkDefault, Config!UnlinkCandidate
  <2>3. QED
    BY <1>1, <1>5, <2>1, <2>2, StartUpStep
<1>6. ASSUME NEW w \in Writers,
             \/ \E kind \in Kinds : Config!Load(w, kind)
             \/ Config!SetSourceEnabled(w) \/ Config!SaveSettings(w)
      PROVE  ConfigurationInv' /\ Config!SavesKeepOthers
  <2>1. save[w] \in Saves /\ save[w].pc # "replace"
    BY <1>6 DEF Config!Load, Config!SetSourceEnabled, Config!SaveSettings
  <2>2. \A v \in Writers \ {w} : save'[v] = save[v]
    BY <1>6 DEF Config!Load, Config!SetSourceEnabled, Config!SaveSettings
  <2>3. QED
    BY <1>1, <1>6, <2>1, <2>2, AskStep
<1>7. ASSUME NEW w \in Writers,
             Config!LockAndRead(w) \/ Config!WriteTemporary(w) \/ Config!CheckLatest(w)
      PROVE  ConfigurationInv' /\ Config!SavesKeepOthers
  <2>1. save[w] \in Saves /\ save[w].pc # "replace"
    BY <1>7 DEF Config!LockAndRead, Config!WriteTemporary, Config!CheckLatest
  <2>2. \A v \in Writers \ {w} : save'[v] = save[v]
    BY <1>7 DEF Config!LockAndRead, Config!WriteTemporary, Config!CheckLatest, Config!Refused
  <2>3. QED
    BY <1>1, <1>7, <2>1, <2>2, SaveStep
<1>8. ASSUME NEW w \in Writers, Config!SyncParent(w)
      PROVE  ConfigurationInv' /\ Config!SavesKeepOthers
  <2>1. save' = [save EXCEPT ![w] = Config!Idle] /\ Config!Idle.pc # "sync"
    BY <1>8, IdleType DEF Config!SyncParent, Config!Refused
  <2>2. QED
    BY <1>4, <1>8, <2>1, SyncStep
<1>9. ASSUME Config!Edit \/ Config!PowerLoss \/ \E w \in Writers : Config!Kill(w)
      PROVE  ConfigurationInv' /\ Config!SavesKeepOthers
  <2>1. \A v \in Writers : save'[v] \in {save[v], Config!Idle}
    BY <1>9 DEF Config!Edit, Config!PowerLoss, Config!Kill
  <2>2. QED
    BY <1>1, <1>9, <2>1, IdleType, MishapStep
<1>10. QED
  BY <1>2, <1>3, <1>5, <1>6, <1>7, <1>8, <1>9 DEF Config!Next, Kinds

(* In every behaviour in which the configuration moves, its invariant holds.*)
LEMMA ConfigurationHolds == Spec => [](focus = "configuration" => ConfigurationInv)
<1>1. Init => (focus = "configuration" => ConfigurationInv)
  BY ConfigurationInit DEF Init
<1>2. (focus = "configuration" => ConfigurationInv) /\ [Next]_vars
        => (focus = "configuration" => ConfigurationInv)'
  BY FocusStays, ConfigurationMoves, ConfigurationStep
<1>3. QED
  BY <1>1, <1>2, PTL DEF Spec

(* A save that was reported is on the disk, whole, whatever crashes or loses*)
(* its power afterwards.                                                    *)
THEOREM ReportedSavesSurvive == Spec => []ReportedSurvives
<1>1. ConfigurationInv => Config!ReportedSurvives
  <2> SUFFICES ASSUME ConfigurationInv PROVE Config!ReportedSurvives
    OBVIOUS
  <2>1. file # NONE => file.doc # NONE
    BY NullIsNothing DEF ConfigurationInv, ConfigurationType, Files
  <2>2. QED
    BY <2>1 DEF Config!ReportedSurvives, ConfigurationInv, DiskHolds
<1>2. (focus = "configuration" => ConfigurationInv) => ReportedSurvives
  BY <1>1 DEF ReportedSurvives
<1>3. QED
  BY <1>2, ConfigurationHolds, PTL

(* A save takes back nothing that its user could not see, but what an editor*)
(* writes after its last look.                                              *)
THEOREM SavesKeepWhatOthersSaved == Spec => SavesKeepOthers
<1>1. (focus = "configuration" => ConfigurationInv) /\ [Next]_vars
        => [focus = "configuration" => Config!SavesKeepOthers]_vars
  BY ConfigurationMoves, ConfigurationStep
<1>2. QED
  BY <1>1, ConfigurationHolds, PTL DEF Spec, SavesKeepOthers

-----------------------------------------------------------------------------
(* The AGENTS file.                                                         *)

(* While the focus is on the AGENTS file, it moves alone.                   *)
LEMMA AgentsMoves ==
  ASSUME [Next]_vars, focus = "agents"
  PROVE  [Agents!Next]_(Agents!vars)
<1>1. CASE UNCHANGED vars
  BY <1>1 DEF vars, agentsVars, Agents!vars
<1>2. CASE Next
  BY <1>2 DEF Next, Agents!Next
<1>3. QED
  BY <1>1, <1>2

(* A document that an installer has changed may have more than one text of  *)
(* the owner on a side of the block.                                        *)
AgentsDocuments == [above : Seq(Texts), block : Agents!Blocks, below : Seq(Texts)]
AgentsFiles == [doc : AgentsDocuments, stamp : Nat]
Backups == [owned : BOOLEAN, links : {1, 2}]
Changes == [pc : {"idle", "backup", "link", "unlink", "check", "replace"},
            desired : AgentsDocuments \cup {NONE}, stamp : Nat, owned : BOOLEAN]

AgentsType ==
  /\ agents \in AgentsFiles \cup {NONE} /\ backup \in Backups \cup {NONE}
  /\ change \in [Installers -> Changes]
  /\ surprised \in SUBSET Installers /\ replaced \in BOOLEAN

(* What an installer knows: no file of a later identity is behind what it   *)
(* has read, and what it would write keeps the owner's text of the file, as *)
(* long as that is the one it has read. Past its last look that is so       *)
(* unless somebody has written since.                                       *)
InstallerInv(w) ==
  LET x == change[w] IN
  x.pc # "idle" =>
    /\ x.desired \in AgentsDocuments /\ x.stamp <= Agents!Identity
    /\ x.stamp = Agents!Identity =>
         Agents!OwnerText(x.desired) = Agents!OwnerText(Agents!Target)
    /\ x.pc = "replace" /\ w \notin surprised => x.stamp = Agents!Identity
    /\ x.pc \in {"unlink", "check", "replace"} => backup # NONE
    /\ ~replaced => x.owned

AgentsInv == AgentsType /\ Agents!BackupOfTheOwner /\ \A w \in Installers : InstallerInv(w)

(* Null is no file and no backup.                                           *)
LEMMA NullIsNoFile == NONE \notin AgentsFiles \cup Backups
BY AgentsAssumption DEF AgentsDocuments, AgentsFiles, Backups

(* A document that there is, and the one that stands for none.              *)
LEMMA TargetType ==
  ASSUME AgentsType
  PROVE  Agents!Target \in AgentsDocuments /\ Agents!Identity \in Nat
<1>1. Agents!Empty \in AgentsDocuments
  BY DEF Agents!Empty, AgentsDocuments, Agents!Blocks
<1>2. QED
  BY <1>1 DEF AgentsType, AgentsFiles, Agents!Target, Agents!Identity

(* What the owner may write is a document.                                  *)
LEMMA OwnersDocuments == Agents!Documents \subseteq AgentsDocuments
<1>1. ASSUME NEW t \in Texts PROVE <<t>> \in Seq(Texts)
  OBVIOUS
<1>2. Agents!Pieces \subseteq Seq(Texts)
  <2>1. <<>> \in Seq(Texts)
    OBVIOUS
  <2>2. ASSUME NEW p \in Agents!Pieces PROVE p = <<>> \/ \E t \in Texts : p = <<t>>
    BY DEF Agents!Pieces
  <2>3. QED
    BY <1>1, <2>1, <2>2
<1>3. QED
  BY <1>2 DEF Agents!Documents, AgentsDocuments

(* Installing and removing keep what the owner wrote, in its order.         *)
LEMMA OwnerTextStays ==
  ASSUME NEW doc \in AgentsDocuments, NEW w \in Installers,
         NEW desired \in {Agents!Installed(doc, Launcher[w]), Agents!Removed(doc)}
  PROVE  desired \in AgentsDocuments /\ Agents!OwnerText(desired) = Agents!OwnerText(doc)
<1>1. doc.above \in Seq(Texts) /\ doc.below \in Seq(Texts)
  BY DEF AgentsDocuments
<1>2. Agents!OwnerText(doc) \in Seq(Texts)
  BY <1>1 DEF Agents!OwnerText
<1>3. Agents!OwnerText(doc) \o <<>> = Agents!OwnerText(doc) /\ <<>> \in Seq(Texts)
  BY <1>2
<1>4. ASSUME NEW block \in Agents!Blocks,
             desired = [above |-> Agents!OwnerText(doc), block |-> block, below |-> <<>>]
      PROVE  desired \in AgentsDocuments /\ Agents!OwnerText(desired) = Agents!OwnerText(doc)
  <2>1. desired \in AgentsDocuments
    BY <1>2, <1>3, <1>4 DEF AgentsDocuments
  <2>2. Agents!OwnerText(desired) = Agents!OwnerText(doc) \o <<>>
    BY <1>4 DEF Agents!OwnerText
  <2>3. QED
    BY <1>3, <2>1, <2>2
<1>5. ASSUME NEW block \in Agents!Blocks, desired = [doc EXCEPT !.block = block]
      PROVE  desired \in AgentsDocuments /\ Agents!OwnerText(desired) = Agents!OwnerText(doc)
  <2>1. desired \in AgentsDocuments /\ desired.above = doc.above /\ desired.below = doc.below
    BY <1>5 DEF AgentsDocuments
  <2>2. QED
    BY <2>1 DEF Agents!OwnerText
<1>6. NONE \in Agents!Blocks /\ Launcher[w] \in Agents!Blocks
  BY DEF Agents!Blocks
<1>7. QED
  BY <1>4, <1>5, <1>6 DEF Agents!Installed, Agents!Removed

(* An installer at rest.                                                    *)
LEMMA AtRest ==
  /\ Agents!Resting \in Changes /\ Agents!Resting.pc = "idle"
  /\ \A w \in Installers : change'[w] = Agents!Resting => InstallerInv(w)'
BY DEF Agents!Resting, Changes, InstallerInv

(* There is no file yet, and nobody is about to change it.                  *)
LEMMA AgentsInit == Agents!Init => AgentsInv
<1> SUFFICES ASSUME Agents!Init PROVE AgentsInv
  OBVIOUS
<1>1. AgentsType /\ \A w \in Installers : change[w].pc = "idle"
  BY AtRest DEF Agents!Init, AgentsType
<1>2. QED
  BY <1>1 DEF Agents!Init, AgentsInv, InstallerInv, Agents!BackupOfTheOwner

(* A step of one installer that leaves the file and the backup.             *)
LEMMA QuietChange ==
  ASSUME AgentsInv, NEW w \in Installers, NEW x \in Changes,
         UNCHANGED <<agents, backup, replaced>>, change' = [change EXCEPT ![w] = x],
         surprised' = surprised \/ surprised' = surprised \ {w}, InstallerInv(w)'
  PROVE  AgentsInv' /\ Agents!OwnerTextKept
<1>1. change' \in [Installers -> Changes] /\ \A v \in Installers \ {w} : change'[v] = change[v]
  BY DEF AgentsInv, AgentsType
<1>2. \A v \in Installers \ {w} : InstallerInv(v)'
  BY <1>1 DEF AgentsInv, InstallerInv, Agents!Identity, Agents!Target
<1>3. AgentsType'
  BY <1>1 DEF AgentsInv, AgentsType
<1>4. QED
  BY <1>2, <1>3 DEF AgentsInv, Agents!BackupOfTheOwner, Agents!OwnerTextKept

(* A change of the file by one who gives it a new identity: nobody who has  *)
(* read the one before takes it for that.                                   *)
LEMMA FileMoves ==
  ASSUME AgentsInv, NEW doc \in AgentsDocuments,
         agents' = [doc |-> doc, stamp |-> Agents!Identity + 1],
         NEW v \in Installers, change'[v] = change[v],
         change[v].pc = "replace" => v \in surprised',
         backup' = backup, replaced' = replaced \/ replaced'
  PROVE  InstallerInv(v)'
<1>1. Agents!Identity \in Nat /\ change[v].stamp \in Nat
  BY TargetType DEF AgentsInv, AgentsType, Changes
<1>2. agents' \in AgentsFiles
  BY <1>1 DEF AgentsFiles
<1>3. Agents!Identity' = Agents!Identity + 1
  BY <1>2, NullIsNoFile DEF Agents!Identity
<1>4. QED
  BY <1>1, <1>3 DEF AgentsInv, InstallerInv

(* Reading the file and deciding what to write, and the look before.        *)
LEMMA PrepareStep ==
  ASSUME AgentsInv, NEW w \in Installers,
         \/ Agents!Change(w) \/ Agents!CheckBackup(w) \/ Agents!CheckTarget(w)
         \/ Agents!Kill(w)
  PROVE  AgentsInv' /\ Agents!OwnerTextKept
<1> USE DEF AgentsInv, AgentsType
<1>1. CASE Agents!Change(w)
  <2>1. PICK desired \in {Agents!Installed(Agents!Target, Launcher[w]),
                          Agents!Removed(Agents!Target)} :
          change' = [change EXCEPT ![w] = [pc |-> "backup", desired |-> desired,
                                           stamp |-> Agents!Identity, owned |-> ~replaced]]
    BY <1>1 DEF Agents!Change
  <2> DEFINE x == [pc |-> "backup", desired |-> desired,
                   stamp |-> Agents!Identity, owned |-> ~replaced]
  <2>2. /\ desired \in AgentsDocuments /\ Agents!Identity \in Nat
        /\ Agents!OwnerText(desired) = Agents!OwnerText(Agents!Target)
    BY TargetType, OwnerTextStays
  <2>3. /\ x \in Changes /\ x.pc = "backup" /\ x.desired = desired
        /\ x.stamp = Agents!Identity /\ x.owned = ~replaced
    BY <2>2 DEF Changes
  <2>4. change' = [change EXCEPT ![w] = x]
    BY <2>1
  <2> HIDE DEF x
  <2>5. UNCHANGED <<agents, backup, surprised, replaced>>
    BY <1>1 DEF Agents!Change
  <2>6. change'[w] = x /\ Agents!Identity' = Agents!Identity /\ Agents!Target' = Agents!Target
    BY <2>4, <2>5 DEF Agents!Identity, Agents!Target
  <2>7. InstallerInv(w)'
    <3>1. change'[w].stamp <= Agents!Identity'
      BY <2>2, <2>3, <2>6
    <3>2. Agents!OwnerText(change'[w].desired) = Agents!OwnerText(Agents!Target')
      BY <2>2, <2>3, <2>6
    <3>3. QED
      BY <2>2, <2>3, <2>5, <2>6, <3>1, <3>2 DEF InstallerInv
  <2>8. QED
    BY <2>3, <2>4, <2>5, <2>7, QuietChange
<1>2. ASSUME change' = [change EXCEPT ![w] = Agents!Resting],
             UNCHANGED <<agents, backup, surprised, replaced>>
      PROVE  AgentsInv' /\ Agents!OwnerTextKept
  BY <1>2, AtRest, QuietChange
<1>3. ASSUME NEW next \in {"link", "check", "replace"}, change[w].pc \in {"backup", "check"},
             change' = [change EXCEPT ![w].pc = next],
             UNCHANGED <<agents, backup, replaced>>,
             next # "link" => backup # NONE,
             IF next = "replace" THEN /\ change[w].stamp = Agents!Identity
                                      /\ surprised' = surprised \ {w}
                                 ELSE surprised' = surprised
      PROVE  AgentsInv' /\ Agents!OwnerTextKept
  <2> DEFINE x == [change[w] EXCEPT !.pc = next]
  <2>1. change' = [change EXCEPT ![w] = x]
    BY <1>3
  <2>2. /\ x \in Changes /\ x.pc = next /\ x.desired = change[w].desired
        /\ x.stamp = change[w].stamp /\ x.owned = change[w].owned
    BY DEF Changes
  <2> HIDE DEF x
  <2>3. InstallerInv(w)'
    BY <1>3, <2>1, <2>2 DEF InstallerInv, Agents!Identity, Agents!Target
  <2>4. QED
    BY <1>3, <2>1, <2>2, <2>3, QuietChange
<1>4. CASE Agents!CheckBackup(w)
  BY <1>2, <1>3, <1>4 DEF Agents!CheckBackup, Agents!BackupKept
<1>5. CASE Agents!CheckTarget(w)
  <2>1. CASE Agents!TargetUnchanged(w) /\ change' = [change EXCEPT ![w].pc = "replace"]
             /\ surprised' = surprised \ {w}
    BY <1>3, <1>5, <2>1 DEF Agents!CheckTarget, Agents!TargetUnchanged, InstallerInv
  <2>2. QED
    BY <1>2, <1>5, <2>1 DEF Agents!CheckTarget
<1>6. CASE Agents!Kill(w)
  BY <1>2, <1>6 DEF Agents!Kill
<1>7. QED
  BY <1>1, <1>4, <1>5, <1>6

(* The backup is given its name, and loses the temporary one. Only who      *)
(* began before every replacement finds none.                               *)
LEMMA BackupStep ==
  ASSUME AgentsInv, NEW w \in Installers,
         Agents!LinkBackup(w) \/ Agents!UnlinkTemporary(w)
  PROVE  AgentsInv' /\ Agents!OwnerTextKept
<1> USE DEF AgentsInv, AgentsType
<1>1. CASE change' = [change EXCEPT ![w] = Agents!Resting]
           /\ UNCHANGED <<agents, backup, surprised, replaced>>
  BY <1>1, AtRest, QuietChange
<1>2. ASSUME NEW next \in {"unlink", "check"}, change[w].pc \in {"link", "unlink"},
             change' = [change EXCEPT ![w].pc = next],
             UNCHANGED <<agents, surprised, replaced>>, backup' \in Backups, backup'.owned
      PROVE  AgentsInv' /\ Agents!OwnerTextKept
  <2> DEFINE x == [change[w] EXCEPT !.pc = next]
  <2>1. change' = [change EXCEPT ![w] = x]
    BY <1>2
  <2>2. /\ x \in Changes /\ x.pc = next /\ x.desired = change[w].desired
        /\ x.stamp = change[w].stamp /\ x.owned = change[w].owned
    BY <1>2 DEF Changes
  <2> HIDE DEF x
  <2>3. change' \in [Installers -> Changes] /\ \A v \in Installers \ {w} : change'[v] = change[v]
    BY <2>1, <2>2
  <2>4. backup' # NONE
    BY <1>2, NullIsNoFile
  <2>5. InstallerInv(w)'
    BY <1>2, <2>1, <2>2, <2>4 DEF InstallerInv, Agents!Identity, Agents!Target
  <2>6. \A v \in Installers \ {w} : InstallerInv(v)'
    BY <1>2, <2>3, <2>4 DEF InstallerInv, Agents!Identity, Agents!Target
  <2>7. QED
    BY <1>2, <2>3, <2>4, <2>5, <2>6 DEF Agents!BackupOfTheOwner, Agents!OwnerTextKept
<1>3. CASE Agents!LinkBackup(w) /\ backup = NONE
           /\ backup' = [owned |-> change[w].owned, links |-> 2]
           /\ change' = [change EXCEPT ![w].pc = "unlink"]
  <2>1. change[w].owned
    BY <1>3 DEF Agents!LinkBackup, Agents!BackupOfTheOwner, InstallerInv
  <2>2. backup' \in Backups /\ backup'.owned
    BY <1>3, <2>1 DEF Backups
  <2>3. QED
    BY <1>2, <1>3, <2>2 DEF Agents!LinkBackup
<1>4. CASE Agents!UnlinkTemporary(w)
  <2>1. backup \in Backups /\ backup.owned
    BY <1>4 DEF Agents!UnlinkTemporary, InstallerInv, Agents!BackupOfTheOwner
  <2>2. backup' \in Backups /\ backup'.owned
    BY <1>4, <2>1 DEF Agents!UnlinkTemporary, Backups
  <2>3. QED
    BY <1>2, <1>4, <2>2 DEF Agents!UnlinkTemporary
<1>5. QED
  BY <1>1, <1>3, <1>4 DEF Agents!LinkBackup, Agents!BackupKept

(* The file is replaced, or its owner writes it.                            *)
LEMMA FileStep ==
  ASSUME AgentsInv, Agents!Edit \/ \E w \in Installers : Agents!Replace(w)
  PROVE  AgentsInv' /\ Agents!OwnerTextKept
<1> USE DEF AgentsInv, AgentsType
<1>0. \A doc \in AgentsDocuments :
        agents' = [doc |-> doc, stamp |-> Agents!Identity + 1] => agents' \in AgentsFiles
  BY TargetType DEF AgentsFiles
<1>1. CASE Agents!Edit
  <2>1. PICK doc \in AgentsDocuments : agents' = [doc |-> doc, stamp |-> Agents!Identity + 1]
    BY <1>1, OwnersDocuments DEF Agents!Edit
  <2>2. /\ UNCHANGED <<backup, change, replaced>>
        /\ surprised' = {w \in Installers : change[w].pc = "replace"}
    BY <1>1 DEF Agents!Edit
  <2>3. \A w \in Installers : InstallerInv(w)'
    BY <2>1, <2>2, FileMoves
  <2>4. AgentsType'
    BY <1>0, <2>1, <2>2
  <2>5. QED
    BY <2>2, <2>3, <2>4 DEF Agents!BackupOfTheOwner, Agents!OwnerTextKept
<1>2. ASSUME NEW w \in Installers, Agents!Replace(w)
      PROVE  AgentsInv' /\ Agents!OwnerTextKept
  <2>1. /\ change[w].pc = "replace" /\ change[w].desired \in AgentsDocuments
        /\ agents' = [doc |-> change[w].desired, stamp |-> Agents!Identity + 1]
        /\ change' = [change EXCEPT ![w] = Agents!Resting]
        /\ surprised' = {v \in Installers \ {w} : change[v].pc = "replace"}
        /\ replaced' = TRUE /\ backup' = backup /\ backup # NONE
    BY <1>2 DEF Agents!Replace, InstallerInv
  <2>2. change' \in [Installers -> Changes] /\ \A v \in Installers \ {w} : change'[v] = change[v]
    BY <2>1, AtRest
  <2>3. \A v \in Installers \ {w} : InstallerInv(v)'
    BY <2>1, <2>2, FileMoves
  <2>4. InstallerInv(w)'
    BY <2>1, AtRest
  <2>5. AgentsType'
    BY <1>0, <2>1, <2>2
  <2>6. w \notin surprised => Agents!OwnerText(agents'.doc) = Agents!OwnerText(Agents!Target)
    BY <2>1 DEF InstallerInv
  <2>7. \A v \in Installers \ {w} : ~(change[v].pc = "replace" /\ change'[v].pc = "idle")
    BY <2>2
  <2>8. QED
    BY <2>1, <2>3, <2>4, <2>5, <2>6, <2>7
       DEF Agents!BackupOfTheOwner, Agents!OwnerTextKept
<1>3. QED
  BY <1>1, <1>2

(* Every step keeps the invariant, and the text of the owner.               *)
LEMMA AgentsStep ==
  ASSUME AgentsInv, [Agents!Next]_(Agents!vars)
  PROVE  AgentsInv' /\ Agents!OwnerTextKept
<1>1. CASE UNCHANGED Agents!vars
  BY <1>1 DEF Agents!vars, AgentsInv, AgentsType, InstallerInv, Agents!Identity,
              Agents!Target, Agents!BackupOfTheOwner, Agents!OwnerTextKept
<1>2. QED
  BY <1>1, PrepareStep, BackupStep, FileStep DEF Agents!Next

(* In every behaviour in which the AGENTS file moves, its invariant holds.  *)
LEMMA AgentsHolds == Spec => [](focus = "agents" => AgentsInv)
<1>1. Init => (focus = "agents" => AgentsInv)
  BY AgentsInit DEF Init
<1>2. (focus = "agents" => AgentsInv) /\ [Next]_vars => (focus = "agents" => AgentsInv)'
  BY FocusStays, AgentsMoves, AgentsStep
<1>3. QED
  BY <1>1, <1>2, PTL DEF Spec

(* However many processes install, update and remove the block beside an    *)
(* editor, and wherever they are killed: a replacement keeps the text of the *)
(* owner that it replaces, unless that was written after the last look, and *)
(* the backup is what the owner had before the first.                       *)
THEOREM OwnersTextIsKept == Spec => OwnerTextKept
<1>1. (focus = "agents" => AgentsInv) /\ [Next]_vars
        => [focus = "agents" => Agents!OwnerTextKept /\ Agents!BackupOfTheOwner']_vars
  <2> SUFFICES ASSUME focus = "agents" => AgentsInv, [Next]_vars, focus = "agents"
               PROVE  Agents!OwnerTextKept /\ Agents!BackupOfTheOwner'
    OBVIOUS
  <2>1. QED
    BY AgentsMoves, AgentsStep DEF AgentsInv
<1>2. QED
  BY <1>1, AgentsHolds, PTL DEF Spec, OwnerTextKept

-----------------------------------------------------------------------------
(* The broker.                                                              *)

(* While the focus is on the broker, it moves alone.                        *)
LEMMA BrokerMoves ==
  ASSUME [Next]_vars, focus = "broker"
  PROVE  [Broker!Next]_(Broker!vars)
<1>1. CASE UNCHANGED vars
  BY <1>1 DEF vars, brokerVars, Broker!vars
<1>2. CASE Next
  BY <1>2 DEF Next, Broker!Next
<1>3. QED
  BY <1>1, <1>2

(* The codes of results and of errors.                                      *)
Codes == {"request_too_large", "invalid_json", "invalid_request", "method_not_found",
          "already_initialized", "not_initialized", "invalid_params", "result",
          "tool", "queued", "duplicate"}

BrokerType ==
  /\ asked \in Seq(Broker!Lines)
  /\ state \in {"line", "drain", "refuse", "handle", "end"}
  /\ initializeSeen \in BOOLEAN /\ initialized \in BOOLEAN
  /\ answers \in Seq([to : Nat, code : Codes])

(* The line in hand was measured right, however it was read: it is drained  *)
(* or refused exactly if what the client wrote is too long.                 *)
Measured ==
  /\ state \in {"drain", "refuse", "handle"} => Len(asked) > 0
  /\ state \in {"drain", "refuse"} => Broker!Line.size > MaxLine
  /\ state = "handle" => Broker!Line.size <= MaxLine

(* What the broker remembers of the handshake is what the lines before the  *)
(* next one to be answered say of it.                                       *)
Remembered ==
  /\ initializeSeen <=> Broker!Accepted(Broker!Done + 1)
  /\ initialized <=> Broker!Ready(Broker!Done + 1)

BrokerInv == BrokerType /\ Measured /\ Remembered /\ Broker!OneAnswerPerLine

(* What a client may write: a lineOf has an id, and of the lines without   *)
(* one only those that cannot be read are owed an answer.                   *)
LEMMA LineFacts ==
  ASSUME NEW line \in Broker!Lines
  PROVE  /\ line.size \in Nat /\ line.ending \in 0..2
         /\ line.id \in BOOLEAN /\ line.good \in BOOLEAN
         /\ line.method \in {"initialize", "ping", "capture_pending",
              "reconcile_if_due", "initialized", "unknown", "invalid_request",
              "invalid_json"}
         /\ line.id => line.method \notin {"initialized", "invalid_request", "invalid_json"}
         /\ ~line.id => line.method \in {"initialized", "unknown", "invalid_request",
                                         "invalid_json"}
<1> DEFINE Says(methods, ids) ==
             /\ line.size \in Nat /\ line.ending \in 0..2
             /\ line.method \in methods /\ line.id \in ids /\ line.good \in BOOLEAN
<1>1. ASSUME NEW methods, NEW ids, NEW good \in SUBSET BOOLEAN, NEW items,
             line \in Broker!Messages(methods, ids, good, items)
      PROVE  Says(methods, ids)
  BY <1>1 DEF Broker!Messages
<1>2. line \in [size : 1..(2 * MaxLine + 3), ending : 0..2, method : {"ping"}, id : {TRUE},
                good : {TRUE}, item : {"none"}] => Says({"ping"}, {TRUE})
  <2>1. ASSUME NEW sizes \in SUBSET Nat, NEW yes \in SUBSET BOOLEAN,
               line \in [size : sizes, ending : 0..2, method : {"ping"}, id : yes,
                         good : yes, item : {"none"}]
        PROVE  Says({"ping"}, yes)
    BY <2>1
  <2>2. 1..(2 * MaxLine + 3) \in SUBSET Nat /\ {TRUE} \in SUBSET BOOLEAN
    BY BrokerAssumption
  <2> HIDE DEF Says
  <2>3. QED
    BY <2>1, <2>2
<1>3. {TRUE} \in SUBSET BOOLEAN /\ {FALSE} \in SUBSET BOOLEAN /\ BOOLEAN \in SUBSET BOOLEAN
  OBVIOUS
<1> HIDE DEF Says
<1>4. \/ Says(Broker!Methods, {TRUE}) \/ Says({"capture_pending"}, {TRUE})
      \/ Says({"initialized"}, {FALSE}) \/ Says({"unknown"}, BOOLEAN)
      \/ Says({"invalid_request", "invalid_json"}, {FALSE}) \/ Says({"ping"}, {TRUE})
  BY <1>1, <1>2, <1>3 DEF Broker!Lines
<1>5. CASE \/ Says(Broker!Methods, {TRUE}) \/ Says({"capture_pending"}, {TRUE})
           \/ Says({"ping"}, {TRUE})
  BY <1>5 DEF Says, Broker!Methods, Broker!Tools
<1>6. CASE \/ Says({"initialized"}, {FALSE}) \/ Says({"unknown"}, BOOLEAN)
           \/ Says({"invalid_request", "invalid_json"}, {FALSE})
  BY <1>6 DEF Says
<1>7. QED
  BY <1>4, <1>5, <1>6

(* The number of lines that are done.                                       *)
LEMMA DoneType ==
  ASSUME BrokerType, Measured
  PROVE  /\ Broker!Done \in 0..Len(asked) /\ Len(asked) \in Nat
         /\ state \in {"line", "end"} => Broker!Done = Len(asked)
         /\ state \notin {"line", "end"} => Broker!Done + 1 = Len(asked)
  BY DEF BrokerType, Measured, Broker!Done

(* What a line is owed depends on it and on those before it only.           *)
LEMMA OwedStays ==
  ASSUME BrokerType, NEW line \in Broker!Lines, asked' = Append(asked, line),
         NEW k \in 1..(Len(asked) + 1)
  PROVE  /\ Broker!Accepted(k)' <=> Broker!Accepted(k)
         /\ Broker!Ready(k)' <=> Broker!Ready(k)
         /\ k <= Len(asked) => /\ asked'[k] = asked[k]
                               /\ Broker!Owed(k)' = Broker!Owed(k)
<1>1. \A i \in 1..Len(asked) : asked'[i] = asked[i]
  BY DEF BrokerType
<1>2. Len(asked) \in Nat
  BY DEF BrokerType
<1>3. \A j \in 1..(Len(asked) + 1) : Broker!Accepted(j)' <=> Broker!Accepted(j)
  BY <1>1, <1>2 DEF Broker!Accepted
<1>4. Broker!Ready(k)' <=> Broker!Ready(k)
  BY <1>1, <1>2, <1>3 DEF Broker!Ready
<1>5. k <= Len(asked) => Broker!Owed(k)' = Broker!Owed(k)
  <2> SUFFICES ASSUME k <= Len(asked) PROVE Broker!Owed(k)' = Broker!Owed(k)
    OBVIOUS
  <2>1. asked'[k] = asked[k]
    BY <1>1, <1>2
  <2>2. Broker!Accepted(k)' = Broker!Accepted(k) /\ Broker!Ready(k)' = Broker!Ready(k)
    BY <1>3, <1>4 DEF Broker!Accepted, Broker!Ready
  <2>3. QED
    BY <2>1, <2>2, Zenon DEF Broker!Owed
<1>6. QED
  BY <1>1, <1>3, <1>4, <1>5

(* What is remembered once the line in hand is done with.                   *)
LEMMA HandshakeGrows ==
  ASSUME BrokerInv, state \in {"refuse", "handle"}, state' \in {"line", "end"},
         asked' = asked
  PROVE  /\ Broker!Accepted(Broker!Done + 1)' <=>
              \/ initializeSeen
              \/ /\ Broker!Line.method = "initialize" /\ Broker!Line.good
                 /\ Broker!Line.size <= MaxLine
         /\ Broker!Ready(Broker!Done + 1)' <=>
              \/ initialized
              \/ /\ Broker!Line.method = "initialized" /\ Broker!Line.good
                 /\ Broker!Line.size <= MaxLine /\ initializeSeen
<1> DEFINE n == Len(asked)
<1>1. /\ n \in Nat /\ n > 0 /\ Broker!Done + 1 = n
      /\ (Broker!Done + 1)' = n + 1 /\ Broker!Line = asked[n]
  BY DoneType DEF BrokerInv, BrokerType, Measured, Broker!Done, Broker!Line
<1>2. /\ Broker!Accepted(n)' <=> Broker!Accepted(n)
      /\ Broker!Ready(n)' <=> Broker!Ready(n)
  BY DEF Broker!Accepted, Broker!Ready
<1>3. /\ initializeSeen <=> Broker!Accepted(n)
      /\ initialized <=> Broker!Ready(n)
  BY <1>1 DEF BrokerInv, Remembered
<1>4. Broker!Accepted(Broker!Done + 1)' <=>
        \E i \in 1..n : /\ asked[i].method = "initialize" /\ asked[i].good
                        /\ asked[i].size <= MaxLine
  BY <1>1 DEF Broker!Accepted
<1>5. Broker!Ready(Broker!Done + 1)' <=>
        \E j \in 1..n : /\ asked[j].method = "initialized" /\ asked[j].good
                        /\ asked[j].size <= MaxLine /\ Broker!Accepted(j)
  BY <1>1 DEF Broker!Ready, Broker!Accepted
<1> HIDE DEF n
<1>6. \A i : i \in 1..n <=> i \in 1..(n - 1) \/ i = n
  BY <1>1
<1>7. QED
  BY <1>1, <1>3, <1>4, <1>5, <1>6 DEF Broker!Accepted, Broker!Ready

(* The answer that the line in hand is owed comes after all others.         *)
LEMMA Answered ==
  ASSUME BrokerInv, state \in {"refuse", "handle"}, state' \in {"line", "end"},
         asked' = asked, Broker!IsRequest(Broker!Line),
         NEW to \in Nat, NEW code \in Codes, Broker!Answer(to, code),
         <<to, code>> \in Broker!Owed(Len(asked))
  PROVE  /\ answers' \in Seq([to : Nat, code : Codes])
         /\ Broker!OneAnswerPerLine'
<1>0. PICK n, old : n = Len(asked) /\ old = Len(answers)
  OBVIOUS
<1>1. /\ n \in Nat /\ n > 0 /\ Broker!Done = n - 1
      /\ (Broker!Done)' = n /\ Broker!Line = asked[n]
  BY <1>0, DoneType DEF BrokerInv, BrokerType, Measured, Broker!Done, Broker!Line
<1>2. /\ answers' = Append(answers, [to |-> to, code |-> code])
      /\ answers \in Seq([to : Nat, code : Codes])
  BY DEF Broker!Answer, BrokerInv, BrokerType
<1>3. /\ answers' \in Seq([to : Nat, code : Codes])
      /\ old \in Nat /\ Len(answers') = old + 1
      /\ DOMAIN answers = 1..old /\ DOMAIN answers' = 1..(old + 1)
      /\ \A i \in 1..old : answers'[i] = answers[i]
      /\ answers'[old + 1] = [to |-> to, code |-> code]
  BY <1>0, <1>2
<1>4. PICK lineOf \in [DOMAIN answers -> 1..(n - 1)] : Broker!AnswersTo(lineOf)
  BY <1>1 DEF BrokerInv, Broker!OneAnswerPerLine
<1> DEFINE longer == [i \in 1..(old + 1) |-> IF i = old + 1 THEN n ELSE lineOf[i]]
<1>5. /\ longer \in [DOMAIN answers' -> 1..n] /\ longer[old + 1] = n
      /\ \A i \in 1..old : longer[i] = lineOf[i] /\ lineOf[i] \in 1..(n - 1)
  <2>1. \A i \in 1..old : lineOf[i] \in 1..(n - 1)
    BY <1>3, <1>4
  <2>2. QED
    BY <1>1, <1>3, <2>1, SMTT(60)
<1>6. \A k \in 1..n : Broker!Owed(k)' = Broker!Owed(k)
  BY DEF Broker!Owed, Broker!Accepted, Broker!Ready
<1> HIDE DEF longer
<1>7. /\ \A i, j \in 1..old : i < j => lineOf[i] < lineOf[j]
      /\ \A k \in 1..(n - 1) : Broker!IsRequest(asked[k]) <=> \E i \in 1..old : lineOf[i] = k
      /\ \A i \in 1..old : <<answers[i].to, answers[i].code>> \in Broker!Owed(lineOf[i])
  BY <1>1, <1>3, <1>4 DEF Broker!AnswersTo
<1>8. \A i, j \in 1..(old + 1) : i < j => longer[i] < longer[j]
  <2> SUFFICES ASSUME NEW i \in 1..(old + 1), NEW j \in 1..(old + 1), i < j
               PROVE  longer[i] < longer[j]
    OBVIOUS
  <2>1. i \in 1..old /\ longer[i] = lineOf[i] /\ lineOf[i] \in 1..(n - 1)
    BY <1>3, <1>5
  <2>2. CASE j = old + 1
    BY <1>1, <1>5, <2>1, <2>2
  <2>3. CASE j \in 1..old
    BY <1>5, <1>7, <2>1, <2>3
  <2>4. QED
    BY <1>3, <2>2, <2>3
<1>9. \A k \in 1..n : Broker!IsRequest(asked[k]) <=> \E i \in 1..(old + 1) : longer[i] = k
  <2> TAKE k \in 1..n
  <2>1. CASE k = n
    BY <1>1, <1>3, <1>5, <2>1
  <2>2. CASE k \in 1..(n - 1)
    <3>1. (\E i \in 1..(old + 1) : longer[i] = k) <=> \E i \in 1..old : longer[i] = k
      <4>1. longer[old + 1] # k /\ \A i \in 1..(old + 1) : i = old + 1 \/ i \in 1..old
        BY <1>1, <1>3, <1>5, <2>2
      <4>2. \A i \in 1..old : i \in 1..(old + 1)
        BY <1>3
      <4>3. QED
        BY <4>1, <4>2
    <3>2. QED
      BY <1>5, <1>7, <2>2, <3>1
  <2>3. QED
    BY <1>1, <2>1, <2>2
<1>10. \A i \in 1..(old + 1) : <<answers'[i].to, answers'[i].code>> \in Broker!Owed(longer[i])'
  <2> TAKE i \in 1..(old + 1)
  <2>1. CASE i = old + 1
    <3>1. answers'[i].to = to /\ answers'[i].code = code /\ longer[i] = n
      BY <1>3, <1>5, <2>1
    <3>2. n \in 1..n
      BY <1>1
    <3>3. Broker!Owed(n)' = Broker!Owed(n) /\ <<to, code>> \in Broker!Owed(n)
      BY <1>0, <1>6, <3>2
    <3>4. <<to, code>> \in Broker!Owed(n)'
      BY <3>3
    <3>5. QED
      BY <3>1, <3>4
  <2>2. CASE i \in 1..old
    BY <1>1, <1>3, <1>5, <1>6, <1>7, <2>2
  <2>3. QED
    BY <1>3, <2>1, <2>2
<1>11. \A k : Broker!IsRequest(asked[k])' <=> Broker!IsRequest(asked[k])
  BY DEF Broker!IsRequest
<1>12. Broker!AnswersTo(longer)'
  BY <1>1, <1>3, <1>8, <1>9, <1>10, <1>11 DEF Broker!AnswersTo
<1>13. QED
  BY <1>1, <1>3, <1>5, <1>12 DEF Broker!OneAnswerPerLine

(* A notification gets none.                                                *)
LEMMA NotAnswered ==
  ASSUME BrokerInv, state = "handle", state' \in {"line", "end"},
         asked' = asked, answers' = answers, ~Broker!IsRequest(Broker!Line)
  PROVE  Broker!OneAnswerPerLine'
<1>0. PICK n : n = Len(asked)
  OBVIOUS
<1>1. /\ n \in Nat /\ n > 0 /\ Broker!Done = n - 1
      /\ (Broker!Done)' = n /\ Broker!Line = asked[n]
  BY <1>0, DoneType DEF BrokerInv, BrokerType, Measured, Broker!Done, Broker!Line
<1>2. PICK lineOf \in [DOMAIN answers -> 1..(n - 1)] : Broker!AnswersTo(lineOf)
  BY <1>1 DEF BrokerInv, Broker!OneAnswerPerLine
<1>3. \A k \in 1..n : /\ Broker!Owed(k)' = Broker!Owed(k)
                      /\ Broker!IsRequest(asked[k])' <=> Broker!IsRequest(asked[k])
  BY DEF Broker!Owed, Broker!Accepted, Broker!Ready, Broker!IsRequest
<1>4. \A i \in DOMAIN answers : lineOf[i] \in 1..(n - 1) /\ lineOf[i] \in 1..n
  BY <1>1, <1>2
<1>5. lineOf \in [DOMAIN answers' -> 1..n]
  BY <1>2, <1>4
<1>6. \A k \in 1..n : Broker!IsRequest(asked[k]) <=> \E i \in DOMAIN answers : lineOf[i] = k
  <2> TAKE k \in 1..n
  <2>1. CASE k = n
    BY <1>1, <1>4, <2>1
  <2>2. CASE k \in 1..(n - 1)
    BY <1>1, <1>2, <2>2 DEF Broker!AnswersTo
  <2>3. QED
    BY <1>1, <2>1, <2>2
<1>7. Broker!AnswersTo(lineOf)'
  BY <1>1, <1>2, <1>3, <1>4, <1>6 DEF Broker!AnswersTo
<1>8. QED
  BY <1>1, <1>5, <1>7 DEF Broker!OneAnswerPerLine

(* The reader: the first chunk of a line tells whether it is too long, or   *)
(* whether what follows has to be drained first.                            *)
LEMMA LineStep == BrokerInv /\ Broker!ReadLine => BrokerInv'
<1> SUFFICES ASSUME BrokerInv, Broker!ReadLine PROVE BrokerInv'
  OBVIOUS
<1>0. MaxLine \in Nat
  BY BrokerAssumption
<1>1. PICK line \in Broker!Lines :
        /\ asked' = Append(asked, line)
        /\ state' \in {"drain", "refuse", "handle"}
        /\ state' \in {"drain", "refuse"} => line.size > MaxLine
        /\ state' = "handle" => line.size <= MaxLine
  <2>1. PICK line \in Broker!Lines :
          LET all == line.size + line.ending
              part == Broker!Read(all)
              ended == part = all /\ line.ending > 0
              text == IF ended THEN all - line.ending ELSE part
          IN /\ asked' = Append(asked, line)
             /\ state' = IF ~ended /\ part = Broker!Read(MaxLine + 2) THEN "drain"
                         ELSE IF text > MaxLine THEN "refuse" ELSE "handle"
    BY DEF Broker!ReadLine
  <2>2. line.size \in Nat /\ line.ending \in 0..2
    BY LineFacts
  <2>3. QED
    BY <1>0, <2>1, <2>2, SMTT(60) DEF Broker!Read
<1>2. /\ state = "line" /\ Len(asked) \in Nat /\ Broker!Done = Len(asked)
      /\ UNCHANGED <<initializeSeen, initialized, answers>>
  BY DoneType DEF Broker!ReadLine, BrokerInv, Broker!session
<1>3. /\ asked' \in Seq(Broker!Lines) /\ Len(asked') = Len(asked) + 1
      /\ asked'[Len(asked')] = line
  BY <1>1 DEF BrokerInv, BrokerType
<1>4. (Broker!Done)' = Broker!Done
  <2>1. state' \notin {"line", "end"} /\ (Len(asked))' = Len(asked) + 1
    BY <1>1, <1>3
  <2>2. (Broker!Done)' = (Len(asked))' - 1
    BY <2>1, Zenon DEF Broker!Done
  <2>3. QED
    BY <1>2, <2>1, <2>2
<1>5. BrokerType'
  BY <1>1, <1>2, <1>3 DEF BrokerInv, BrokerType
<1>6. Measured'
  BY <1>1, <1>2, <1>3 DEF Measured, Broker!Line
<1>7. PICK n : n = Len(asked) + 1
  OBVIOUS
<1>8. Remembered'
  <2>1. Broker!Done + 1 = n /\ (Broker!Done + 1)' = n
    BY <1>2, <1>4, <1>7
  <2>2. /\ Broker!Accepted(n)' <=> Broker!Accepted(n)
        /\ Broker!Ready(n)' <=> Broker!Ready(n)
    BY <1>1, <1>2, <1>7, OwedStays DEF BrokerInv
  <2>3. QED
    BY <1>2, <2>1, <2>2 DEF BrokerInv, Remembered
<1>9. Broker!OneAnswerPerLine'
  <2>1. PICK lineOf \in [DOMAIN answers -> 1..Broker!Done] : Broker!AnswersTo(lineOf)
    BY DEF BrokerInv, Broker!OneAnswerPerLine
  <2>2. \A k \in 1..Broker!Done : /\ asked'[k] = asked[k]
                                  /\ Broker!Owed(k)' = Broker!Owed(k)
    BY <1>1, <1>2, OwedStays DEF BrokerInv
  <2>3. PICK done : done = Broker!Done
    OBVIOUS
  <2>4. Broker!AnswersTo(lineOf)'
    BY <1>2, <1>4, <2>1, <2>2, <2>3 DEF Broker!AnswersTo, Broker!IsRequest
  <2>5. QED
    BY <1>2, <1>4, <2>1, <2>4 DEF Broker!OneAnswerPerLine
<1>10. QED
  BY <1>5, <1>6, <1>8, <1>9 DEF BrokerInv

(* What is drained belongs to the line in hand.                             *)
LEMMA DrainStep == BrokerInv /\ Broker!DrainLine => BrokerInv'
<1> SUFFICES ASSUME BrokerInv, Broker!DrainLine PROVE BrokerInv'
  OBVIOUS
<1>1. /\ state = "drain" /\ state' \in {"drain", "refuse"}
      /\ UNCHANGED <<asked, initializeSeen, initialized, answers>>
  BY DEF Broker!DrainLine, Broker!session
<1>2. (Broker!Done)' = Broker!Done
  BY <1>1 DEF Broker!Done
<1>3. BrokerType' /\ Measured'
  BY <1>1 DEF BrokerInv, BrokerType, Measured, Broker!Line
<1>4. Remembered'
  BY <1>1, <1>2 DEF BrokerInv, Remembered, Broker!Accepted, Broker!Ready
<1>5. Broker!OneAnswerPerLine'
  <2>1. PICK lineOf \in [DOMAIN answers -> 1..Broker!Done] : Broker!AnswersTo(lineOf)
    BY DEF BrokerInv, Broker!OneAnswerPerLine
  <2>2. \A k : Broker!Owed(k)' = Broker!Owed(k)
    BY <1>1 DEF Broker!Owed, Broker!Accepted, Broker!Ready
  <2>3. PICK n : n = Broker!Done
    OBVIOUS
  <2>4. Broker!AnswersTo(lineOf)'
    BY <1>1, <1>2, <2>1, <2>2, <2>3 DEF Broker!AnswersTo, Broker!IsRequest
  <2>5. QED
    BY <1>1, <1>2, <2>1, <2>4 DEF Broker!OneAnswerPerLine
<1>6. QED
  BY <1>3, <1>4, <1>5 DEF BrokerInv

(* The line in hand is done with: what it was owed has been written, and    *)
(* the broker remembers what it said of the handshake.                      *)
LEMMA LineDone ==
  ASSUME BrokerInv, state \in {"refuse", "handle"}, state' = Broker!Resume,
         asked' = asked,
         \/ /\ Broker!IsRequest(Broker!Line)
            /\ \E to \in Nat, code \in Codes :
                 Broker!Answer(to, code) /\ <<to, code>> \in Broker!Owed(Len(asked))
         \/ /\ ~Broker!IsRequest(Broker!Line)
            /\ state = "handle" /\ answers' = answers,
         initializeSeen' <=> \/ initializeSeen
                             \/ /\ Broker!Line.method = "initialize" /\ Broker!Line.good
                                /\ Broker!Line.size <= MaxLine,
         initialized' <=> \/ initialized
                          \/ /\ Broker!Line.method = "initialized" /\ Broker!Line.good
                             /\ Broker!Line.size <= MaxLine /\ initializeSeen,
         initializeSeen' \in BOOLEAN, initialized' \in BOOLEAN
  PROVE  BrokerInv'
<1>1. state' \in {"line", "end"}
  BY DEF Broker!Resume
<1>2. answers' \in Seq([to : Nat, code : Codes]) /\ Broker!OneAnswerPerLine'
  <2>1. CASE Broker!IsRequest(Broker!Line)
    BY <1>1, <2>1, Answered
  <2>2. CASE ~Broker!IsRequest(Broker!Line)
    BY <1>1, <2>2, NotAnswered DEF BrokerInv, BrokerType
  <2>3. QED
    BY <2>1, <2>2
<1>3. BrokerType' /\ Measured'
  BY <1>1, <1>2 DEF BrokerInv, BrokerType, Measured
<1>4. Remembered'
  BY <1>1, HandshakeGrows DEF Remembered
<1>5. QED
  BY <1>2, <1>3, <1>4 DEF BrokerInv

(* The handler: each of its branches writes what the line in hand is owed.  *)
LEMMA HandleStep ==
  ASSUME BrokerInv,
         \/ Broker!RefuseLine \/ Broker!Malformed \/ Broker!HandleNotification
         \/ Broker!Initialize \/ Broker!UnknownMethod \/ Broker!NotInitialized
         \/ Broker!Ping \/ Broker!CallTool
  PROVE  BrokerInv'
<1> USE DEF Broker!Handled, Broker!Handle, Broker!session
<1>0. /\ state \in {"refuse", "handle"} /\ state' = Broker!Resume /\ asked' = asked
      /\ state = "refuse" <=> Broker!RefuseLine
  BY DEF Broker!RefuseLine, Broker!Malformed, Broker!HandleNotification, Broker!Initialize,
         Broker!UnknownMethod, Broker!NotInitialized, Broker!Ping, Broker!CallTool
<1>1. /\ Len(asked) \in Nat /\ Broker!Line = asked[Len(asked)] /\ Broker!Line \in Broker!Lines
      /\ initializeSeen \in BOOLEAN /\ initialized \in BOOLEAN
  BY <1>0 DEF BrokerInv, BrokerType, Measured, Broker!Line
<1>2. /\ initializeSeen <=> Broker!Accepted(Len(asked))
      /\ initialized <=> Broker!Ready(Len(asked))
  BY <1>0, DoneType DEF BrokerInv, Remembered
<1>3. /\ state = "refuse" => Broker!Line.size > MaxLine /\ ~(Broker!Line.size <= MaxLine)
      /\ state = "handle" => Broker!Line.size <= MaxLine /\ ~(Broker!Line.size > MaxLine)
  BY <1>0, <1>1, LineFacts, BrokerAssumption DEF BrokerInv, Measured
<1>4. /\ Broker!Line.id \in BOOLEAN /\ Broker!Line.good \in BOOLEAN
      /\ Broker!Line.id => Broker!Line.method \notin {"initialized", "invalid_request",
                                                      "invalid_json"}
      /\ ~Broker!Line.id => Broker!Line.method \in {"initialized", "unknown",
                                                    "invalid_request", "invalid_json"}
  BY <1>1, LineFacts
<1> DEFINE Right(to, code) ==
             to \in Nat /\ code \in Codes /\ <<to, code>> \in Broker!Owed(Len(asked))
<1>5. CASE Broker!RefuseLine
  <2>1. state = "refuse" /\ ~(Broker!Line.size <= MaxLine) /\ Broker!Line.size > MaxLine
    BY <1>0, <1>3, <1>5
  <2>2. Right(0, "request_too_large") /\ Broker!IsRequest(Broker!Line)
    <3>1. Broker!Owed(Len(asked)) = {<<0, "request_too_large">>}
      BY <1>1, <2>1, Zenon DEF Broker!Owed
    <3>2. QED
      BY <2>1, <3>1 DEF Broker!IsRequest, Codes
  <2>3. Broker!Answer(0, "request_too_large") /\ UNCHANGED <<initializeSeen, initialized>>
    BY <1>5 DEF Broker!RefuseLine
  <2> HIDE DEF Right
  <2>4. QED
    BY <1>0, <1>1, <2>1, <2>2, <2>3, LineDone DEF Right
<1>6. CASE state = "handle"
  <2>0. Broker!Line.size <= MaxLine /\ ~(Broker!Line.size > MaxLine)
    BY <1>3, <1>6
  <2>1. SUFFICES
          /\ \/ /\ Broker!IsRequest(Broker!Line)
                /\ \E to \in Nat, code \in Codes :
                     Broker!Answer(to, code) /\ <<to, code>> \in Broker!Owed(Len(asked))
             \/ ~Broker!IsRequest(Broker!Line) /\ answers' = answers
          /\ initializeSeen' <=> \/ initializeSeen
                                 \/ Broker!Line.method = "initialize" /\ Broker!Line.good
          /\ initialized' <=> \/ initialized
                              \/ /\ Broker!Line.method = "initialized" /\ Broker!Line.good
                                 /\ initializeSeen
          /\ initializeSeen' \in BOOLEAN /\ initialized' \in BOOLEAN
    BY <1>0, <1>6, <2>0, LineDone
  <2>2. CASE Broker!Malformed
    <3>0. Broker!Line.method \in {"invalid_json", "invalid_request"}
      BY <2>2 DEF Broker!Malformed
    <3>1. Broker!IsRequest(Broker!Line) /\ Right(0, Broker!Line.method)
      <4>1. Broker!Owed(Len(asked)) = {<<0, Broker!Line.method>>}
        BY <1>1, <2>0, <3>0, Zenon DEF Broker!Owed
      <4>2. Broker!Line.method \in Codes
        BY <3>0 DEF Codes
      <4>3. QED
        BY <3>0, <4>1, <4>2 DEF Broker!IsRequest
    <3>2. QED
      BY <1>1, <2>2, <3>1 DEF Broker!Malformed
  <2>3. CASE Broker!HandleNotification
    <3>1. ~Broker!IsRequest(Broker!Line) /\ answers' = answers
      BY <1>4, <2>0, <2>3 DEF Broker!HandleNotification, Broker!IsRequest
    <3>2. QED
      BY <1>1, <2>3, <3>1 DEF Broker!HandleNotification, Broker!InTurn
  <2>4. CASE Broker!Initialize
    <3>1. PICK code \in Codes :
            /\ code = IF initializeSeen THEN "already_initialized"
                      ELSE IF Broker!Line.good THEN "result" ELSE "invalid_params"
            /\ Broker!Answer(Len(asked), code)
      <4>1. \A a, b \in BOOLEAN : (IF a THEN "already_initialized"
                                   ELSE IF b THEN "result" ELSE "invalid_params") \in Codes
        BY DEF Codes
      <4>2. QED
        BY <1>1, <1>4, <2>4, <4>1 DEF Broker!Initialize
    <3>2. Broker!IsRequest(Broker!Line) /\ Right(Len(asked), code)
      BY <1>1, <1>2, <1>4, <2>0, <2>4, <3>1
         DEF Broker!Initialize, Broker!Owed, Broker!IsRequest
    <3>3. QED
      BY <1>1, <1>4, <2>4, <3>1, <3>2 DEF Broker!Initialize, Broker!ValidParams
  <2>5. CASE Broker!UnknownMethod
    <3>1. Broker!IsRequest(Broker!Line) /\ Right(Len(asked), "method_not_found")
      <4>0. Broker!Line.method = "unknown" /\ Broker!Line.id
        BY <2>5 DEF Broker!UnknownMethod
      <4>1. Broker!Owed(Len(asked)) = {<<Len(asked), "method_not_found">>}
        BY <1>1, <2>0, <4>0 DEF Broker!Owed
      <4>2. QED
        BY <1>1, <4>0, <4>1 DEF Broker!IsRequest, Codes
    <3>2. QED
      BY <1>1, <2>5, <3>1 DEF Broker!UnknownMethod
  <2>6. CASE Broker!NotInitialized
    <3>1. Broker!IsRequest(Broker!Line) /\ Right(Len(asked), "not_initialized")
      <4>0. /\ Broker!Line.method \in {"ping", "capture_pending", "reconcile_if_due"}
            /\ ~Broker!Ready(Len(asked))
        BY <1>2, <2>6 DEF Broker!NotInitialized, Broker!Tools
      <4>1. Broker!Owed(Len(asked)) = {<<Len(asked), "not_initialized">>}
        BY <1>1, <2>0, <4>0 DEF Broker!Owed
      <4>2. QED
        BY <1>1, <1>4, <4>0, <4>1 DEF Broker!IsRequest, Codes
    <3>2. QED
      BY <1>1, <2>6, <3>1 DEF Broker!NotInitialized, Broker!Tools
  <2>7. CASE Broker!Ping
    <3>1. PICK code \in Codes :
            /\ code = IF Broker!Line.good THEN "result" ELSE "invalid_params"
            /\ Broker!Answer(Len(asked), code)
      <4>1. \A b \in BOOLEAN : (IF b THEN "result" ELSE "invalid_params") \in Codes
        BY DEF Codes
      <4>2. QED
        BY <1>4, <2>7, <4>1 DEF Broker!Ping
    <3>2. Broker!IsRequest(Broker!Line) /\ Right(Len(asked), code)
      BY <1>1, <1>2, <1>4, <2>0, <2>7, <3>1
         DEF Codes, Broker!Ping, Broker!Owed, Broker!IsRequest, Broker!Tools
    <3>3. QED
      BY <1>1, <2>7, <3>1, <3>2 DEF Broker!Ping
  <2>8. CASE Broker!CallTool
    <3>1. PICK code \in {"tool", "queued", "duplicate"} : Broker!Answer(Len(asked), code)
      BY <2>8 DEF Broker!CallTool
    <3>2. Broker!IsRequest(Broker!Line) /\ Right(Len(asked), code)
      <4>0. /\ Broker!Line.method \in {"capture_pending", "reconcile_if_due"}
            /\ Broker!Ready(Len(asked))
        BY <1>2, <2>8 DEF Broker!CallTool, Broker!Tools
      <4>1. Broker!Owed(Len(asked)) = {Len(asked)} \X {"tool", "queued", "duplicate"}
        BY <1>1, <2>0, <4>0 DEF Broker!Owed, Broker!Tools
      <4>2. QED
        BY <1>1, <1>4, <3>1, <4>0, <4>1 DEF Broker!IsRequest, Codes
    <3>3. QED
      BY <1>1, <2>8, <3>1, <3>2 DEF Broker!CallTool, Broker!Tools
  <2>9. QED
    BY <1>0, <1>6, <2>2, <2>3, <2>4, <2>5, <2>6, <2>7, <2>8
<1>7. QED
  BY <1>0, <1>5, <1>6

(* A new session begins with nothing asked and nothing remembered.          *)
LEMMA SessionBegins ==
  /\ Broker!Init => BrokerInv
  /\ BrokerType /\ Broker!NewSession => BrokerInv'
<1>1. Broker!Init => BrokerInv
  <2> SUFFICES ASSUME Broker!Init PROVE BrokerInv
    OBVIOUS
  <2>1. Broker!Done = 0 /\ Len(asked) = 0 /\ DOMAIN answers = {}
    BY DEF Broker!Init, Broker!Done
  <2>2. ~Broker!Accepted(1) /\ ~Broker!Ready(1)
    BY DEF Broker!Accepted, Broker!Ready
  <2>3. BrokerType /\ Measured /\ Remembered
    <3>1. <<>> \in Seq(Broker!Lines) /\ <<>> \in Seq([to : Nat, code : Codes])
      OBVIOUS
    <3>2. Broker!Done + 1 = 1
      BY <2>1
    <3>3. QED
      BY <2>1, <2>2, <3>1, <3>2 DEF BrokerType, Measured, Remembered, Broker!Init
  <2>4. [n \in {} |-> 0] \in [DOMAIN answers -> 1..Broker!Done]
    BY <2>1
  <2>5. Broker!AnswersTo([n \in {} |-> 0])
    BY <2>1 DEF Broker!AnswersTo
  <2>6. QED
    BY <2>3, <2>4, <2>5 DEF BrokerInv, Broker!OneAnswerPerLine
<1>2. ASSUME Broker!NewSession PROVE BrokerInv'
  <2>1. /\ asked' = <<>> /\ state' = "line" /\ answers' = <<>>
        /\ initializeSeen' = FALSE /\ initialized' = FALSE
    BY <1>2 DEF Broker!NewSession
  <2>2. (Broker!Done)' = 0 /\ (Len(asked))' = 0 /\ (DOMAIN answers)' = {}
    BY <2>1 DEF Broker!Done
  <2>3. ~Broker!Accepted(1)' /\ ~Broker!Ready(1)'
    BY DEF Broker!Accepted, Broker!Ready
  <2>4. BrokerType' /\ Measured' /\ Remembered'
    <3>1. <<>> \in Seq(Broker!Lines) /\ <<>> \in Seq([to : Nat, code : Codes])
      OBVIOUS
    <3>2. (Broker!Done + 1)' = 1
      BY <2>2
    <3>3. QED
      BY <2>1, <2>2, <2>3, <3>1, <3>2 DEF BrokerType, Measured, Remembered
  <2>5. [n \in {} |-> 0] \in [(DOMAIN answers)' -> 1..(Broker!Done)']
    BY <2>2
  <2>6. Broker!AnswersTo([n \in {} |-> 0])'
    BY <2>2 DEF Broker!AnswersTo
  <2>7. QED
    BY <2>4, <2>5, <2>6 DEF BrokerInv, Broker!OneAnswerPerLine
<1>3. QED
  BY <1>1, <1>2

(* Every step of the broker keeps its invariant.                            *)
LEMMA BrokerStep == BrokerInv /\ [Broker!Next]_(Broker!vars) => BrokerInv'
<1> SUFFICES ASSUME BrokerInv, [Broker!Next]_(Broker!vars) PROVE BrokerInv'
  OBVIOUS
<1>1. CASE UNCHANGED Broker!vars
  <2>1. UNCHANGED <<asked, state, initializeSeen, initialized, answers>>
    BY <1>1 DEF Broker!vars
  <2>2. \A k : /\ Broker!Owed(k)' = Broker!Owed(k)
               /\ Broker!Accepted(k)' <=> Broker!Accepted(k)
               /\ Broker!Ready(k)' <=> Broker!Ready(k)
    BY <2>1 DEF Broker!Owed, Broker!Accepted, Broker!Ready
  <2>3. (Broker!Done)' = Broker!Done
    BY <2>1 DEF Broker!Done
  <2>4. PICK lineOf \in [DOMAIN answers -> 1..Broker!Done] : Broker!AnswersTo(lineOf)
    BY DEF BrokerInv, Broker!OneAnswerPerLine
  <2>5. PICK n : n = Broker!Done
    OBVIOUS
  <2>6. Broker!AnswersTo(lineOf)'
    BY <2>1, <2>2, <2>3, <2>4, <2>5 DEF Broker!AnswersTo, Broker!IsRequest
  <2>7. Broker!OneAnswerPerLine'
    BY <2>1, <2>3, <2>4, <2>6 DEF Broker!OneAnswerPerLine
  <2>8. Remembered'
    BY <2>1, <2>2, <2>3 DEF BrokerInv, Remembered
  <2>9. QED
    BY <2>1, <2>7, <2>8 DEF BrokerInv, BrokerType, Measured, Broker!Line
<1>2. CASE Broker!Next
  BY <1>2, LineStep, DrainStep, HandleStep, SessionBegins DEF Broker!Next, BrokerInv
<1>3. QED
  BY <1>1, <1>2

(* While the focus is on the broker, its invariant holds.                   *)
LEMMA BrokerHolds == Spec => [](focus = "broker" => BrokerInv)
<1>1. Init => (focus = "broker" => BrokerInv)
  BY SessionBegins DEF Init
<1>2. (focus = "broker" => BrokerInv) /\ [Next]_vars => (focus = "broker" => BrokerInv)'
  BY FocusStays, BrokerMoves, BrokerStep
<1>3. QED
  BY <1>1, <1>2, PTL DEF Spec

(* Whatever the limit of a line is, however long the session and whatever   *)
(* the client says in it, every line that is owed an answer gets its own,   *)
(* in order, and no other line gets one; and what is answered follows from  *)
(* the handshake that came before it.                                       *)
THEOREM EveryLineAnsweredOnce == Spec => []OneAnswerPerLine
<1>1. (focus = "broker" => BrokerInv) => OneAnswerPerLine
  BY DEF BrokerInv, OneAnswerPerLine
<1>2. QED
  BY <1>1, BrokerHolds, PTL

-----------------------------------------------------------------------------
(* The token and the requests of the control panel.                         *)

(* While the focus is on the control panel, it moves alone.                 *)
LEMMA WebMoves ==
  ASSUME [Next]_vars, focus = "web"
  PROVE  [Web!Next]_(Web!vars)
<1>1. CASE UNCHANGED vars
  BY <1>1 DEF vars, webVars, Web!vars
<1>2. CASE Next
  BY <1>2 DEF Next, Web!Next
<1>3. QED
  BY <1>1, <1>2

Tokens == [token : Nat, whole : BOOLEAN]
ServerStates == [pc : {"off", "create", "write", "sync", "race", "serving"}, token : Nat]
RequestStates == [pc : {"none", "receive", "handle", "begun", "failed", "ended"},
                  safe : BOOLEAN, csrf : Nat, alive : BOOLEAN, sent : Nat, received : Nat,
                  form : BOOLEAN, status : Nat]

WebType ==
  /\ tokenFile \in Tokens \cup {NONE} /\ tokens \in Nat
  /\ server \in [Servers -> ServerStates] /\ request \in [Requests -> RequestStates]

(* The one server that makes the file is the only one that touches it until *)
(* the file is whole and synced, and nobody serves before it is whole.      *)
Making(w) == server[w].pc \in {"write", "sync"}
OneMaker ==
  /\ \A w \in Servers : Making(w) => tokenFile # NONE
  /\ \A w \in Servers : Making(w) => (tokenFile.whole <=> server[w].pc = "sync")
  /\ \A v, w \in Servers : Making(v) /\ Making(w) => v = w

(* What was let through when it came in, and what it has shown since.       *)
Admitted(r) ==
  LET q == request[r] IN
  /\ q.pc = "none" => q.received = 0
  /\ q.pc = "receive" => q.alive /\ ~q.safe /\ q.received <= MaxChunks

WebInv == WebType /\ OneMaker /\ Web!OneToken /\ Web!HandledForItsSession
          /\ \A r \in Requests : Admitted(r)

(* Null is no token file.                                                   *)
LEMMA NullIsNoToken == NONE \notin Tokens
BY WebAssumption DEF Tokens

(* A request that has not come, and a server that does not run.             *)
LEMMA WaitingType == Web!Waiting \in RequestStates /\ Web!Off \in ServerStates
BY DEF Web!Waiting, Web!Off, RequestStates, ServerStates

(* Nobody serves, and no request has come in.                               *)
LEMMA WebInit == Web!Init => WebInv
BY WaitingType
   DEF Web!Init, WebInv, WebType, OneMaker, Making, Admitted, Web!OneToken, Web!At,
       Web!HandledForItsSession, Web!Waiting, Web!Off

(* A step of a server that leaves the requests alone.                       *)
LEMMA ServerStep ==
  ASSUME WebInv, UNCHANGED request, WebType', OneMaker', Web!OneToken'
  PROVE  WebInv'
BY DEF WebInv, WebType, Admitted, Web!HandledForItsSession

(* The token file is made and read before a server answers.                 *)
LEMMA TokenStep ==
  ASSUME WebInv, NEW w \in Servers,
         \/ Web!LoadToken(w) \/ Web!CreateToken(w) \/ Web!WriteToken(w)
         \/ Web!SyncToken(w) \/ Web!LoadAfterRace(w)
  PROVE  WebInv'
<1> USE DEF Web!At
<1>0. /\ UNCHANGED request /\ server[w] \in ServerStates /\ tokens \in Nat
      /\ tokenFile # NONE => tokenFile \in Tokens /\ tokenFile.token \in Nat
                             /\ tokenFile.whole \in BOOLEAN
  BY DEF WebInv, WebType, Tokens, Web!LoadToken, Web!CreateToken, Web!WriteToken,
         Web!SyncToken, Web!LoadAfterRace, Web!boundary
<1>1. ASSUME NEW next \in {"create", "race", "off", "sync", "write"}, Web!Goes(w, next)
      PROVE  /\ server' \in [Servers -> ServerStates] /\ server'[w].pc = next
             /\ \A v \in Servers \ {w} : server'[v] = server[v]
  BY <1>1 DEF WebInv, WebType, Web!Goes, ServerStates
<1>2. ASSUME tokenFile # NONE, tokenFile.whole, Web!Serves(w)
      PROVE  /\ server' \in [Servers -> ServerStates] /\ server'[w].pc = "serving"
             /\ server'[w].token = tokenFile.token
             /\ \A v \in Servers \ {w} : server'[v] = server[v]
  <2>1. [pc |-> "serving", token |-> tokenFile.token] \in ServerStates
    BY <1>0, <1>2 DEF ServerStates
  <2>2. QED
    BY <1>2, <2>1 DEF WebInv, WebType, Web!Serves
<1>3. CASE UNCHANGED <<server, tokenFile, tokens, withdrawn>>
  BY <1>0, <1>3 DEF WebInv, WebType, OneMaker, Making, Web!OneToken, Admitted,
                    Web!HandledForItsSession
<1>4. CASE /\ UNCHANGED <<tokenFile, tokens, withdrawn>>
           /\ \E next \in {"create", "race", "off"} : Web!Goes(w, next)
  <2>1. WebType' /\ OneMaker' /\ Web!OneToken'
    BY <1>0, <1>1, <1>4 DEF WebInv, WebType, OneMaker, Making, Web!OneToken
  <2>2. QED
    BY <1>0, <2>1, ServerStep
<1>5. CASE /\ UNCHANGED <<tokenFile, tokens, withdrawn>>
           /\ tokenFile # NONE /\ tokenFile.whole /\ Web!Serves(w)
  <2>1. WebType' /\ OneMaker' /\ Web!OneToken'
    BY <1>0, <1>2, <1>5 DEF WebInv, WebType, OneMaker, Making, Web!OneToken
  <2>2. QED
    BY <1>0, <2>1, ServerStep
<1>6. CASE Web!LoadToken(w)
  BY <1>3, <1>4, <1>5, <1>6 DEF Web!LoadToken
<1>7. CASE Web!LoadAfterRace(w)
  BY <1>4, <1>5, <1>7 DEF Web!LoadAfterRace, Web!ReadsWhole
<1>8. CASE Web!CreateToken(w)
  <2>1. CASE tokenFile = NONE
    <3>1. /\ tokenFile' = [token |-> tokens + 1, whole |-> FALSE] /\ tokens' = tokens + 1
          /\ Web!Goes(w, "write") /\ withdrawn' = withdrawn
      BY <1>8, <2>1 DEF Web!CreateToken, Web!CreatesFile
    <3>2. tokenFile' \in Tokens /\ tokenFile' # NONE /\ ~tokenFile'.whole
      <4>1. tokens + 1 \in Nat
        BY <1>0
      <4>2. tokenFile' \in Tokens
        BY <3>1, <4>1 DEF Tokens
      <4>3. QED
        BY <3>1, <4>2, NullIsNoToken
    <3>3. WebType'
      BY <1>0, <1>1, <3>1, <3>2 DEF WebInv, WebType
    <3>4. OneMaker'
      BY <1>1, <2>1, <3>1, <3>2 DEF WebInv, OneMaker, Making
    <3>5. Web!OneToken'
      BY <1>1, <2>1, <3>1 DEF WebInv, Web!OneToken
    <3>6. QED
      BY <1>0, <3>3, <3>4, <3>5, ServerStep
  <2>2. CASE tokenFile # NONE
    BY <1>4, <1>8, <2>2 DEF Web!CreateToken, Web!CreatesFile
  <2>3. QED
    BY <2>1, <2>2
<1>9. ASSUME Making(w), tokenFile' = NONE, Web!Goes(w, "off"), tokens' = tokens,
             withdrawn' \/ (withdrawn' = withdrawn /\ server[w].pc = "write")
      PROVE  WebInv'
  <2>1. WebType'
    BY <1>0, <1>1, <1>9 DEF WebInv, WebType
  <2>2. OneMaker'
    BY <1>1, <1>9 DEF WebInv, OneMaker, Making
  <2>3. Web!OneToken'
    BY <1>1, <1>9 DEF WebInv, OneMaker, Web!OneToken
  <2>4. QED
    BY <1>0, <2>1, <2>2, <2>3, ServerStep
<1>10. CASE Web!WriteToken(w)
  <2>1. CASE tokenFile' = [tokenFile EXCEPT !.whole = TRUE] /\ Web!Goes(w, "sync")
    <3>1. /\ tokenFile' \in Tokens /\ tokenFile' # NONE /\ tokenFile'.whole
          /\ UNCHANGED <<tokens, withdrawn>> /\ Making(w) /\ server[w].pc = "write"
      BY <1>0, <1>10, <2>1, NullIsNoToken DEF Web!WriteToken, Tokens, Making
    <3>2. WebType'
      BY <1>0, <1>1, <2>1, <3>1 DEF WebInv, WebType
    <3>3. OneMaker'
      BY <1>1, <2>1, <3>1 DEF WebInv, OneMaker, Making
    <3>4. Web!OneToken'
      BY <1>1, <2>1, <3>1 DEF WebInv, OneMaker, Web!OneToken
    <3>5. QED
      BY <1>0, <3>2, <3>3, <3>4, ServerStep
  <2>2. QED
    BY <1>9, <1>10, <2>1 DEF Web!WriteToken, Making
<1>11. CASE Web!SyncToken(w)
  <2>1. tokenFile # NONE /\ tokenFile.whole /\ Making(w)
    BY <1>11 DEF Web!SyncToken, WebInv, OneMaker, Making
  <2>2. QED
    BY <1>5, <1>9, <1>11, <2>1 DEF Web!SyncToken
<1>12. QED
  BY <1>6, <1>7, <1>8, <1>10, <1>11

(* A server that stops answers no more, and is out of the making.           *)
LEMMA StopStep == \A w \in Servers : WebInv /\ Web!Stop(w) => WebInv'
<1> SUFFICES ASSUME NEW w \in Servers, WebInv, Web!Stop(w) PROVE WebInv'
  OBVIOUS
<1>1. /\ server' = [server EXCEPT ![w] = Web!Off] /\ Web!Off.pc = "off"
      /\ request' = request \/ request' = [r \in Requests |-> Web!Waiting]
      /\ UNCHANGED <<tokenFile, tokens, withdrawn>>
  BY DEF Web!Stop, Web!Off
<1>2. server' \in [Servers -> ServerStates] /\ \A v \in Servers \ {w} : server'[v] = server[v]
  BY <1>1, WaitingType DEF WebInv, WebType
<1>3. server'[w].pc = "off"
  BY <1>1 DEF WebInv, WebType
<1>4. WebType'
  BY <1>1, <1>2, WaitingType DEF WebInv, WebType
<1>5. OneMaker' /\ Web!OneToken'
  BY <1>1, <1>2, <1>3 DEF WebInv, OneMaker, Making, Web!OneToken, Web!At
<1>6. Web!HandledForItsSession' /\ \A r \in Requests : Admitted(r)'
  BY <1>1 DEF WebInv, Admitted, Web!HandledForItsSession, Web!Waiting
<1>7. QED
  BY <1>4, <1>5, <1>6 DEF WebInv

(* A step of one request.                                                   *)
LEMMA OneRequest ==
  ASSUME WebInv, NEW r \in Requests, NEW q \in RequestStates,
         request' = [request EXCEPT ![r] = q], UNCHANGED Web!token,
         q.pc = "none" => q.received = 0,
         q.pc = "receive" => q.alive /\ ~q.safe /\ q.received <= MaxChunks,
         q.pc \in {"handle", "begun", "failed"} =>
           q.alive /\ (~q.safe => q.sent = q.csrf /\ q.received \in 1..MaxChunks)
  PROVE  WebInv'
<1>1. /\ request' \in [Requests -> RequestStates] /\ request'[r] = q
      /\ \A s \in Requests \ {r} : request'[s] = request[s]
  BY DEF WebInv, WebType
<1>2. WebType' /\ OneMaker' /\ Web!OneToken'
  BY <1>1 DEF WebInv, WebType, OneMaker, Making, Web!OneToken, Web!At, Web!token
<1>3. Web!HandledForItsSession' /\ \A s \in Requests : Admitted(s)'
  BY <1>1 DEF WebInv, Admitted, Web!HandledForItsSession
<1>4. QED
  BY <1>2, <1>3 DEF WebInv

(* A response ends a request.                                               *)
LEMMA Responded ==
  ASSUME WebInv, NEW r \in Requests, NEW status \in Nat, Web!Respond(r, status),
         UNCHANGED Web!token
  PROVE  WebInv'
<1> DEFINE q == [request[r] EXCEPT !.pc = "ended", !.status = status, !.form = FALSE]
<1>1. request[r] \in RequestStates
  BY DEF WebInv, WebType
<1>2. q \in RequestStates /\ q.pc = "ended"
  BY <1>1 DEF RequestStates
<1>3. request' = [request EXCEPT ![r] = q]
  BY DEF Web!Respond
<1> HIDE DEF q
<1>4. QED
  BY <1>2, <1>3, OneRequest

(* A request goes on: it keeps what it came in with.                        *)
LEMMA RequestStep ==
  ASSUME WebInv, NEW r \in Requests,
         \/ \E supplied \in 1..MaxMade : Web!LogIn(r, supplied) \/ Web!RequireCsrf(r, supplied)
         \/ \E cookie \in 1..MaxMade, safe, body, sameOrigin \in BOOLEAN :
              Web!Enter(r, cookie, safe, body, sameOrigin)
         \/ Web!ReceiveChunk(r) \/ Web!Handle(r) \/ Web!EndRequest(r) \/ Web!Again(r)
  PROVE  WebInv'
<1>0. /\ request[r] \in RequestStates /\ Admitted(r) /\ UNCHANGED Web!token
      /\ request[r].received \in Nat /\ request[r].status \in Nat /\ request[r].csrf \in Nat
      /\ request[r].pc \in {"handle", "begun", "failed"} =>
           /\ request[r].alive
           /\ ~request[r].safe => /\ request[r].sent = request[r].csrf
                                  /\ request[r].received \in 1..MaxChunks
  BY ZenonT(60) DEF WebInv, WebType, RequestStates, Web!HandledForItsSession, Web!LogIn, Web!RequireCsrf,
         Web!Enter, Web!ReceiveChunk, Web!Handle, Web!EndRequest, Web!Again
<1>1. ASSUME NEW status \in Nat, Web!Respond(r, status) PROVE WebInv'
  BY <1>0, <1>1, Responded
<1>2. ASSUME NEW supplied \in 1..MaxMade, Web!LogIn(r, supplied) PROVE WebInv'
  BY <1>1, <1>2 DEF Web!LogIn
<1>3. ASSUME NEW supplied \in 1..MaxMade, Web!RequireCsrf(r, supplied) PROVE WebInv'
  <2>1. CASE supplied = request[r].csrf
    <3> DEFINE q == [request[r] EXCEPT !.pc = "handle", !.sent = supplied]
    <3>1. /\ request[r].pc = "receive" /\ request[r].received > 0
          /\ request' = [request EXCEPT ![r] = q]
      BY <1>3, <2>1 DEF Web!RequireCsrf, Web!CsrfMatches
    <3>2. /\ q \in RequestStates /\ q.pc = "handle" /\ q.alive = request[r].alive
          /\ q.sent = supplied /\ q.csrf = request[r].csrf
          /\ q.received = request[r].received
      BY <1>0, <2>1 DEF RequestStates
    <3> HIDE DEF q
    <3>3. q.received \in 1..MaxChunks /\ q.alive
      BY <1>0, <3>1, <3>2, WebAssumption DEF Admitted
    <3>4. QED
      BY <1>0, <2>1, <3>1, <3>2, <3>3, OneRequest
  <2>2. QED
    BY <1>1, <1>3, <2>1 DEF Web!RequireCsrf, Web!CsrfMatches
<1>4. ASSUME NEW cookie \in 1..MaxMade, NEW safe \in BOOLEAN, NEW body \in BOOLEAN,
             NEW sameOrigin \in BOOLEAN, Web!Enter(r, cookie, safe, body, sameOrigin)
      PROVE  WebInv'
  <2> DEFINE next == IF safe THEN "handle" ELSE "receive"
             q == [request[r] EXCEPT !.pc = next, !.safe = safe, !.csrf = cookie,
                                     !.alive = Web!HasSession(cookie)]
  <2>0. next \in {"handle", "receive"} /\ (safe <=> next = "handle") /\ cookie \in Nat
        /\ Web!HasSession(cookie) \in BOOLEAN
    BY DEF Web!HasSession
  <2>1. CASE request' = [request EXCEPT ![r] = q] /\ Web!HasSession(cookie)
    <3>1. request[r].received = 0
      BY <1>0, <1>4 DEF Web!Enter, Admitted
    <3> HIDE DEF next
    <3>2. /\ q \in RequestStates /\ q.pc = next
          /\ q.alive /\ q.safe = safe /\ q.received = 0
      BY <1>0, <2>0, <2>1, <3>1 DEF RequestStates
    <3> HIDE DEF q
    <3>3. q.pc = "receive" => q.alive /\ ~q.safe /\ q.received <= MaxChunks
      BY <2>0, <3>2, WebAssumption
    <3>4. q.pc \in {"handle", "begun", "failed"} => q.alive /\ q.safe
      BY <2>0, <3>2
    <3>5. QED
      BY <1>0, <2>0, <2>1, <3>2, <3>3, <3>4, OneRequest
  <2>2. \/ request' = [request EXCEPT ![r] = q] /\ Web!HasSession(cookie)
        \/ \E status \in Nat : Web!Respond(r, status)
    <3>1. \/ Web!Respond(r, 401) \/ Web!Respond(r, 400) \/ Web!Respond(r, 403)
          \/ /\ Web!HasSession(cookie)
             /\ request' = [request EXCEPT ![r].pc = next, ![r].safe = safe, ![r].csrf = cookie,
                                           ![r].alive = Web!HasSession(cookie)]
      BY <1>4 DEF Web!Enter, Web!HasSession
    <3> HIDE DEF next
    <3>2. ASSUME request' = [request EXCEPT ![r].pc = next, ![r].safe = safe, ![r].csrf = cookie,
                                            ![r].alive = Web!HasSession(cookie)]
          PROVE  request' = [request EXCEPT ![r] = q]
      BY <3>2
    <3> HIDE DEF q
    <3>3. QED
      BY <3>1, <3>2, SMTT(60)
  <2>3. QED
    BY <1>1, <2>1, <2>2
<1>5. CASE Web!ReceiveChunk(r)
  <2> DEFINE more == request[r].received + 1
             q == [request[r] EXCEPT !.received = more, !.form = TRUE]
  <2>1. CASE request' = [request EXCEPT ![r] = q] /\ request[r].received + 1 <= MaxChunks
    <3>1. request[r].pc = "receive"
      BY <1>5 DEF Web!ReceiveChunk
    <3>0. more \in Nat
      BY <1>0
    <3> HIDE DEF more
    <3>2. /\ q \in RequestStates /\ q.pc = "receive" /\ q.alive = request[r].alive
          /\ q.safe = request[r].safe /\ q.received = more
      BY <1>0, <3>0, <3>1 DEF RequestStates
    <3> USE DEF more
    <3> HIDE DEF q
    <3>3. QED
      BY <1>0, <2>1, <3>1, <3>2, OneRequest DEF Admitted
  <2>2. (request' = [request EXCEPT ![r] = q] /\ request[r].received + 1 <= MaxChunks)
        \/ \E status \in Nat : Web!Respond(r, status)
    <3>1. \/ Web!Respond(r, 400) \/ Web!Respond(r, 413)
          \/ /\ ~Web!OverLimit(request[r].received + 1)
             /\ request' = [request EXCEPT ![r].received = @ + 1, ![r].form = TRUE]
      BY <1>5 DEF Web!ReceiveChunk
    <3>2. ~Web!OverLimit(request[r].received + 1) => request[r].received + 1 <= MaxChunks
      BY <1>0, WebAssumption DEF Web!OverLimit
    <3>3. ASSUME request' = [request EXCEPT ![r].received = @ + 1, ![r].form = TRUE]
          PROVE  request' = [request EXCEPT ![r] = q]
      BY <3>3
    <3> HIDE DEF q
    <3>4. QED
      BY <3>1, <3>2, <3>3
  <2>3. QED
    BY <1>1, <2>1, <2>2
<1>6. CASE Web!Handle(r)
  <2>1. ASSUME NEW next \in {"failed", "begun"}, NEW begun \in Nat,
               request' = [request EXCEPT ![r] = [request[r] EXCEPT !.pc = next,
                                                                    !.status = begun]]
        PROVE  WebInv'
    <3> DEFINE q == [request[r] EXCEPT !.pc = next, !.status = begun]
    <3>1. /\ q \in RequestStates /\ q.pc \in {"failed", "begun"} /\ q.alive = request[r].alive
          /\ q.safe = request[r].safe /\ q.sent = request[r].sent /\ q.csrf = request[r].csrf
          /\ q.received = request[r].received
      BY <1>0 DEF RequestStates
    <3> HIDE DEF q
    <3>2. request[r].pc = "handle" /\ request' = [request EXCEPT ![r] = q]
      BY <1>6, <2>1 DEF Web!Handle, q
    <3>3. QED
      BY <1>0, <3>1, <3>2, OneRequest
  <2>2. \/ request' = [request EXCEPT ![r] = [request[r] EXCEPT !.pc = "failed", !.status = 0]]
        \/ request' = [request EXCEPT ![r] = [request[r] EXCEPT !.pc = "begun", !.status = 200]]
    <3>1. \/ request' = [request EXCEPT ![r].pc = "failed", ![r].status = 0]
          \/ request' = [request EXCEPT ![r].pc = "begun", ![r].status = 200]
      BY <1>6 DEF Web!Handle
    <3>2. QED
      BY <3>1, ZenonT(60)
  <2>3. QED
    BY <2>1, <2>2, ZenonT(60)
<1>7. CASE Web!EndRequest(r)
  BY <1>0, <1>1, <1>7 DEF Web!EndRequest, Web!StatusOf
<1>8. CASE Web!Again(r)
  <2>1. /\ request' = [request EXCEPT ![r] = Web!Waiting]
        /\ Web!Waiting.pc = "none" /\ Web!Waiting.received = 0
    BY <1>8 DEF Web!Again, Web!Waiting
  <2>2. QED
    BY <1>0, <2>1, WaitingType, OneRequest
<1>9. QED
  BY <1>2, <1>3, <1>4, <1>5, <1>6, <1>7, <1>8

(* Every step keeps the invariant.                                          *)
LEMMA WebStep ==
  ASSUME WebInv, [Web!Next]_(Web!vars) PROVE WebInv'
<1>1. CASE UNCHANGED Web!vars
  BY <1>1 DEF Web!vars, WebInv, WebType, OneMaker, Making, Admitted, Web!OneToken, Web!At,
              Web!HandledForItsSession
<1>2. QED
  BY <1>1, TokenStep, StopStep, RequestStep DEF Web!Next

(* In every behaviour in which the control panel moves, its invariant holds. *)
LEMMA WebHolds == Spec => [](focus = "web" => WebInv)
<1>1. Init => (focus = "web" => WebInv)
  BY WebInit DEF Init
<1>2. (focus = "web" => WebInv) /\ [Next]_vars => (focus = "web" => WebInv)'
  BY FocusStays, WebMoves, WebStep
<1>3. QED
  BY <1>1, <1>2, PTL DEF Spec

(* However many servers race for the token and die on the way, those that   *)
(* serve answer to the one in the file; and however many requests come in,  *)
(* are evicted or log in: a handler runs only for a session that was alive  *)
(* and, for a change, for its own CSRF value.                               *)
THEOREM BoundaryAlwaysHolds == Spec => []BoundaryHolds
<1>1. (focus = "web" => WebInv) => BoundaryHolds
  BY DEF WebInv, BoundaryHolds
<1>2. QED
  BY <1>1, WebHolds, PTL

-----------------------------------------------------------------------------
(* A command that is run with a deadline.                                   *)

(* While the focus is on the process, it moves alone.                       *)
LEMMA ProcessMoves ==
  ASSUME [Next]_vars, focus = "process"
  PROVE  [Process!Next]_(Process!vars)
<1>1. CASE UNCHANGED vars
  BY <1>1 DEF vars, processVars, Process!vars
<1>2. CASE Next
  BY <1>2 DEF Next, Process!Next
<1>3. QED
  BY <1>1, <1>2

Parents == [pc : {"launch", "loop", "kill", "reap", "ended"}, sending : BOOLEAN,
            reading : BOOLEAN, sent : Nat, read : Nat,
            result : {"none", "failed", "exceeded", "output"}, reaped : BOOLEAN,
            moved : BOOLEAN]
Children == [alive : BOOLEAN, writes : BOOLEAN, reads : BOOLEAN, killed : BOOLEAN]
Helpers == [alive : BOOLEAN, inGroup : BOOLEAN, writes : BOOLEAN]

ProcessType ==
  /\ flavour \in Process!Flavours /\ input \in Nat
  /\ parent \in Parents /\ child \in Children /\ helper \in Helpers
  /\ stdout \in Nat /\ written \in Nat /\ clock \in Nat

(* Nothing of what was written is lost, and the pipe is read to its end only *)
(* when nobody has the other one. Who holds one is alive.                   *)
Pipes ==
  /\ written = stdout + parent.read
  /\ child.writes \/ child.reads => child.alive
  /\ parent.pc = "launch" =>
       /\ ~child.alive /\ ~child.killed /\ helper = Process!Gone /\ parent.sent = 0
       /\ written = 0 /\ ~parent.reading /\ ~parent.reaped /\ parent.result = "none"
  /\ parent.pc = "loop" =>
       /\ parent.result = "none" /\ ~child.killed /\ parent.read <= MaxOutput
       /\ ~parent.reaped
       /\ ~parent.reading => Process!EndOfOutput
       /\ IF parent.sending THEN parent.sent < input ELSE parent.sent = input \/ ~child.reads

(* The group of a command that is over a limit, or that was waited for, is  *)
(* dead before the function ends.                                           *)
Killed ==
  /\ parent.pc \in {"reap", "ended"} => ~child.alive
  /\ parent.pc \in {"reap", "ended"}
     /\ (parent.result = "exceeded" \/ (flavour = "probe" /\ parent.reaped)) =>
       ~(helper.alive /\ helper.inGroup)
  /\ parent.pc = "reap" /\ flavour = "probe" => ~(helper.alive /\ helper.inGroup)

(* Past the deadline each tick is paid for with a step to the end.          *)
Late(t) == clock < t \/ (clock = t /\ ~parent.moved)
InTime ==
  /\ parent.pc = "launch" => clock = 0 /\ ~parent.moved
  /\ parent.pc = "loop" => Late(Timeout)
  /\ parent.pc = "kill" => Late(Timeout + 1)
  /\ parent.pc = "reap" => Late(Timeout + 2)

ProcessInv == ProcessType /\ Pipes /\ Killed /\ InTime /\ Process!OutputIsWhole

(* The function has not begun.                                              *)
LEMMA ProcessInit == Process!Init => ProcessInv
<1> SUFFICES ASSUME Process!Init PROVE ProcessInv
  OBVIOUS
<1>1. /\ parent \in Parents /\ parent.pc = "launch" /\ parent.read = 0 /\ parent.sent = 0
      /\ ~parent.reading /\ ~parent.reaped /\ parent.result = "none" /\ ~parent.moved
  BY DEF Process!Init, Parents
<1>2. child \in Children /\ ~child.alive /\ ~child.writes /\ ~child.reads /\ ~child.killed
  BY DEF Process!Init, Children
<1>3. helper \in Helpers /\ helper = Process!Gone
  BY DEF Process!Init, Helpers, Process!Gone
<1>4. /\ flavour \in Process!Flavours /\ input \in Nat /\ stdout = 0 /\ written = 0
      /\ clock = 0
  BY ProcessAssumption DEF Process!Init
<1>5. QED
  BY <1>1, <1>2, <1>3, <1>4
     DEF ProcessInv, ProcessType, Pipes, Killed, InTime, Process!OutputIsWhole

(* A step of the command or of its helper, who may write only what they     *)
(* could write before, and live on only in the group that they were in.     *)
LEMMA OthersMove ==
  ASSUME ProcessInv, UNCHANGED <<flavour, input, parent, clock>>, parent.pc # "launch",
         child' \in Children, helper' \in Helpers, stdout' \in Nat,
         written' = stdout' + parent.read,
         UNCHANGED <<stdout, written>> \/ child.writes \/ helper.writes,
         child'.killed => child.killed, child'.alive => child.alive,
         child'.writes => child.writes, child'.reads => child.reads,
         child'.writes \/ child'.reads => child'.alive,
         helper'.writes => helper.writes \/ child.writes,
         helper'.alive /\ helper'.inGroup => (helper.alive /\ helper.inGroup) \/ child.alive
  PROVE  ProcessInv'
<1>1. parent.read \in Nat /\ stdout \in Nat /\ written \in Nat /\ written' \in Nat
  BY DEF ProcessInv, ProcessType, Parents
<1>2. ProcessType'
  BY <1>1 DEF ProcessInv, ProcessType
<1>3. Process!EndOfOutput => Process!EndOfOutput'
  BY <1>1 DEF Process!EndOfOutput
<1>4. Pipes'
  BY <1>1, <1>3 DEF ProcessInv, Pipes
<1>5. Killed' /\ InTime'
  BY DEF ProcessInv, Killed, InTime, Late
<1>6. Process!OutputIsWhole'
  BY <1>1 DEF ProcessInv, Process!OutputIsWhole
<1>7. QED
  BY <1>2, <1>4, <1>5, <1>6 DEF ProcessInv

(* The command and its helper do as they please.                            *)
LEMMA CommandStep ==
  ASSUME ProcessInv,
         \/ Process!ChildWrites \/ Process!ChildReads \/ Process!ChildCloses
         \/ Process!ChildForks \/ Process!HelperMoves
  PROVE  ProcessInv'
<1>0. /\ child \in Children /\ helper \in Helpers /\ stdout \in Nat /\ written \in Nat
      /\ parent.pc # "launch" /\ UNCHANGED <<flavour, input, parent, clock>>
      /\ written = stdout + parent.read /\ parent.read \in Nat
  BY DEF ProcessInv, ProcessType, Pipes, Parents, Process!Gone, Process!ChildWrites,
         Process!ChildReads, Process!ChildCloses, Process!ChildForks, Process!HelperMoves, Process!procs
<1>1. child.writes \/ child.reads => child.alive
  BY DEF ProcessInv, Pipes
<1>2. CASE Process!ChildWrites
  BY <1>0, <1>1, <1>2, OthersMove DEF Process!ChildWrites, Process!Put, Process!procs
<1>3. CASE Process!ChildReads
  <2>1. UNCHANGED <<stdout, written, child, helper>>
    BY <1>0, <1>3 DEF Process!ChildReads, Process!procs
  <2>2. QED
    BY <1>0, <1>1, <2>1, OthersMove
<1>4. CASE Process!ChildCloses
  <2>1. UNCHANGED <<stdout, written, helper>>
    BY <1>0, <1>4 DEF Process!ChildCloses
  <2>2. /\ child' \in Children
        /\ child'.killed => child.killed
        /\ child'.alive => child.alive
        /\ child'.writes => child.writes
        /\ child'.reads => child.reads
        /\ child'.writes \/ child'.reads => child'.alive
    BY <1>0, <1>1, <1>4 DEF Process!ChildCloses, Children
  <2>3. QED
    BY <1>0, <2>1, <2>2, OthersMove
<1>5. CASE Process!ChildForks
  <2>1. UNCHANGED <<stdout, written, child>> /\ child.alive
    BY <1>0, <1>5 DEF Process!ChildForks
  <2>2. helper' \in Helpers /\ helper'.writes = child.writes
    BY <1>0, <1>5 DEF Process!ChildForks, Helpers, Children
  <2>3. QED
    BY <1>0, <1>1, <2>1, <2>2, OthersMove
<1>6. CASE Process!HelperMoves
  <2>1. child' = child
    BY <1>6 DEF Process!HelperMoves
  <2>2. CASE helper.writes /\ Process!Put /\ UNCHANGED helper
    BY <1>0, <1>1, <2>1, <2>2, OthersMove DEF Process!Put
  <2>3. ASSUME NEW h \in Helpers, helper' = h, UNCHANGED <<stdout, written>>, ~h.writes,
               h.alive /\ h.inGroup => helper.alive /\ helper.inGroup
        PROVE  ProcessInv'
    <3>1. stdout' \in Nat /\ written' = stdout' + parent.read
      BY <1>0, <2>3
    <3>2. QED
      BY <1>0, <1>1, <2>1, <2>3, <3>1, OthersMove
  <2>4. Process!Gone \in Helpers /\ ~Process!Gone.alive /\ ~Process!Gone.writes
    BY DEF Process!Gone, Helpers
  <2>5. /\ [helper EXCEPT !.writes = FALSE] \in Helpers
        /\ ~[helper EXCEPT !.writes = FALSE].writes
        /\ [helper EXCEPT !.writes = FALSE].alive = helper.alive
        /\ [helper EXCEPT !.writes = FALSE].inGroup = helper.inGroup
    BY <1>0 DEF Helpers
  <2>6. QED
    BY <1>6, <2>2, <2>3, <2>4, <2>5 DEF Process!HelperMoves
<1>7. QED
  BY <1>2, <1>3, <1>4, <1>5, <1>6

(* The function leaves its loop for a kill, with nothing to return.         *)
LEMMA ToKill ==
  ASSUME ProcessInv, parent.pc = "loop", NEW read \in Nat,
         NEW result \in {"failed", "exceeded"},
         UNCHANGED <<flavour, input, child, helper, written, clock>>,
         stdout' \in Nat, written = stdout' + read,
         parent' = [parent EXCEPT !.pc = "kill", !.read = read, !.result = result,
                                  !.moved = TRUE]
  PROVE  ProcessInv'
<1>1. parent \in Parents /\ clock \in Nat
  BY DEF ProcessInv, ProcessType
<1>2. /\ parent' \in Parents /\ parent'.pc = "kill" /\ parent'.read = read
      /\ parent'.result = result
  BY <1>1 DEF Parents
<1>3. ProcessType'
  BY <1>2 DEF ProcessInv, ProcessType
<1>4. Pipes' /\ Killed'
  BY <1>2 DEF ProcessInv, Pipes, Killed
<1>5. InTime'
  BY <1>1, <1>2, ProcessAssumption DEF ProcessInv, InTime, Late
<1>6. QED
  BY <1>2, <1>3, <1>4, <1>5 DEF ProcessInv, Process!OutputIsWhole

(* The function stays in its loop: it moved, and what it has read and sent  *)
(* is accounted for.                                                        *)
LEMMA StaysInLoop ==
  ASSUME ProcessInv, UNCHANGED <<flavour, input, helper, written, clock>>,
         parent.pc = "loop", parent' \in Parents, parent'.pc = "loop", parent'.moved,
         parent'.result = "none", ~parent'.reaped, parent'.read <= MaxOutput,
         clock < Timeout, stdout' \in Nat, written = stdout' + parent'.read,
         UNCHANGED child, ~parent'.reading => Process!EndOfOutput',
         IF parent'.sending THEN parent'.sent < input
                            ELSE parent'.sent = input \/ ~child.reads
  PROVE  ProcessInv'
<1>1. ProcessType'
  BY DEF ProcessInv, ProcessType
<1>2. Pipes' /\ Killed'
  BY DEF ProcessInv, Pipes, Killed
<1>3. InTime'
  BY DEF ProcessInv, InTime, Late
<1>4. Process!OutputIsWhole'
  BY DEF Process!OutputIsWhole
<1>5. QED
  BY <1>1, <1>2, <1>3, <1>4 DEF ProcessInv

(* The function starts the command, or fails to.                            *)
LEMMA LaunchStep ==
  ASSUME ProcessInv, Process!Launch
  PROVE  ProcessInv'
<1>1. /\ parent \in Parents /\ child \in Children /\ parent.pc = "launch"
      /\ UNCHANGED <<flavour, input, helper, stdout, written, clock>>
      /\ input \in Nat /\ stdout \in Nat /\ written \in Nat /\ clock = 0
      /\ helper = Process!Gone /\ parent.sent = 0 /\ parent.read \in Nat
      /\ ~child.alive /\ ~child.killed /\ ~child.writes /\ ~child.reads
      /\ written = 0 /\ written = stdout + parent.read
      /\ ~parent.reading /\ ~parent.reaped /\ parent.result = "none"
  BY DEF ProcessInv, ProcessType, Pipes, InTime, Process!Launch, Parents
<1>2. stdout = 0 /\ parent.read = 0
  BY <1>1
<1>3. CASE /\ parent' = [[parent EXCEPT !.pc = "ended", !.result = "failed"]
                             EXCEPT !.moved = TRUE]
           /\ UNCHANGED child
  <2>1. /\ parent' \in Parents /\ parent'.pc = "ended" /\ parent'.result = "failed"
        /\ parent'.read = 0 /\ ~parent'.reaped
    BY <1>1, <1>2, <1>3 DEF Parents
  <2>2. QED
    BY <1>1, <1>2, <1>3, <2>1
       DEF ProcessInv, ProcessType, Pipes, Killed, InTime, Process!OutputIsWhole, Process!Gone
<1>4. CASE /\ parent' = [[parent EXCEPT !.pc = "kill", !.result = "failed"]
                             EXCEPT !.moved = TRUE]
           /\ child' = [child EXCEPT !.alive = TRUE, !.writes = TRUE]
  <2>1. /\ parent' \in Parents /\ parent'.pc = "kill" /\ parent'.result = "failed"
        /\ parent'.read = 0 /\ child' \in Children /\ child'.alive
    BY <1>1, <1>2, <1>4 DEF Parents, Children
  <2>2. InTime'
    BY <1>1, <2>1, ProcessAssumption DEF InTime, Late
  <2>3. QED
    BY <1>1, <1>2, <2>1, <2>2
       DEF ProcessInv, ProcessType, Pipes, Killed, Process!OutputIsWhole
<1>5. CASE /\ parent' = [[parent EXCEPT !.pc = "loop", !.reading = TRUE,
                                        !.sending = input > 0] EXCEPT !.moved = TRUE]
           /\ child' = [child EXCEPT !.alive = TRUE, !.writes = TRUE, !.reads = input > 0]
  <2> DEFINE some == input > 0
  <2>0. /\ some \in BOOLEAN
        /\ parent' = [[parent EXCEPT !.pc = "loop", !.reading = TRUE, !.sending = some]
                        EXCEPT !.moved = TRUE]
        /\ child' = [child EXCEPT !.alive = TRUE, !.writes = TRUE, !.reads = some]
    BY <1>5
  <2>a. some <=> input > 0
    OBVIOUS
  <2> HIDE DEF some
  <2>1. /\ parent' \in Parents /\ parent'.pc = "loop" /\ parent'.result = "none"
        /\ parent'.read = 0 /\ parent'.sent = 0 /\ parent'.reading /\ ~parent'.reaped
        /\ parent'.sending = some
    BY <1>1, <1>2, <2>0 DEF Parents
  <2>2. child' \in Children /\ child'.alive /\ ~child'.killed
    BY <1>1, <2>0 DEF Children
  <2>3. InTime'
    BY <1>1, <2>1, ProcessAssumption DEF InTime, Late
  <2>4. Pipes'
    BY <1>1, <1>2, <2>a, <2>1, <2>2, ProcessAssumption DEF Pipes
  <2>5. QED
    BY <1>1, <1>2, <2>1, <2>2, <2>3, <2>4
       DEF ProcessInv, ProcessType, Killed, Process!OutputIsWhole
<1>6. QED
  BY <1>3, <1>4, <1>5 DEF Process!Launch, Process!Move

(* The function sends a unit of input, or gives it up.                      *)
LEMMA SendStep ==
  ASSUME ProcessInv, Process!SendInput
  PROVE  ProcessInv'
<1>1. /\ parent \in Parents /\ child \in Children /\ parent.pc = "loop" /\ parent.sending
      /\ clock < Timeout /\ parent.result = "none" /\ ~parent.reaped
      /\ parent.read <= MaxOutput /\ parent.sent < input
      /\ ~parent.reading => Process!EndOfOutput
      /\ UNCHANGED <<flavour, input, child, helper, stdout, written, clock>>
      /\ input \in Nat /\ stdout \in Nat /\ written = stdout + parent.read
  BY ProcessAssumption DEF ProcessInv, ProcessType, Pipes, Process!SendInput, Process!procs,
     Process!DeadlinePassed
<1>2. Process!EndOfOutput' = Process!EndOfOutput
  BY <1>1 DEF Process!EndOfOutput
<1>3. CASE ~child.reads /\ parent' = [[parent EXCEPT !.sending = FALSE] EXCEPT !.moved = TRUE]
  <2>1. /\ parent' \in Parents /\ parent'.pc = "loop" /\ parent'.moved
        /\ parent'.result = "none" /\ ~parent'.reaped /\ parent'.read = parent.read
        /\ parent'.reading = parent.reading /\ ~parent'.sending
    BY <1>1, <1>3 DEF Parents
  <2>2. QED
    BY <1>1, <1>2, <1>3, <2>1, StaysInLoop
<1>4. CASE parent' = [[parent EXCEPT !.sent = @ + 1, !.sending = parent.sent + 1 < input]
                         EXCEPT !.moved = TRUE]
  <2> DEFINE next == parent.sent + 1
             more == next < input
  <2>0. /\ more \in BOOLEAN /\ next \in Nat /\ (more => next < input)
        /\ (~more => next = input)
        /\ parent' = [[parent EXCEPT !.sent = next, !.sending = more] EXCEPT !.moved = TRUE]
    BY <1>1, <1>4 DEF Parents
  <2> HIDE DEF next, more
  <2>1. /\ parent' \in Parents /\ parent'.pc = "loop" /\ parent'.moved
        /\ parent'.result = "none" /\ ~parent'.reaped /\ parent'.read = parent.read
        /\ parent'.reading = parent.reading /\ parent'.sent = next
        /\ parent'.sending = more
    BY <1>1, <2>0 DEF Parents
  <2>2. IF parent'.sending THEN parent'.sent < input
                           ELSE parent'.sent = input \/ ~child.reads
    BY <2>0, <2>1
  <2>3. QED
    BY <1>1, <1>2, <2>1, <2>2, StaysInLoop
<1>5. QED
  BY <1>3, <1>4 DEF Process!SendInput, Process!Move

(* The function reads a unit of output, or finds the end of it.             *)
LEMMA OutputStep ==
  ASSUME ProcessInv, Process!ReadOutput
  PROVE  ProcessInv'
<1>1. /\ parent \in Parents /\ child \in Children /\ parent.pc = "loop" /\ parent.reading
      /\ clock < Timeout /\ parent.result = "none" /\ ~parent.reaped
      /\ parent.read <= MaxOutput /\ parent.read \in Nat /\ MaxOutput \in Nat
      /\ IF parent.sending THEN parent.sent < input
                            ELSE parent.sent = input \/ ~child.reads
      /\ UNCHANGED <<flavour, input, child, helper, written, clock>>
      /\ input \in Nat /\ stdout \in Nat /\ written = stdout + parent.read
  BY ProcessAssumption DEF ProcessInv, ProcessType, Pipes, Process!ReadOutput, Process!procs,
     Process!DeadlinePassed, Parents
<1>2. CASE /\ Process!EndOfOutput /\ UNCHANGED stdout
           /\ parent' = [[parent EXCEPT !.reading = FALSE] EXCEPT !.moved = TRUE]
  <2>1. /\ parent' \in Parents /\ parent'.pc = "loop" /\ parent'.moved
        /\ parent'.result = "none" /\ ~parent'.reaped /\ parent'.read = parent.read
        /\ parent'.sending = parent.sending /\ parent'.sent = parent.sent
    BY <1>1, <1>2 DEF Parents
  <2>2. Process!EndOfOutput'
    BY <1>1, <1>2 DEF Process!EndOfOutput
  <2>3. QED
    BY <1>1, <1>2, <2>1, <2>2, StaysInLoop
<1>3. CASE /\ stdout > 0 /\ stdout' = stdout - 1 /\ parent.read + 1 > MaxOutput
           /\ parent' = [[parent EXCEPT !.read = @ + 1, !.pc = "kill", !.result = "exceeded"]
                           EXCEPT !.moved = TRUE]
  <2>1. parent' = [parent EXCEPT !.pc = "kill", !.read = parent.read + 1,
                                 !.result = "exceeded", !.moved = TRUE]
    BY <1>1, <1>3 DEF Parents
  <2>2. stdout' \in Nat /\ parent.read + 1 \in Nat /\ written = stdout' + (parent.read + 1)
    BY <1>1, <1>3
  <2>3. QED
    BY <1>1, <2>1, <2>2, ToKill
<1>4. CASE /\ stdout > 0 /\ stdout' = stdout - 1 /\ parent.read + 1 <= MaxOutput
           /\ parent' = [[parent EXCEPT !.read = @ + 1] EXCEPT !.moved = TRUE]
  <2> DEFINE next == parent.read + 1
  <2>0. next \in Nat /\ parent' = [[parent EXCEPT !.read = next] EXCEPT !.moved = TRUE]
    BY <1>1, <1>4
  <2> HIDE DEF next
  <2>1. /\ parent' \in Parents /\ parent'.pc = "loop" /\ parent'.moved
        /\ parent'.result = "none" /\ ~parent'.reaped /\ parent'.read = next
        /\ parent'.sending = parent.sending /\ parent'.sent = parent.sent /\ parent'.reading
    BY <1>1, <2>0 DEF Parents
  <2> USE DEF next
  <2>2. /\ stdout' \in Nat /\ written = stdout' + parent'.read
        /\ parent'.read <= MaxOutput
    BY <1>1, <1>4, <2>1
  <2>3. QED
    BY <1>1, <2>1, <2>2, StaysInLoop
<1>5. CASE stdout > 0 /\ stdout' = stdout - 1
           /\ Process!Move(IF Process!Overflows(parent.read + 1)
                            THEN [parent EXCEPT !.read = @ + 1, !.pc = "kill",
                                                !.result = "exceeded"]
                            ELSE [parent EXCEPT !.read = @ + 1])
  <2>1. CASE parent.read + 1 > MaxOutput
    BY <1>3, <1>5, <2>1 DEF Process!Move, Process!Overflows
  <2>2. CASE ~(parent.read + 1 > MaxOutput)
    <3>1. parent.read + 1 <= MaxOutput
      BY <1>1, <2>2
    <3>2. QED
      BY <1>4, <1>5, <2>2, <3>1 DEF Process!Move, Process!Overflows
  <2>3. QED
    BY <2>1, <2>2
<1>6. QED
  BY <1>2, <1>5 DEF Process!ReadOutput, Process!Move

(* The deadline passes while the function waits, or its pipes fail it, or   *)
(* the command exits.                                                       *)
LEMMA LeaveLoop ==
  ASSUME ProcessInv, Process!LoopExpires \/ Process!LoopFails \/ Process!AwaitExit
  PROVE  ProcessInv'
<1>1. /\ parent \in Parents /\ child \in Children /\ parent.pc = "loop"
      /\ parent.result = "none" /\ parent.read <= MaxOutput /\ parent.read \in Nat
      /\ flavour \in Process!Flavours /\ clock \in Nat
      /\ ~parent.reading => Process!EndOfOutput
      /\ IF parent.sending THEN parent.sent < input
                            ELSE parent.sent = input \/ ~child.reads
      /\ UNCHANGED <<flavour, input, child, helper, stdout, written, clock>>
      /\ input \in Nat /\ stdout \in Nat /\ written = stdout + parent.read
  BY ProcessAssumption DEF ProcessInv, ProcessType, Pipes, Process!LoopExpires,
     Process!LoopFails, Process!AwaitExit, Process!procs, Parents
<1>2. ASSUME NEW result \in {"failed", "exceeded"},
             parent' = [[parent EXCEPT !.pc = "kill", !.result = result]
                          EXCEPT !.moved = TRUE]
      PROVE  ProcessInv'
  <2>1. parent' = [parent EXCEPT !.pc = "kill", !.read = parent.read, !.result = result,
                                 !.moved = TRUE]
    BY <1>1, <1>2 DEF Parents
  <2>2. QED
    BY <1>1, <2>1, ToKill
<1>3. CASE Process!LoopExpires
  BY <1>2, <1>3 DEF Process!LoopExpires, Process!Move
<1>4. CASE Process!LoopFails
  <2>1. CASE flavour = "patch" /\ ~child.alive
    <3>1. parent' = [[parent EXCEPT !.pc = "reap", !.result = "failed"] EXCEPT !.moved = TRUE]
      BY <1>4, <2>1 DEF Process!LoopFails, Process!Move
    <3>2. /\ parent' \in Parents /\ parent'.pc = "reap" /\ parent'.result = "failed"
          /\ parent'.read = parent.read
      BY <1>1, <3>1 DEF Parents
    <3>3. Killed'
      BY <1>1, <2>1, <3>2 DEF Killed
    <3>4. InTime'
      BY <1>1, <3>2, ProcessAssumption DEF ProcessInv, InTime, Late
    <3>5. QED
      BY <1>1, <3>2, <3>3, <3>4
         DEF ProcessInv, ProcessType, Pipes, Process!OutputIsWhole
  <2>2. CASE ~(flavour = "patch" /\ ~child.alive)
    BY <1>2, <1>4, <2>2 DEF Process!LoopFails, Process!Move
  <2>3. QED
    BY <2>1, <2>2
<1>5. CASE Process!AwaitExit
  <2>1. ~parent.reading /\ ~parent.sending
    BY <1>1, <1>5 DEF Process!AwaitExit, Process!Open, Parents
  <2>2. stdout = 0 /\ ~child.writes /\ ~helper.writes
    BY <1>1, <2>1 DEF Process!EndOfOutput
  <2>3. CASE parent' = [[parent EXCEPT !.pc = "kill", !.result = "exceeded"]
                          EXCEPT !.moved = TRUE]
    BY <1>2, <2>3
  <2>4. ASSUME NEW next \in {"kill", "reap"}, ~child.alive,
               flavour = "probe" => next = "kill",
               parent' = [[parent EXCEPT !.pc = next, !.result = "output", !.reaped = TRUE]
                            EXCEPT !.moved = TRUE]
        PROVE  ProcessInv'
    <3>1. /\ parent' \in Parents /\ parent'.pc = next /\ parent'.result = "output"
          /\ parent'.read = parent.read /\ parent'.sent = parent.sent
      BY <1>1, <2>4 DEF Parents
    <3>2. Pipes' /\ Process!OutputIsWhole'
      BY <1>1, <2>1, <2>2, <2>4, <3>1 DEF ProcessInv, Pipes, Process!OutputIsWhole
    <3>3. Killed'
      BY <1>1, <2>4, <3>1 DEF ProcessInv, Killed
    <3>4. InTime'
      BY <1>1, <2>4, <3>1, ProcessAssumption DEF ProcessInv, InTime, Late
    <3>5. QED
      BY <1>1, <3>1, <3>2, <3>3, <3>4 DEF ProcessInv, ProcessType
  <2>5. QED
    BY <1>5, <2>3, <2>4 DEF Process!AwaitExit, Process!Move
<1>6. QED
  BY <1>3, <1>4, <1>5

(* The group is killed: the command dies if it still runs, and its helpers  *)
(* that stayed in the group do.                                             *)
LEMMA KillStep ==
  ASSUME ProcessInv, Process!Kill
  PROVE  ProcessInv'
<1>1. /\ parent \in Parents /\ child \in Children /\ helper \in Helpers
      /\ parent.pc = "kill" /\ UNCHANGED <<flavour, input, stdout, written, clock>>
      /\ written = stdout + parent.read
      /\ clock \in Nat /\ parent' = [[parent EXCEPT !.pc = "reap"] EXCEPT !.moved = TRUE]
      /\ helper' = IF helper.inGroup THEN Process!Gone ELSE helper
  BY DEF ProcessInv, ProcessType, Pipes, Process!Kill, Process!Move, Process!KillsMember
<1>2. /\ parent' \in Parents /\ parent'.pc = "reap" /\ parent'.result = parent.result
      /\ parent'.read = parent.read /\ parent'.sent = parent.sent
  BY <1>1 DEF Parents
<1>3. /\ child' \in Children /\ ~child'.alive /\ ~child'.writes /\ ~child'.reads
      /\ child'.killed => child.alive \/ child.killed
  <2> DEFINE hit == child.alive \/ child.killed
  <2>1. /\ hit \in BOOLEAN
        /\ child' = [child EXCEPT !.killed = hit, !.alive = FALSE, !.writes = FALSE,
                                  !.reads = FALSE]
    BY <1>1 DEF Process!Kill
  <2>2. hit => child.alive \/ child.killed
    OBVIOUS
  <2> HIDE DEF hit
  <2>3. QED
    BY <1>1, <2>1, <2>2 DEF Children
<1>4. /\ helper' \in Helpers /\ ~(helper'.alive /\ helper'.inGroup)
      /\ helper'.writes => helper.writes
  BY <1>1 DEF Helpers, Process!Gone
<1>5. InTime'
  BY <1>1, <1>2, ProcessAssumption DEF ProcessInv, InTime, Late
<1>6. Process!OutputIsWhole'
  BY <1>1, <1>2, <1>3, <1>4 DEF ProcessInv, Process!OutputIsWhole
<1>7. QED
  BY <1>1, <1>2, <1>3, <1>4, <1>5, <1>6 DEF ProcessInv, ProcessType, Pipes, Killed

(* The command is waited for.                                               *)
LEMMA ReapStep ==
  ASSUME ProcessInv, Process!Reap
  PROVE  ProcessInv'
<1>1. /\ parent \in Parents /\ parent.pc = "reap"
      /\ UNCHANGED <<flavour, input, child, helper, stdout, written, clock>>
      /\ parent' = [[parent EXCEPT !.pc = "ended", !.reaped = TRUE] EXCEPT !.moved = TRUE]
  BY DEF ProcessInv, ProcessType, Process!Reap, Process!Move, Process!procs
<1>2. /\ parent' \in Parents /\ parent'.pc = "ended" /\ parent'.result = parent.result
      /\ parent'.read = parent.read /\ parent'.sent = parent.sent
  BY <1>1 DEF Parents
<1>3. Process!OutputIsWhole'
  BY <1>1, <1>2 DEF ProcessInv, Process!OutputIsWhole
<1>4. QED
  BY <1>1, <1>2, <1>3
     DEF ProcessInv, ProcessType, Pipes, Killed, InTime, Process!Flavours

(* Time passes: a function that could move has moved.                       *)
LEMMA TickStep ==
  ASSUME ProcessInv, Process!Tick
  PROVE  ProcessInv'
<1>1. /\ parent \in Parents /\ clock \in Nat /\ clock' = clock + 1
      /\ UNCHANGED <<flavour, input, child, helper, stdout, written>>
      /\ parent' = [parent EXCEPT !.moved = FALSE]
      /\ Process!Blocked \/ parent.moved
  BY DEF ProcessInv, ProcessType, Process!Tick, Process!procs
<1>2. /\ parent' \in Parents /\ parent'.pc = parent.pc /\ parent'.result = parent.result
      /\ parent'.read = parent.read /\ parent'.sent = parent.sent /\ ~parent'.moved
      /\ parent'.reading = parent.reading /\ parent'.sending = parent.sending
      /\ parent'.reaped = parent.reaped
  BY <1>1 DEF Parents
<1>3. parent.pc # "launch"
  BY <1>1 DEF ProcessInv, InTime, Process!Blocked
<1>4. InTime'
  BY <1>1, <1>2, <1>3, ProcessAssumption
     DEF ProcessInv, InTime, Late, Process!Blocked, Process!DeadlinePassed
<1>5. Process!EndOfOutput' = Process!EndOfOutput
  BY <1>1 DEF Process!EndOfOutput
<1>6. Pipes' /\ Killed'
  BY <1>1, <1>2, <1>3, <1>5 DEF ProcessInv, Pipes, Killed
<1>7. Process!OutputIsWhole'
  BY <1>1, <1>2 DEF ProcessInv, Process!OutputIsWhole
<1>8. QED
  BY <1>1, <1>2, <1>4, <1>6, <1>7 DEF ProcessInv, ProcessType

(* Every step keeps all of this.                                            *)
LEMMA ProcessStep == ProcessInv /\ [Process!Next]_(Process!vars) => ProcessInv'
<1>1. CASE UNCHANGED Process!vars
  BY <1>1 DEF Process!vars, ProcessInv, ProcessType, Pipes, Killed, InTime, Late,
     Process!OutputIsWhole, Process!EndOfOutput
<1>2. CASE Process!Next
  BY <1>2, CommandStep, LaunchStep, SendStep, OutputStep, LeaveLoop, KillStep, ReapStep,
     TickStep
     DEF Process!Next
<1>3. QED
  BY <1>1, <1>2

(* What is returned as the output of a command is all of its output, and    *)
(* its return code is its own; a command that is over a limit does not      *)
(* outlive the function, nor does what it started in its group; and the     *)
(* function is back soon after the deadline, whatever the command does with *)
(* its pipes. (git_apply.py:1894-2022, project_facts.py:1210-1294)          *)
THEOREM CommandsAreBounded == Spec => []ProcessIsBounded
<1>1. Init => (focus = "process" => ProcessInv)
  BY ProcessInit DEF Init
<1>2. (focus = "process" => ProcessInv) /\ [Next]_vars => (focus = "process" => ProcessInv)'
  BY FocusStays, ProcessMoves, ProcessStep
<1>3. (focus = "process" => ProcessInv) => ProcessIsBounded
  <2>1. SUFFICES ASSUME ProcessInv PROVE Process!OutputIsWhole /\ Process!StoppedInTime
    BY DEF ProcessIsBounded
  <2>2. /\ parent \in Parents /\ clock \in Nat
    BY <2>1 DEF ProcessInv, ProcessType
  <2>3. Process!StoppedInTime
    BY <2>1, <2>2, ProcessAssumption
       DEF ProcessInv, Killed, InTime, Late, Parents, Process!StoppedInTime
  <2>4. QED
    BY <2>1, <2>3 DEF ProcessInv
<1>4. QED
  BY <1>1, <1>2, <1>3, PTL DEF Spec

-----------------------------------------------------------------------------
(* The public snapshot.                                                     *)

(* While the focus is on the snapshot, it moves alone.                      *)
LEMMA SnapshotMoves ==
  ASSUME [Next]_vars, focus = "snapshot"
  PROVE  [Snapshot!Next]_(Snapshot!vars)
<1>1. CASE UNCHANGED vars
  BY <1>1 DEF vars, snapshotVars, Snapshot!vars
<1>2. CASE Next
  BY <1>2 DEF Next, Snapshot!Next
<1>3. QED
  BY <1>1, <1>2

(* The steps of a run: before it has the branch, while it builds, and those *)
(* of the way back and of putting a directory aside.                        *)
Before == {"start", "reserve", "ref"}
Building == {"add", "bind", "write", "verify", "retarget", "rename", "confirm"}
PuttingAside == {"isolate", "inspect"}
Steps == Before \cup Building \cup PuttingAside
         \cup {"last", "done", "rollback", "unmeta", "unanchor", "unref", "failed"}

(* What a run puts aside, and where it goes on: its private directory when  *)
(* all is done, and in a rollback its worktree, metadata and directory.     *)
Errand(place, inode, then, else) ==
  [place |-> place, inode |-> inode, then |-> then, else |-> else]
Errands(b) ==
  {Errand(Snapshot!Anchor(b), Snapshot!Anchor(b), "last", "rollback"),
   Errand(Snapshot!Final, Snapshot!Work(b), "unmeta", "unref"),
   Errand(Snapshot!Staging(b), Snapshot!Work(b), "unmeta", "unref"),
   Errand(Snapshot!Meta(b), Snapshot!Meta(b), "unanchor", "unref"),
   Errand(Snapshot!Anchor(b), Snapshot!Anchor(b), "unref", "unref")}

SnapshotType ==
  /\ at \in [Snapshot!Places -> Snapshot!Inodes \cup {NONE}]
  /\ content \in [Snapshot!Inodes -> {"empty", "marker", "tree", "user", "gone"}]
  /\ gitdir \in [Builders -> {NONE, "staging", "final"}]
  /\ ref \in {NONE} \cup [oid : {"snapshot"}, by : Builders] \cup [oid : {"other"}, by : {NONE}]
  /\ aside \subseteq Snapshot!Inodes \X Snapshot!Places
  /\ pc \in [Builders -> Steps]
  /\ DOMAIN todo = Builders
  /\ \A b \in Builders : pc[b] \in PuttingAside => todo[b] \in Errands(b)
  /\ bound \in [Builders -> BOOLEAN]
  /\ created \subseteq Builders
  /\ swaps \in Nat /\ swaps <= MaxSwaps

(* A run is at one of the steps, or puts aside what comes before it.        *)
Heading(b, steps) == pc[b] \in steps \/ (pc[b] \in PuttingAside /\ todo[b].then \in steps)

(* The worktree of a run has been looked for and taken away.                *)
TakenDown(b) ==
  \/ pc[b] \in {"unmeta", "unanchor", "unref", "failed"}
  \/ pc[b] = "inspect" /\ todo[b].then # "last"
  \/ pc[b] = "isolate" /\ todo[b].then \in {"unanchor", "unref"}

(* Each place holds what its run put there, or what others did; and a       *)
(* worktree is in one of them.                                              *)
AtHome(b) ==
  /\ at[Snapshot!Staging(b)] \in {Snapshot!Work(b), NONE} \cup Snapshot!Users
  /\ at[Snapshot!Anchor(b)] \in {Snapshot!Anchor(b), NONE} \cup Snapshot!Users
  /\ at[Snapshot!Meta(b)] \in {Snapshot!Meta(b), NONE} \cup Snapshot!Users
  /\ at[Snapshot!Staging(b)] = Snapshot!Work(b) => at[Snapshot!Final] # Snapshot!Work(b)
  /\ pc[b] \in {"start", "reserve"} => at[Snapshot!Staging(b)] = NONE
  /\ TakenDown(b) => Snapshot!Work(b) \notin {at[Snapshot!Final], at[Snapshot!Staging(b)]}

(* A published worktree is whole, and its run has the branch; one run at a  *)
(* time has it, from its creation to its removal.                           *)
Running(b) == b \in created /\ pc[b] # "failed"
Owns(b) ==
  /\ at[Snapshot!Final] = Snapshot!Work(b) => Running(b) /\ content[Snapshot!Work(b)] = "tree"
  /\ pc[b] \in {"retarget", "rename"} => content[Snapshot!Work(b)] = "tree"
  /\ pc[b] \in Before => b \notin created
  /\ pc[b] \in Building => b \in created
  /\ pc[b] \in PuttingAside => (todo[b].place = Snapshot!Final => b \in created)
  /\ Running(b) => ref # NONE
OneOwner ==
  /\ \A b, c \in Builders : Running(b) /\ Running(c) => b = c
  /\ ref # NONE => (ref.oid = "snapshot" => Running(ref.by))

(* What was put aside is looked at by its run, or is that of others, and    *)
(* they have its name again.                                                *)
NothingAside(p) == \A i \in Snapshot!Inodes : <<i, p>> \notin aside
AsideOrBack ==
  \A i \in Snapshot!Inodes, p \in Snapshot!Places : <<i, p>> \in aside =>
    \/ i \in Snapshot!Users /\ at[p] \in Snapshot!Users
    \/ \E b \in Builders : pc[b] = "inspect" /\ todo[b].place = p

(* A run puts one directory aside at a place, and has not done so before.   *)
OneAside(b) ==
  /\ pc[b] = "isolate" =>
       /\ at[todo[b].place] \in {todo[b].inode, NONE} \cup Snapshot!Users
       /\ NothingAside(todo[b].place)
       /\ todo[b].then = "unmeta" =>
            \A p \in {Snapshot!Final, Snapshot!Staging(b)} :
              p # todo[b].place => at[p] # Snapshot!Work(b)
  /\ pc[b] = "inspect" =>
       /\ at[todo[b].place] \in {NONE} \cup Snapshot!Users
       /\ \E i \in {todo[b].inode} \cup Snapshot!Users :
            \A j \in Snapshot!Inodes : <<j, todo[b].place>> \in aside <=> j = i
  /\ pc[b] \in Before \cup Building =>
       NothingAside(Snapshot!Staging(b)) /\ NothingAside(Snapshot!Anchor(b))
  /\ ~Heading(b, {"unanchor", "unref", "failed", "done"}) => NothingAside(Snapshot!Meta(b))

(* As long as nobody interferes, a run finds its directories where it left  *)
(* them.                                                                    *)
Alone ==
  /\ \A p \in Snapshot!Places : at[p] \notin Snapshot!Users
  /\ \A i \in Snapshot!Users, p \in Snapshot!Places : <<i, p>> \notin aside
  /\ ref # NONE => ref.oid = "snapshot"
InPlace(b) ==
  /\ pc[b] \in ({"ref"} \cup Building) \ {"confirm"} =>
       /\ at[Snapshot!Staging(b)] = Snapshot!Work(b)
       /\ at[Snapshot!Anchor(b)] = Snapshot!Anchor(b)
  /\ pc[b] = "confirm" => at[Snapshot!Anchor(b)] = Snapshot!Anchor(b)
  /\ Heading(b, {"confirm", "last"}) => at[Snapshot!Final] = Snapshot!Work(b)
  /\ pc[b] = "bind" => Snapshot!Bindable(b)
  /\ Heading(b, {"write", "verify", "retarget", "rename", "confirm", "last", "unmeta"}) =>
       (at[Snapshot!Meta(b)] # NONE <=> bound[b])
  /\ pc[b] = "rollback" =>
       /\ Snapshot!Work(b) \in {at[Snapshot!Final], at[Snapshot!Staging(b)]}
       /\ at[Snapshot!Meta(b)] # NONE <=> Snapshot!Rebound(b)
  /\ pc[b] = "isolate" => at[todo[b].place] = todo[b].inode
  /\ pc[b] \in Before \cup {"add"} => at[Snapshot!Meta(b)] = NONE /\ ~bound[b]
  /\ Heading(b, {"unref", "failed"}) \/ pc[b] = "unanchor"
     \/ (pc[b] = "inspect" /\ todo[b].then = "unanchor") => at[Snapshot!Meta(b)] = NONE

Mine(b) == AtHome(b) /\ Owns(b) /\ OneAside(b) /\ (swaps = 0 => InPlace(b))

SnapshotInv ==
  /\ SnapshotType /\ OneOwner /\ AsideOrBack
  /\ swaps = 0 => Alone
  /\ \A b \in Builders : Mine(b)

(* What the names stand for: each run has its own places and directories,   *)
(* and none of these is anybody else's.                                     *)
LEMMA Names ==
  /\ Snapshot!Final \in Snapshot!Places
  /\ Snapshot!Users \subseteq Snapshot!Inodes
  /\ \A b \in Builders :
       /\ {Snapshot!Staging(b), Snapshot!Anchor(b), Snapshot!Meta(b)} \subseteq Snapshot!Places
       /\ {Snapshot!Work(b), Snapshot!Anchor(b), Snapshot!Meta(b)} \subseteq Snapshot!Inodes
       /\ {Snapshot!Work(b), Snapshot!Anchor(b), Snapshot!Meta(b)} \cap Snapshot!Users = {}
       /\ Snapshot!Work(b) # Snapshot!Anchor(b) /\ Snapshot!Work(b) # Snapshot!Meta(b)
       /\ Snapshot!Staging(b) # Snapshot!Anchor(b) /\ Snapshot!Staging(b) # Snapshot!Meta(b)
       /\ Snapshot!Anchor(b) # Snapshot!Meta(b)
       /\ Snapshot!Final \notin {Snapshot!Staging(b), Snapshot!Anchor(b), Snapshot!Meta(b)}
  /\ \A b, c \in Builders : b # c =>
       /\ Snapshot!Work(b) \notin {Snapshot!Work(c), Snapshot!Anchor(c), Snapshot!Meta(c)}
       /\ \A p \in {Snapshot!Staging(b), Snapshot!Anchor(b), Snapshot!Meta(b)} :
            p \notin {Snapshot!Staging(c), Snapshot!Anchor(c), Snapshot!Meta(c)}
  /\ NONE \notin Snapshot!Inodes
  BY SnapshotAssumption
     DEF Snapshot!Final, Snapshot!Places, Snapshot!Users, Snapshot!Inodes, Snapshot!Staging,
         Snapshot!Anchor, Snapshot!Meta, Snapshot!Work

(* The parts of an errand.                                                  *)
LEMMA ErrandFacts ==
  ASSUME NEW b \in Builders, NEW e \in Errands(b)
  PROVE  /\ e.place \in {Snapshot!Final, Snapshot!Staging(b), Snapshot!Anchor(b),
                         Snapshot!Meta(b)}
         /\ e.place \in Snapshot!Places
         /\ e.inode \in {Snapshot!Work(b), Snapshot!Anchor(b), Snapshot!Meta(b)}
         /\ e.inode \in Snapshot!Inodes
         /\ e.place \in {Snapshot!Final, Snapshot!Staging(b)} =>
              e.inode = Snapshot!Work(b) /\ e.then = "unmeta" /\ e.else = "unref"
         /\ e.then = "unmeta" => e.place \in {Snapshot!Final, Snapshot!Staging(b)}
         /\ e.place = Snapshot!Anchor(b) => e.inode = Snapshot!Anchor(b)
         /\ e.place = Snapshot!Anchor(b) => e.then \in {"last", "unref"}
         /\ e.then \in {"last", "unref"} => e.place = Snapshot!Anchor(b)
         /\ e.then = "last" => e.else = "rollback"
         /\ e.then # "last" => e.else = "unref"
         /\ e.then = "unanchor" <=> e.place = Snapshot!Meta(b)
         /\ e.place = Snapshot!Meta(b) => e.inode = Snapshot!Meta(b)
         /\ e.then \in {"last", "unmeta", "unanchor", "unref"}
         /\ e.else \in {"rollback", "unref"}
<1>1. e \in {Errand(Snapshot!Anchor(b), Snapshot!Anchor(b), "last", "rollback"),
             Errand(Snapshot!Final, Snapshot!Work(b), "unmeta", "unref"),
             Errand(Snapshot!Staging(b), Snapshot!Work(b), "unmeta", "unref"),
             Errand(Snapshot!Meta(b), Snapshot!Meta(b), "unanchor", "unref"),
             Errand(Snapshot!Anchor(b), Snapshot!Anchor(b), "unref", "unref")}
  BY DEF Errands
<1>2. QED
  BY <1>1, Names DEF Errand

(* A run that does not move, and whose places nobody touches, keeps what is  *)
(* its own; the final path may change while it does not have the branch.    *)
LEMMA Untouched ==
  ASSUME SnapshotInv, NEW c \in Builders,
         pc'[c] = pc[c], todo'[c] = todo[c], bound'[c] = bound[c], gitdir'[c] = gitdir[c],
         content'[Snapshot!Work(c)] = content[Snapshot!Work(c)],
         (c \in created)' <=> (c \in created),
         Running(c) => ref' # NONE,
         swaps' = swaps,
         \A p \in {Snapshot!Staging(c), Snapshot!Anchor(c), Snapshot!Meta(c)} :
           /\ at'[p] = at[p]
           /\ \A i \in Snapshot!Inodes : <<i, p>> \in aside' <=> <<i, p>> \in aside,
         \/ /\ at'[Snapshot!Final] = at[Snapshot!Final]
            /\ \A i \in Snapshot!Inodes :
                 <<i, Snapshot!Final>> \in aside' <=> <<i, Snapshot!Final>> \in aside
         \/ ~Running(c) /\ at'[Snapshot!Final] # Snapshot!Work(c)
  PROVE  Mine(c)'
<1>0. Mine(c)
  BY DEF SnapshotInv
<1>1. pc[c] \in PuttingAside => todo[c] \in Errands(c)
  BY DEF SnapshotInv, SnapshotType
<1>2. CASE ~Running(c) /\ at'[Snapshot!Final] # Snapshot!Work(c)
  <2>1. at[Snapshot!Final] # Snapshot!Work(c)
    BY <1>0, <1>2 DEF Mine, Owns
  <2>2. pc[c] \in PuttingAside => todo[c].place # Snapshot!Final
    BY <1>0, <1>2 DEF Mine, Owns, Running, PuttingAside
  <2>3. ~Running(c)'
    BY <1>2 DEF Running
  <2>4. AtHome(c)'
    BY <1>0, <1>2 DEF Mine, AtHome, TakenDown
  <2>5. Owns(c)'
    BY <1>0, <1>2, <2>2, <2>3 DEF Mine, Owns
  <2>6. OneAside(c)'
    <3>1. pc[c] \in PuttingAside =>
            todo[c].place \in {Snapshot!Staging(c), Snapshot!Anchor(c), Snapshot!Meta(c)}
      BY <1>1, <2>2, ErrandFacts
    <3>2. QED
      BY <1>0, <1>2, <3>1, Names DEF Mine, OneAside, NothingAside, Heading, PuttingAside
  <2>7. (swaps = 0 => InPlace(c))'
    <3> SUFFICES ASSUME swaps' = 0 PROVE InPlace(c)'
      OBVIOUS
    <3>1. InPlace(c)
      BY <1>0 DEF Mine
    <3>2. ~Heading(c, {"confirm", "last"})
      BY <2>1, <3>1 DEF InPlace
    <3>3. pc[c] \in PuttingAside =>
            todo[c].place \in {Snapshot!Staging(c), Snapshot!Anchor(c), Snapshot!Meta(c)}
      BY <1>1, <2>2, ErrandFacts
    <3>4. QED
      BY <2>1, <3>1, <3>2, <3>3 DEF InPlace, Heading, Snapshot!Bindable, Snapshot!Rebound,
                                    Snapshot!Intact, Snapshot!AtStagingPath, PuttingAside
  <2>8. QED
    BY <2>4, <2>5, <2>6, <2>7 DEF Mine
<1>3. CASE /\ at'[Snapshot!Final] = at[Snapshot!Final]
           /\ \A i \in Snapshot!Inodes :
                <<i, Snapshot!Final>> \in aside' <=> <<i, Snapshot!Final>> \in aside
  <2>1. Running(c)' <=> Running(c)
    BY DEF Running
  <2>2. AtHome(c)' /\ Owns(c)'
    BY <1>0, <1>3, <2>1 DEF Mine, AtHome, Owns, TakenDown
  <2>3. pc[c] \in PuttingAside =>
          /\ at'[todo[c].place] = at[todo[c].place]
          /\ \A i \in Snapshot!Inodes :
               <<i, todo[c].place>> \in aside' <=> <<i, todo[c].place>> \in aside
    BY <1>1, <1>3, ErrandFacts
  <2>4. OneAside(c)'
    BY <1>0, <1>3, <2>3 DEF Mine, OneAside, NothingAside, Heading, PuttingAside
  <2>5. (swaps = 0 => InPlace(c))'
    BY <1>0, <1>3, <2>3 DEF Mine, InPlace, Heading, Snapshot!Bindable, Snapshot!Rebound,
                            Snapshot!Intact, Snapshot!AtStagingPath, PuttingAside
  <2>6. QED
    BY <2>2, <2>4, <2>5 DEF Mine
<1>4. QED
  BY <1>2, <1>3

(* A step of one run that moves no directory and does not touch the branch  *)
(* concerns no other run.                                                   *)
LEMMA QuietRun ==
  ASSUME SnapshotInv, NEW b \in Builders, NEW s \in Steps,
         pc' = [pc EXCEPT ![b] = s], pc[b] # "inspect",
         UNCHANGED <<at, aside, swaps, ref, created>>,
         \A c \in Builders \ {b} :
           /\ todo'[c] = todo[c] /\ bound'[c] = bound[c] /\ gitdir'[c] = gitdir[c]
           /\ content'[Snapshot!Work(c)] = content[Snapshot!Work(c)],
         s = "failed" => b \notin created,
         pc[b] = "failed" => b \notin created,
         SnapshotType', Mine(b)'
  PROVE  SnapshotInv'
<1>1. pc'[b] = s /\ \A c \in Builders \ {b} : pc'[c] = pc[c]
  BY DEF SnapshotInv, SnapshotType
<1>2. \A c \in Builders : Running(c)' <=> Running(c)
  BY <1>1 DEF Running
<1>3. \A c \in Builders \ {b} : Mine(c)'
  <2> SUFFICES ASSUME NEW c \in Builders \ {b} PROVE Mine(c)'
    OBVIOUS
  <2>1. Running(c) => ref' # NONE
    BY DEF SnapshotInv, Mine, Owns
  <2>2. QED
    BY <1>1, <2>1, Untouched
<1>4. OneOwner'
  <2>1. ref # NONE /\ ref.oid = "snapshot" => ref.by \in Builders
    BY DEF SnapshotInv, OneOwner, SnapshotType, Running
  <2>2. QED
    BY <1>2, <2>1 DEF SnapshotInv, OneOwner
<1>5. AsideOrBack'
  <2>1. \A c \in Builders : pc[c] = "inspect" => pc'[c] = "inspect" /\ todo'[c] = todo[c]
    BY <1>1
  <2>2. QED
    BY <2>1 DEF SnapshotInv, AsideOrBack
<1>6. (swaps = 0 => Alone)'
  BY DEF SnapshotInv, Alone
<1>7. QED
  BY <1>3, <1>4, <1>5, <1>6 DEF SnapshotInv

(* The steps of a run that only look at what is there, and those that write *)
(* into the worktree and its metadata.                                      *)
LEMMA LookingStep ==
  ASSUME SnapshotInv, NEW b \in Builders,
         \/ Snapshot!Check(b) \/ Snapshot!Verify(b) \/ Snapshot!Finish(b)
         \/ Snapshot!BindMetadata(b) \/ Snapshot!Materialize(b) \/ Snapshot!RewriteGitdir(b)
  PROVE  SnapshotInv'
<1> USE DEF Snapshot!Go
<1>0. Mine(b) /\ SnapshotType
  BY DEF SnapshotInv
<1>1. PICK s \in Steps \ {"failed"} :
        /\ <<pc[b], s>> \in {<<"start", "reserve">>, <<"verify", "retarget">>, <<"last", "done">>,
                             <<"bind", "write">>, <<"write", "verify">>,
                             <<"retarget", "rename">>}
        /\ pc' = [pc EXCEPT ![b] = s]
  BY DEF Snapshot!Check, Snapshot!Verify, Snapshot!Finish, Snapshot!BindMetadata,
         Snapshot!Materialize, Snapshot!RewriteGitdir, Steps, Before, Building
<1>2. /\ UNCHANGED <<at, aside, swaps, ref, created, todo>>
      /\ pc[b] # "bind" => bound' = bound
      /\ pc[b] = "bind" => bound' = [bound EXCEPT ![b] = TRUE]
      /\ pc[b] # "retarget" => gitdir' = gitdir
      /\ pc[b] = "retarget" => gitdir' = [gitdir EXCEPT ![b] = "final"]
      /\ pc[b] # "write" => content' = content
      /\ pc[b] = "write" => content' \in {content, [content EXCEPT ![Snapshot!Work(b)] = "tree"]}
  BY DEF Snapshot!Check, Snapshot!Verify, Snapshot!Finish, Snapshot!BindMetadata,
         Snapshot!Materialize, Snapshot!RewriteGitdir
<1>3. pc[b] = "verify" => content[Snapshot!Work(b)] = "tree"
  BY DEF Snapshot!Check, Snapshot!Verify, Snapshot!Finish, Snapshot!BindMetadata,
         Snapshot!Materialize, Snapshot!RewriteGitdir
<1>4. /\ pc'[b] = s /\ \A c \in Builders \ {b} : pc'[c] = pc[c]
      /\ \A c \in Builders \ {b} : bound'[c] = bound[c] /\ gitdir'[c] = gitdir[c]
      /\ pc[b] # "bind" => bound'[b] = bound[b]
      /\ pc[b] = "bind" => bound'[b]
  BY <1>0, <1>1, <1>2 DEF SnapshotType
<1>5. /\ \A c \in Builders \ {b} :
            content'[Snapshot!Work(c)] = content[Snapshot!Work(c)]
      /\ content[Snapshot!Work(b)] = "tree" => content'[Snapshot!Work(b)] = "tree"
  BY <1>0, <1>2, Names DEF SnapshotType
<1>6. SnapshotType'
  <2>1. /\ content' \in [Snapshot!Inodes -> {"empty", "marker", "tree", "user", "gone"}]
        /\ gitdir' \in [Builders -> {NONE, "staging", "final"}]
        /\ bound' \in [Builders -> BOOLEAN] /\ pc' \in [Builders -> Steps]
    BY <1>0, <1>1, <1>2 DEF SnapshotType
  <2>2. \A c \in Builders : pc'[c] \in PuttingAside => todo'[c] \in Errands(c)
    BY <1>0, <1>1, <1>2, <1>4 DEF SnapshotType, PuttingAside
  <2>3. QED
    BY <1>0, <1>2, <2>1, <2>2 DEF SnapshotType
<1>7. Mine(b)'
  <2>1. AtHome(b)'
    BY <1>0, <1>1, <1>2, <1>4 DEF Mine, AtHome, TakenDown
  <2>2. Owns(b)'
    BY <1>0, <1>1, <1>2, <1>3, <1>4, <1>5
       DEF Mine, Owns, Running, Before, Building, PuttingAside
  <2>3. OneAside(b)'
    BY <1>0, <1>1, <1>2, <1>4
       DEF Mine, OneAside, NothingAside, Heading, Before, Building, PuttingAside
  <2>4. (swaps = 0 => InPlace(b))'
    <3>1. pc[b] = "bind" /\ swaps = 0 => at[Snapshot!Meta(b)] # NONE
      BY <1>0, Names DEF Mine, InPlace, Snapshot!Bindable
    <3>2. QED
      BY <1>0, <1>1, <1>2, <1>4, <3>1
         DEF Mine, InPlace, Heading, Before, Building, PuttingAside
  <2>5. QED
    BY <2>1, <2>2, <2>3, <2>4 DEF Mine
<1>8. QED
  BY <1>1, <1>2, <1>4, <1>5, <1>6, <1>7, QuietRun

(* Where the directory of a run is, nothing has been put aside.             *)
LEMMA NothingAsideHere ==
  ASSUME SnapshotInv, NEW p \in Snapshot!Places, at[p] \notin {NONE} \cup Snapshot!Users
  PROVE  NothingAside(p)
<1> SUFFICES ASSUME NEW i \in Snapshot!Inodes, <<i, p>> \in aside PROVE FALSE
  BY DEF NothingAside
<1>1. PICK c \in Builders : pc[c] = "inspect" /\ todo[c].place = p
  BY DEF SnapshotInv, AsideOrBack
<1>2. QED
  BY <1>1 DEF SnapshotInv, Mine, OneAside

(* The type of what a quiet step leaves.                                    *)
LEMMA QuietType ==
  ASSUME SnapshotInv, NEW b \in Builders, NEW s \in Steps, pc' = [pc EXCEPT ![b] = s],
         UNCHANGED <<at, content, aside, swaps, ref, created>>,
         gitdir' \in [Builders -> {NONE, "staging", "final"}],
         bound' \in [Builders -> BOOLEAN],
         \/ todo' = todo /\ s \notin PuttingAside
         \/ \E e \in Errands(b) : todo' = [todo EXCEPT ![b] = e]
  PROVE  /\ SnapshotType'
         /\ pc'[b] = s
         /\ \A c \in Builders \ {b} : todo'[c] = todo[c]
<1>1. SnapshotType /\ pc' \in [Builders -> Steps] /\ pc'[b] = s
      /\ \A c \in Builders \ {b} : pc'[c] = pc[c]
  BY DEF SnapshotInv, SnapshotType
<1>2. /\ DOMAIN todo' = Builders
      /\ \A c \in Builders \ {b} : todo'[c] = todo[c]
      /\ s \in PuttingAside => todo'[b] \in Errands(b)
  BY <1>1 DEF SnapshotType
<1>3. \A c \in Builders : pc'[c] \in PuttingAside => todo'[c] \in Errands(c)
  BY <1>1, <1>2 DEF SnapshotType
<1>4. QED
  BY <1>1, <1>2, <1>3 DEF SnapshotType

(* A step that is refused, or fails: the way back begins.                   *)
LEMMA FailStep ==
  ASSUME SnapshotInv, NEW b \in Builders, Snapshot!Fail(b)
  PROVE  SnapshotInv'
<1>0. Mine(b) /\ SnapshotType
  BY DEF SnapshotInv
<1>1. PICK s \in {"failed", "rollback"} :
        /\ pc[b] \in {"reserve", "ref", "last"} \cup Building
        /\ s = "failed" <=> pc[b] = "reserve"
        /\ pc' = [pc EXCEPT ![b] = s]
        /\ UNCHANGED <<at, content, aside, swaps, ref, created, todo, bound>>
        /\ gitdir' \in {gitdir, [gitdir EXCEPT ![b] = "staging"]}
        /\ pc[b] # "rename" => gitdir' = gitdir
  BY DEF Snapshot!Fail, Snapshot!Forward, Snapshot!Go, Building
<1>2. gitdir' \in [Builders -> {NONE, "staging", "final"}]
      /\ \A c \in Builders \ {b} : gitdir'[c] = gitdir[c]
  BY <1>0, <1>1 DEF SnapshotType
<1>3. s \in Steps /\ s \notin PuttingAside /\ pc[b] # "inspect" /\ pc[b] \notin {"failed"}
      /\ bound' \in [Builders -> BOOLEAN]
  BY <1>0, <1>1 DEF Steps, PuttingAside, Building, SnapshotType
<1>4. SnapshotType' /\ pc'[b] = s
  BY <1>1, <1>2, <1>3, QuietType
<1>5. Mine(b)'
  <2>1. AtHome(b)'
    BY <1>0, <1>1, <1>4, Names DEF Mine, AtHome, Owns, Running, TakenDown, Before
  <2>2. Owns(b)'
    BY <1>0, <1>1, <1>4 DEF Mine, Owns, Running, Before, Building, PuttingAside
  <2>3. OneAside(b)'
    BY <1>0, <1>1, <1>4 DEF Mine, OneAside, NothingAside, Heading, Before, Building,
                            PuttingAside
  <2>4. ASSUME swaps' = 0 PROVE InPlace(b)'
    <3>1. InPlace(b)
      BY <1>0, <1>1, <2>4 DEF Mine
    <3>2. CASE pc[b] = "reserve"
      BY <1>1, <1>4, <3>1, <3>2 DEF InPlace, Heading, Before, Building, PuttingAside
    <3>3. CASE pc[b] # "reserve"
      <4>1. Snapshot!Work(b) \in {at[Snapshot!Final], at[Snapshot!Staging(b)]}
        BY <1>1, <3>1, <3>3 DEF InPlace, Heading, Building
      <4>2. at[Snapshot!Meta(b)] # NONE <=> Snapshot!Rebound(b)'
        <5>1. CASE pc[b] \in {"ref", "add"}
          BY <1>1, <3>1, <5>1, Names
             DEF InPlace, Before, Snapshot!Rebound, Snapshot!Bindable
        <5>2. CASE pc[b] = "bind"
          BY <1>1, <3>1, <5>2, Names DEF InPlace, Snapshot!Rebound, Snapshot!Bindable,
             Snapshot!Intact, Snapshot!AtStagingPath
        <5>3. CASE pc[b] \notin {"ref", "add", "bind"}
          BY <1>1, <3>1, <3>3, <5>3, Names
             DEF InPlace, Heading, Building, Snapshot!Rebound, Snapshot!Bindable
        <5>4. QED
          BY <5>1, <5>2, <5>3
      <4>3. QED
        BY <1>1, <1>4, <3>3, <4>1, <4>2 DEF InPlace, Heading, Before, Building, PuttingAside
    <3>4. QED
      BY <3>2, <3>3
  <2>5. QED
    BY <2>1, <2>2, <2>3, <2>4 DEF Mine
<1>6. s = "failed" => b \notin created
  BY <1>0, <1>1 DEF Mine, Owns, Before
<1>7. QED
  BY <1>1, <1>2, <1>3, <1>4, <1>5, <1>6, QuietRun

(* A run sets out to put something aside: its private directory when all is *)
(* done; and on the way back its worktree where that is, the metadata if     *)
(* they are bound, and its directory.                                       *)
LEMMA SetOut ==
  ASSUME SnapshotInv, NEW b \in Builders,
         \/ Snapshot!Confirm(b) \/ Snapshot!Rollback(b) \/ Snapshot!RemoveMetadata(b)
         \/ Snapshot!RemoveAnchor(b)
  PROVE  SnapshotInv'
<1> USE DEF Snapshot!Go, Snapshot!Isolating
<1>0. Mine(b) /\ SnapshotType
  BY DEF SnapshotInv
<1>1. PICK s \in {"isolate", "unref", "unanchor"} : pc' = [pc EXCEPT ![b] = s]
  BY DEF Snapshot!Confirm, Snapshot!Rollback, Snapshot!RemoveMetadata, Snapshot!RemoveAnchor
<1>2. /\ UNCHANGED <<at, content, aside, swaps, ref, created, gitdir>>
      /\ pc[b] \in {"confirm", "rollback", "unmeta", "unanchor"}
      /\ pc[b] # "rollback" => bound' = bound
      /\ pc[b] = "rollback" => bound' = [bound EXCEPT ![b] = Snapshot!Rebound(b)]
  BY DEF Snapshot!Confirm, Snapshot!Rollback, Snapshot!RemoveMetadata, Snapshot!RemoveAnchor
<1>3. /\ bound' \in [Builders -> BOOLEAN] /\ gitdir' \in [Builders -> {NONE, "staging", "final"}]
      /\ \A c \in Builders \ {b} : bound'[c] = bound[c] /\ gitdir'[c] = gitdir[c]
      /\ pc[b] # "rollback" => bound'[b] = bound[b]
      /\ pc[b] = "rollback" => (bound'[b] <=> Snapshot!Rebound(b))
  <2>1. Snapshot!Rebound(b) \in BOOLEAN
    BY <1>0 DEF SnapshotType, Snapshot!Rebound, Snapshot!Bindable
  <2>2. QED
    BY <1>0, <1>2, <2>1 DEF SnapshotType
<1>4. s \in Steps /\ pc[b] \notin {"inspect", "failed"} /\ s # "failed"
  BY <1>2 DEF Steps, PuttingAside
<1>5. SUFFICES /\ \/ todo' = todo /\ s \notin PuttingAside
                  \/ \E e \in Errands(b) : todo' = [todo EXCEPT ![b] = e]
               /\ SnapshotType' /\ pc'[b] = s
                  /\ (\A c \in Builders \ {b} : todo'[c] = todo[c]) => Mine(b)'
  BY <1>1, <1>2, <1>3, <1>4, QuietType, QuietRun, ZenonT(60)
<1>6. CASE /\ s = "isolate"
           /\ \E e \in Errands(b) :
                /\ todo' = [todo EXCEPT ![b] = e]
                /\ \/ pc[b] = "confirm" /\ e.then = "last"
                   \/ /\ pc[b] = "rollback" /\ e.then = "unmeta"
                      /\ \A p \in {Snapshot!Final, Snapshot!Staging(b)} :
                           at[p] = Snapshot!Work(b) <=> p = e.place
                   \/ pc[b] = "unmeta" /\ e.then = "unanchor" /\ bound[b]
                   \/ pc[b] = "unanchor" /\ e.then = "unref" /\ at[e.place] = Snapshot!Anchor(b)
  <2>1. PICK e \in Errands(b) :
          /\ todo' = [todo EXCEPT ![b] = e]
          /\ \/ pc[b] = "confirm" /\ e.then = "last"
             \/ /\ pc[b] = "rollback" /\ e.then = "unmeta"
                /\ \A p \in {Snapshot!Final, Snapshot!Staging(b)} :
                     at[p] = Snapshot!Work(b) <=> p = e.place
             \/ pc[b] = "unmeta" /\ e.then = "unanchor" /\ bound[b]
             \/ pc[b] = "unanchor" /\ e.then = "unref" /\ at[e.place] = Snapshot!Anchor(b)
    BY <1>6
  <2>2. SUFFICES ASSUME SnapshotType', pc'[b] = "isolate" PROVE Mine(b)'
    BY <1>6
  <2>3. todo'[b] = e
    BY <1>0, <2>1 DEF SnapshotType
  <2>4. /\ e.place \in Snapshot!Places
        /\ at[e.place] \in {e.inode, NONE} \cup Snapshot!Users
        /\ NothingAside(e.place)
    <3>1. CASE pc[b] = "confirm"
      BY <1>0, <2>1, <3>1, ErrandFacts, Names DEF Mine, AtHome, OneAside, Building
    <3>2. CASE pc[b] = "rollback"
      <4>1. at[e.place] = Snapshot!Work(b) /\ e.inode = Snapshot!Work(b)
            /\ e.place \in Snapshot!Places
        BY <2>1, <3>2, ErrandFacts, Names
      <4>2. QED
        BY <4>1, NothingAsideHere, Names
    <3>3. CASE pc[b] = "unmeta"
      BY <1>0, <2>1, <3>3, ErrandFacts, Names DEF Mine, AtHome, OneAside, Heading, PuttingAside
    <3>4. CASE pc[b] = "unanchor"
      <4>1. at[e.place] = Snapshot!Anchor(b) /\ e.inode = Snapshot!Anchor(b)
            /\ e.place \in Snapshot!Places
        BY <2>1, <3>4, ErrandFacts, Names
      <4>2. QED
        BY <4>1, NothingAsideHere, Names
    <3>5. QED
      BY <1>2, <3>1, <3>2, <3>3, <3>4
  <2>5. AtHome(b)'
    BY <1>0, <1>2, <2>1, <2>2, <2>3, ErrandFacts DEF Mine, AtHome, TakenDown
  <2>6. Owns(b)'
    <3>1. e.place = Snapshot!Final => b \in created
      BY <1>0, <2>1, ErrandFacts, Names DEF Mine, Owns, Running
    <3>2. QED
      BY <1>0, <1>2, <2>1, <2>2, <2>3, <3>1
         DEF Mine, Owns, Running, Before, Building, PuttingAside
  <2>7. OneAside(b)'
    <3>1. NothingAside(Snapshot!Meta(b)) \/ e.then \in {"unanchor", "unref"}
      BY <1>0, <1>2, <2>1 DEF Mine, OneAside, Heading, PuttingAside
    <3>2. e.then = "unmeta" => \A p \in {Snapshot!Final, Snapshot!Staging(b)} :
                                 p # e.place => at[p] # Snapshot!Work(b)
      BY <2>1
    <3>3. \A p : NothingAside(p)' <=> NothingAside(p)
      BY <1>2 DEF NothingAside
    <3>4. QED
      BY <1>2, <2>2, <2>3, <2>4, <3>1, <3>2, <3>3
         DEF OneAside, Heading, Before, Building, PuttingAside
  <2>8. ASSUME swaps' = 0 PROVE InPlace(b)'
    <3>1. InPlace(b)
      BY <1>0, <1>2, <2>8 DEF Mine
    <3>2. at[e.place] = e.inode
      <4>1. CASE pc[b] = "confirm"
        BY <2>1, <3>1, <4>1, ErrandFacts DEF InPlace
      <4>2. CASE pc[b] = "rollback"
        BY <2>1, <4>2, ErrandFacts
      <4>3. CASE pc[b] = "unmeta"
        <5>1. at[Snapshot!Meta(b)] # NONE
          BY <2>1, <3>1, <4>3 DEF InPlace, Heading
        <5>2. at[Snapshot!Meta(b)] \notin Snapshot!Users
          BY <1>2, <2>8, Names DEF SnapshotInv, Alone
        <5>3. QED
          BY <1>0, <2>1, <4>3, <5>1, <5>2, ErrandFacts DEF Mine, AtHome
      <4>4. CASE pc[b] = "unanchor"
        BY <2>1, <4>4, ErrandFacts
      <4>5. QED
        BY <1>2, <4>1, <4>2, <4>3, <4>4
    <3>3. /\ e.then = "last" => /\ at[Snapshot!Final] = Snapshot!Work(b)
                                /\ at[Snapshot!Meta(b)] # NONE <=> bound[b]
          /\ pc[b] = "rollback" => (at[Snapshot!Meta(b)] # NONE <=> bound'[b])
          /\ e.then = "unref" => at[Snapshot!Meta(b)] = NONE
      BY <1>2, <1>3, <2>1, <3>1 DEF InPlace, Heading
    <3>4. QED
      BY <1>2, <1>3, <2>1, <2>2, <2>3, <3>2, <3>3
         DEF InPlace, Heading, Before, Building, PuttingAside
  <2>9. QED
    BY <2>5, <2>6, <2>7, <2>8 DEF Mine
<1>7. CASE /\ todo' = todo
           /\ \/ /\ pc[b] = "rollback" /\ s = "unref"
                 /\ Snapshot!Work(b) \notin {at[Snapshot!Final], at[Snapshot!Staging(b)]}
              \/ pc[b] = "unmeta" /\ s = "unanchor" /\ ~bound[b]
              \/ pc[b] = "unanchor" /\ s = "unref"
  <2>1. SUFFICES ASSUME SnapshotType', pc'[b] = s PROVE Mine(b)'
    BY <1>7 DEF PuttingAside
  <2>2. AtHome(b)'
    BY <1>0, <1>2, <1>7, <2>1 DEF Mine, AtHome, TakenDown
  <2>3. Owns(b)'
    BY <1>0, <1>2, <1>7, <2>1 DEF Mine, Owns, Running, Before, Building, PuttingAside
  <2>4. OneAside(b)'
    BY <1>0, <1>2, <1>7, <2>1 DEF OneAside, Heading, Before, Building, PuttingAside
  <2>5. (swaps = 0 => InPlace(b))'
    BY <1>0, <1>2, <1>7, <2>1 DEF Mine, InPlace, Heading, Before, Building, PuttingAside
  <2>6. QED
    BY <2>2, <2>3, <2>4, <2>5 DEF Mine
<1>8. pc'[b] = s
  BY <1>0, <1>1 DEF SnapshotType
<1>9. CASE Snapshot!Confirm(b)
  <2>1. PICK e \in Errands(b) :
          e = Errand(Snapshot!Anchor(b), Snapshot!Anchor(b), "last", "rollback")
    BY DEF Errands
  <2>2. /\ pc[b] = "confirm" /\ pc'[b] = "isolate" /\ e.then = "last"
        /\ todo' = [todo EXCEPT ![b] = e]
    BY <1>0, <1>9, <2>1 DEF Snapshot!Confirm, Errand, SnapshotType
  <2>3. QED
    BY <1>6, <1>8, <2>2
<1>10. CASE Snapshot!Rollback(b)
  <2> DEFINE here == {p \in {Snapshot!Final, Snapshot!Staging(b)} : at[p] = Snapshot!Work(b)}
  <2>1. CASE \E p \in here :
               here = {p} /\ Snapshot!Isolating(b, p, Snapshot!Work(b), "unmeta", "unref")
    <3>1. PICK p \in here :
            here = {p} /\ Snapshot!Isolating(b, p, Snapshot!Work(b), "unmeta", "unref")
      BY <2>1
    <3>2. PICK e \in Errands(b) : e = Errand(p, Snapshot!Work(b), "unmeta", "unref")
      BY DEF Errands
    <3>3. \A q \in {Snapshot!Final, Snapshot!Staging(b)} :
            at[q] = Snapshot!Work(b) <=> q = p
      BY <3>1
    <3>4. /\ pc[b] = "rollback" /\ pc'[b] = "isolate" /\ e.then = "unmeta" /\ e.place = p
          /\ todo' = [todo EXCEPT ![b] = e]
      BY <1>0, <1>10, <3>1, <3>2 DEF Snapshot!Rollback, Errand, SnapshotType
    <3>5. QED
      BY <1>6, <1>8, <3>3, <3>4
  <2>2. CASE (\A p \in here : here # {p}) /\ Snapshot!Go(b, "unref") /\ UNCHANGED todo
    <3>1. Snapshot!Work(b) \notin {at[Snapshot!Final], at[Snapshot!Staging(b)]}
      BY <1>0, <2>2 DEF Mine, AtHome
    <3>2. pc[b] = "rollback" /\ pc'[b] = "unref"
      BY <1>0, <1>10, <2>2 DEF Snapshot!Rollback, SnapshotType
    <3>3. QED
      BY <1>7, <1>8, <2>2, <3>1, <3>2
  <2>3. QED
    BY <1>10, <2>1, <2>2 DEF Snapshot!Rollback
<1>11. CASE Snapshot!RemoveMetadata(b)
  <2>1. PICK e \in Errands(b) :
          e = Errand(Snapshot!Meta(b), Snapshot!Meta(b), "unanchor", "unref")
    BY DEF Errands
  <2>2. CASE bound[b]
    <3>1. /\ pc[b] = "unmeta" /\ pc'[b] = "isolate" /\ e.then = "unanchor"
          /\ todo' = [todo EXCEPT ![b] = e]
      BY <1>0, <1>11, <2>1, <2>2 DEF Snapshot!RemoveMetadata, Errand, SnapshotType
    <3>2. QED
      BY <1>6, <1>8, <2>2, <3>1
  <2>3. CASE ~bound[b]
    <3>1. pc[b] = "unmeta" /\ pc'[b] = "unanchor" /\ todo' = todo
      BY <1>0, <1>11, <2>3 DEF Snapshot!RemoveMetadata, SnapshotType
    <3>2. QED
      BY <1>7, <1>8, <2>3, <3>1
  <2>4. QED
    BY <2>2, <2>3
<1>12. CASE Snapshot!RemoveAnchor(b)
  <2>1. PICK e \in Errands(b) :
          e = Errand(Snapshot!Anchor(b), Snapshot!Anchor(b), "unref", "unref")
    BY DEF Errands
  <2>2. CASE at[Snapshot!Anchor(b)] = Snapshot!Anchor(b)
    <3>1. /\ pc[b] = "unanchor" /\ pc'[b] = "isolate" /\ e.then = "unref"
          /\ e.place = Snapshot!Anchor(b) /\ todo' = [todo EXCEPT ![b] = e]
      BY <1>0, <1>12, <2>1, <2>2 DEF Snapshot!RemoveAnchor, Errand, SnapshotType
    <3>2. QED
      BY <1>6, <1>8, <2>2, <3>1
  <2>3. CASE at[Snapshot!Anchor(b)] # Snapshot!Anchor(b)
    <3>1. pc[b] = "unanchor" /\ pc'[b] = "unref" /\ todo' = todo
      BY <1>0, <1>12, <2>3 DEF Snapshot!RemoveAnchor, SnapshotType
    <3>2. QED
      BY <1>7, <1>8, <3>1
  <2>4. QED
    BY <2>2, <2>3
<1>13. QED
  BY <1>9, <1>10, <1>11, <1>12

(* A step of one run that moves directories at its own places, or at the    *)
(* final path while it has the branch, leaves the others alone.             *)
LEMMA OwnStep ==
  ASSUME SnapshotInv, NEW b \in Builders, NEW s \in Steps,
         pc' = [pc EXCEPT ![b] = s],
         UNCHANGED <<swaps, todo, bound, created>>,
         \A c \in Builders \ {b} :
           gitdir'[c] = gitdir[c] /\ content'[Snapshot!Work(c)] = content[Snapshot!Work(c)],
         \A p \in Snapshot!Places :
           \/ p \in {Snapshot!Staging(b), Snapshot!Anchor(b), Snapshot!Meta(b)}
           \/ p = Snapshot!Final /\ Running(b)
              /\ at'[p] \in {Snapshot!Work(b), NONE} \cup Snapshot!Users
           \/ /\ at'[p] = at[p]
              /\ \A i \in Snapshot!Inodes : <<i, p>> \in aside' <=> <<i, p>> \in aside,
         ref # NONE => ref' # NONE
  PROVE  \A c \in Builders \ {b} : Mine(c)' /\ pc'[c] = pc[c]
<1> SUFFICES ASSUME NEW c \in Builders \ {b} PROVE Mine(c)' /\ pc'[c] = pc[c]
  OBVIOUS
<1>1. pc'[c] = pc[c]
  BY DEF SnapshotInv, SnapshotType
<1>2. \A p \in {Snapshot!Staging(c), Snapshot!Anchor(c), Snapshot!Meta(c)} :
        /\ at'[p] = at[p]
        /\ \A i \in Snapshot!Inodes : <<i, p>> \in aside' <=> <<i, p>> \in aside
  BY Names
<1>3. \/ /\ at'[Snapshot!Final] = at[Snapshot!Final]
         /\ \A i \in Snapshot!Inodes :
              <<i, Snapshot!Final>> \in aside' <=> <<i, Snapshot!Final>> \in aside
      \/ ~Running(c) /\ at'[Snapshot!Final] # Snapshot!Work(c)
  <2>1. Running(b) => ~Running(c)
    BY DEF SnapshotInv, OneOwner
  <2>2. Snapshot!Work(c) \notin {Snapshot!Work(b), NONE} \cup Snapshot!Users
    BY Names
  <2>3. QED
    BY <2>1, <2>2, Names
<1>4. Running(c) => ref' # NONE
  BY DEF SnapshotInv, Mine, Owns
<1>5. QED
  BY <1>1, <1>2, <1>3, <1>4, Untouched

(* The branch stays with its run as long as that goes on.                   *)
LEMMA SameOwner ==
  ASSUME SnapshotInv, NEW b \in Builders, NEW s \in Steps, pc' = [pc EXCEPT ![b] = s],
         UNCHANGED <<created, ref>>, s # "failed", pc[b] # "failed"
  PROVE  OneOwner'
<1>1. \A c \in Builders : Running(c)' <=> Running(c)
  BY DEF SnapshotInv, SnapshotType, Running
<1>2. ref # NONE => (ref.oid = "snapshot" => ref.by \in Builders)
  BY DEF SnapshotInv, OneOwner, SnapshotType, Running
<1>3. QED
  BY <1>1, <1>2 DEF SnapshotInv, OneOwner

(* Moving directories where nothing was put aside changes nothing for what   *)
(* was put aside elsewhere.                                                 *)
LEMMA StillBack ==
  ASSUME SnapshotInv, NEW b \in Builders, NEW s \in Steps, pc' = [pc EXCEPT ![b] = s],
         pc[b] # "inspect", UNCHANGED <<aside, todo>>,
         \A p \in Snapshot!Places : at'[p] = at[p] \/ NothingAside(p)
  PROVE  AsideOrBack'
<1> SUFFICES ASSUME NEW i \in Snapshot!Inodes, NEW p \in Snapshot!Places, <<i, p>> \in aside
             PROVE  \/ i \in Snapshot!Users /\ at'[p] \in Snapshot!Users
                    \/ \E c \in Builders : pc'[c] = "inspect" /\ todo'[c].place = p
  BY DEF AsideOrBack
<1>1. at'[p] = at[p]
  BY DEF NothingAside
<1>2. \A c \in Builders : pc[c] = "inspect" => pc'[c] = "inspect"
  BY DEF SnapshotInv, SnapshotType
<1>3. QED
  BY <1>1, <1>2 DEF SnapshotInv, AsideOrBack

(* The private directory with the directory of the worktree in it.          *)
LEMMA ReserveStep ==
  ASSUME SnapshotInv, NEW b \in Builders, Snapshot!Reserve(b)
  PROVE  SnapshotInv'
<1>0. Mine(b) /\ SnapshotType
  BY DEF SnapshotInv
<1>1. /\ pc[b] = "reserve" /\ pc' = [pc EXCEPT ![b] = "ref"] /\ pc'[b] = "ref"
      /\ at' = [at EXCEPT ![Snapshot!Anchor(b)] = Snapshot!Anchor(b),
                          ![Snapshot!Staging(b)] = Snapshot!Work(b)]
      /\ UNCHANGED <<content, gitdir, ref, aside, todo, bound, created, swaps>>
  BY <1>0 DEF Snapshot!Reserve, Snapshot!Go, SnapshotType
<1>2. /\ at' \in [Snapshot!Places -> Snapshot!Inodes \cup {NONE}]
      /\ at'[Snapshot!Anchor(b)] = Snapshot!Anchor(b)
      /\ at'[Snapshot!Staging(b)] = Snapshot!Work(b)
      /\ \A p \in Snapshot!Places :
           p \notin {Snapshot!Anchor(b), Snapshot!Staging(b)} => at'[p] = at[p]
  BY <1>0, <1>1, Names DEF SnapshotType
<1>3. NothingAside(Snapshot!Staging(b)) /\ NothingAside(Snapshot!Anchor(b))
  BY <1>0, <1>1 DEF Mine, OneAside, Before
<1>4. SnapshotType'
  BY <1>0, <1>1, <1>2 DEF SnapshotType, Steps, Before, PuttingAside
<1>5. "ref" \in Steps
  BY DEF Steps, Before
<1>6. \A c \in Builders \ {b} : Mine(c)'
  BY <1>1, <1>2, <1>5, OwnStep
<1>7. AsideOrBack' /\ OneOwner'
  BY <1>1, <1>2, <1>3, <1>5, StillBack, SameOwner
<1>8. (swaps = 0 => Alone)'
  BY <1>1, <1>2, Names DEF SnapshotInv, Alone
<1>9. Mine(b)'
  <2>1. at[Snapshot!Final] # Snapshot!Work(b) /\ at'[Snapshot!Final] = at[Snapshot!Final]
        /\ at'[Snapshot!Meta(b)] = at[Snapshot!Meta(b)]
    BY <1>0, <1>1, <1>2, Names DEF Mine, Owns, Running, Before
  <2>2. AtHome(b)' /\ Owns(b)'
    BY <1>0, <1>1, <1>2, <2>1
       DEF Mine, AtHome, TakenDown, Owns, Running, Before, Building, PuttingAside
  <2>3. OneAside(b)'
    BY <1>0, <1>1, <1>3 DEF Mine, OneAside, NothingAside, Heading, Before, Building,
                            PuttingAside
  <2>4. (swaps = 0 => InPlace(b))'
    BY <1>0, <1>1, <1>2, <2>1 DEF Mine, InPlace, Heading, Before, Building, PuttingAside
  <2>5. QED
    BY <2>2, <2>3, <2>4 DEF Mine
<1>10. QED
  BY <1>4, <1>6, <1>7, <1>8, <1>9 DEF SnapshotInv

(* The branch is created where there is none: no other run is under way.    *)
LEMMA CreateRefStep ==
  ASSUME SnapshotInv, NEW b \in Builders, Snapshot!CreateRef(b)
  PROVE  SnapshotInv'
<1>0. Mine(b) /\ SnapshotType
  BY DEF SnapshotInv
<1>1. /\ pc[b] = "ref" /\ pc' = [pc EXCEPT ![b] = "add"] /\ pc'[b] = "add"
      /\ \A c \in Builders \ {b} : pc'[c] = pc[c]
      /\ ref = NONE /\ ref' = [oid |-> "snapshot", by |-> b]
      /\ created' = created \cup {b}
      /\ UNCHANGED <<at, content, gitdir, aside, todo, bound, swaps>>
  BY <1>0 DEF Snapshot!CreateRef, Snapshot!RefFree, Snapshot!Go, SnapshotType
<1>2. ref' # NONE /\ ref'.oid = "snapshot" /\ ref'.by = b
  BY <1>1, SnapshotAssumption
<1>3. \A c \in Builders : ~Running(c)
  BY <1>1 DEF SnapshotInv, Mine, Owns
<1>4. \A c \in Builders : Running(c)' <=> c = b
  BY <1>1, <1>3 DEF Running
<1>5. OneOwner'
  BY <1>2, <1>4 DEF OneOwner
<1>6. SnapshotType'
  BY <1>0, <1>1 DEF SnapshotType, Steps, Building, PuttingAside
<1>7. \A c \in Builders \ {b} : Mine(c)'
  BY <1>1, <1>2, Untouched
<1>8. AsideOrBack'
  <2>1. \A c \in Builders : pc[c] = "inspect" => pc'[c] = "inspect"
    BY <1>1
  <2>2. QED
    BY <1>1, <2>1 DEF SnapshotInv, AsideOrBack
<1>9. (swaps = 0 => Alone)'
  BY <1>1, <1>2 DEF SnapshotInv, Alone
<1>10. Mine(b)'
  <2>1. AtHome(b)' /\ Owns(b)'
    BY <1>0, <1>1, <1>2, <1>4
       DEF Mine, AtHome, TakenDown, Owns, Running, Before, Building, PuttingAside
  <2>2. OneAside(b)'
    BY <1>0, <1>1 DEF Mine, OneAside, NothingAside, Heading, Before, Building, PuttingAside
  <2>3. (swaps = 0 => InPlace(b))'
    BY <1>0, <1>1 DEF Mine, InPlace, Heading, Before, Building, PuttingAside
  <2>4. QED
    BY <2>1, <2>2, <2>3 DEF Mine
<1>11. QED
  BY <1>5, <1>6, <1>7, <1>8, <1>9, <1>10 DEF SnapshotInv

(* git worktree add makes the metadata.                                     *)
LEMMA AddStep ==
  ASSUME SnapshotInv, NEW b \in Builders, Snapshot!AddWorktree(b)
  PROVE  SnapshotInv'
<1>0. Mine(b) /\ SnapshotType
  BY DEF SnapshotInv
<1>1. /\ pc[b] = "add" /\ pc' = [pc EXCEPT ![b] = "bind"] /\ pc'[b] = "bind"
      /\ at' = [at EXCEPT ![Snapshot!Meta(b)] = Snapshot!Meta(b)]
      /\ content' = [content EXCEPT ![Snapshot!Work(b)] = "marker"]
      /\ gitdir' = [gitdir EXCEPT ![b] = "staging"]
      /\ Snapshot!Intact(b)
      /\ UNCHANGED <<ref, aside, todo, bound, created, swaps>>
  BY <1>0 DEF Snapshot!AddWorktree, Snapshot!Go, SnapshotType
<1>2. /\ at' \in [Snapshot!Places -> Snapshot!Inodes \cup {NONE}]
      /\ at'[Snapshot!Meta(b)] = Snapshot!Meta(b)
      /\ \A p \in Snapshot!Places : p # Snapshot!Meta(b) => at'[p] = at[p]
      /\ gitdir' \in [Builders -> {NONE, "staging", "final"}] /\ gitdir'[b] = "staging"
      /\ \A c \in Builders \ {b} :
           gitdir'[c] = gitdir[c] /\ content'[Snapshot!Work(c)] = content[Snapshot!Work(c)]
      /\ content'[Snapshot!Work(b)] = "marker"
  BY <1>0, <1>1, Names DEF SnapshotType
<1>3. NothingAside(Snapshot!Meta(b))
  BY <1>0, <1>1 DEF Mine, OneAside, Heading, PuttingAside
<1>4. SnapshotType'
  <2>1. content' \in [Snapshot!Inodes -> {"empty", "marker", "tree", "user", "gone"}]
    BY <1>0, <1>1 DEF SnapshotType
  <2>2. QED
    BY <1>0, <1>1, <1>2, <2>1 DEF SnapshotType, Steps, Building, PuttingAside
<1>5. "bind" \in Steps
  BY DEF Steps, Building
<1>6. \A c \in Builders \ {b} : Mine(c)'
  BY <1>1, <1>2, <1>5, OwnStep
<1>7. AsideOrBack' /\ OneOwner'
  BY <1>1, <1>2, <1>3, <1>5, StillBack, SameOwner
<1>8. (swaps = 0 => Alone)'
  BY <1>1, <1>2, Names DEF SnapshotInv, Alone
<1>9. Mine(b)'
  <2>1. /\ at[Snapshot!Staging(b)] = Snapshot!Work(b)
        /\ at[Snapshot!Anchor(b)] = Snapshot!Anchor(b)
        /\ at[Snapshot!Final] # Snapshot!Work(b)
        /\ \A p \in {Snapshot!Final, Snapshot!Staging(b), Snapshot!Anchor(b)} : at'[p] = at[p]
    BY <1>0, <1>1, <1>2, Names DEF Mine, AtHome, Snapshot!Intact, Snapshot!AtStagingPath
  <2>2. AtHome(b)' /\ Owns(b)'
    BY <1>0, <1>1, <1>2, <2>1
       DEF Mine, AtHome, TakenDown, Owns, Running, Before, Building, PuttingAside
  <2>3. OneAside(b)'
    BY <1>0, <1>1 DEF Mine, OneAside, NothingAside, Heading, Before, Building, PuttingAside
  <2>4. (swaps = 0 => InPlace(b))'
    <3>1. Snapshot!Bindable(b)'
      BY <1>1, <1>2, <2>1 DEF Snapshot!Bindable, Snapshot!Intact, Snapshot!AtStagingPath
    <3>2. QED
      BY <1>1, <2>1, <3>1 DEF InPlace, Heading, Before, Building, PuttingAside
  <2>5. QED
    BY <2>2, <2>3, <2>4 DEF Mine
<1>10. QED
  BY <1>4, <1>6, <1>7, <1>8, <1>9 DEF SnapshotInv

(* The worktree is renamed to the final path, where nothing is.             *)
LEMMA RenameToFinal ==
  ASSUME SnapshotInv, NEW b \in Builders, Snapshot!Rename(b)
  PROVE  SnapshotInv'
<1>0. Mine(b) /\ SnapshotType
  BY DEF SnapshotInv
<1>1. /\ pc[b] = "rename" /\ pc' = [pc EXCEPT ![b] = "confirm"] /\ pc'[b] = "confirm"
      /\ at[Snapshot!Staging(b)] # NONE /\ at[Snapshot!Final] = NONE
      /\ at' = [at EXCEPT ![Snapshot!Final] = at[Snapshot!Staging(b)],
                          ![Snapshot!Staging(b)] = NONE]
      /\ UNCHANGED <<content, gitdir, ref, aside, todo, bound, created, swaps>>
  BY <1>0 DEF Snapshot!Rename, Snapshot!PathFree, Snapshot!Go, SnapshotType
<1>2. /\ at' \in [Snapshot!Places -> Snapshot!Inodes \cup {NONE}]
      /\ at'[Snapshot!Final] = at[Snapshot!Staging(b)]
      /\ at'[Snapshot!Staging(b)] = NONE
      /\ at'[Snapshot!Anchor(b)] = at[Snapshot!Anchor(b)]
      /\ at'[Snapshot!Meta(b)] = at[Snapshot!Meta(b)]
      /\ \A p \in Snapshot!Places :
           p \notin {Snapshot!Final, Snapshot!Staging(b)} => at'[p] = at[p]
  BY <1>0, <1>1, Names DEF SnapshotType
<1>3. Running(b) /\ content[Snapshot!Work(b)] = "tree"
      /\ at[Snapshot!Staging(b)] \in {Snapshot!Work(b)} \cup Snapshot!Users
  BY <1>0, <1>1 DEF Mine, AtHome, Owns, Running, Building
<1>4. NothingAside(Snapshot!Staging(b)) /\ NothingAside(Snapshot!Final)
  <2>1. NothingAside(Snapshot!Staging(b))
    BY <1>0, <1>1 DEF Mine, OneAside, Building
  <2>2. ASSUME NEW i \in Snapshot!Inodes, <<i, Snapshot!Final>> \in aside PROVE FALSE
    <3>1. NONE \notin Snapshot!Users
      BY Names
    <3>2. PICK c \in Builders : pc[c] = "inspect" /\ todo[c].place = Snapshot!Final
      BY <1>1, <2>2, <3>1, Names DEF SnapshotInv, AsideOrBack
    <3>3. Running(c)
      BY <3>2 DEF SnapshotInv, Mine, Owns, Running, PuttingAside
    <3>4. QED
      BY <1>1, <1>3, <3>2, <3>3 DEF SnapshotInv, OneOwner
  <2>3. QED
    BY <2>1, <2>2 DEF NothingAside
<1>5. SnapshotType'
  BY <1>0, <1>1, <1>2 DEF SnapshotType, Steps, Building, PuttingAside
<1>6. "confirm" \in Steps
  BY DEF Steps, Building
<1>7. \A c \in Builders \ {b} : Mine(c)'
  BY <1>1, <1>2, <1>3, <1>6, OwnStep
<1>8. AsideOrBack' /\ OneOwner'
  BY <1>1, <1>2, <1>4, <1>6, StillBack, SameOwner
<1>9. (swaps = 0 => Alone)'
  BY <1>1, <1>2, Names DEF SnapshotInv, Alone
<1>10. Mine(b)'
  <2>1. AtHome(b)' /\ Owns(b)'
    BY <1>0, <1>1, <1>2, <1>3, Names
       DEF Mine, AtHome, TakenDown, Owns, Running, Before, Building, PuttingAside
  <2>2. OneAside(b)'
    BY <1>0, <1>1 DEF Mine, OneAside, NothingAside, Heading, Before, Building, PuttingAside
  <2>3. (swaps = 0 => InPlace(b))'
    BY <1>0, <1>1, <1>2 DEF Mine, InPlace, Heading, Before, Building, PuttingAside
  <2>4. QED
    BY <2>1, <2>2, <2>3 DEF Mine
<1>11. QED
  BY <1>5, <1>7, <1>8, <1>9, <1>10 DEF SnapshotInv

(* A directory is put aside under a name of its own, whatever it is.        *)
LEMMA IsolateStep ==
  ASSUME SnapshotInv, NEW b \in Builders, Snapshot!Isolate(b)
  PROVE  SnapshotInv'
<1>0. Mine(b) /\ SnapshotType
  BY DEF SnapshotInv
<1>1. PICK t \in Errands(b) : t = todo[b]
  BY DEF Snapshot!Isolate, SnapshotInv, SnapshotType, PuttingAside
<1>2. /\ pc[b] = "isolate"
      /\ UNCHANGED <<content, gitdir, ref, todo, bound, created, swaps>>
  BY DEF Snapshot!Isolate
<1>3. /\ at[t.place] \in {t.inode, NONE} \cup Snapshot!Users
      /\ NothingAside(t.place)
      /\ t.place = Snapshot!Final => Running(b)
      /\ t.place \in Snapshot!Places /\ t.inode \in Snapshot!Inodes
  BY <1>0, <1>1, <1>2, ErrandFacts DEF Mine, OneAside, Owns, Running, PuttingAside
<1>4. CASE at[t.place] = NONE
  <2>1. pc' = [pc EXCEPT ![b] = t.else] /\ UNCHANGED <<at, aside>>
    BY <1>1, <1>4 DEF Snapshot!Isolate, Snapshot!Go
  <2>2. t.else \in Steps /\ t.else \notin PuttingAside /\ t.else # "failed"
        /\ "isolate" # "inspect" /\ pc[b] # "failed"
    BY <1>2, ErrandFacts DEF Steps, PuttingAside
  <2>3. SnapshotType' /\ pc'[b] = t.else
    BY <1>0, <1>2, <2>1, <2>2, QuietType DEF SnapshotType
  <2>4. swaps # 0
    BY <1>0, <1>1, <1>2, <1>3, <1>4, Names DEF Mine, InPlace
  <2>5. AtHome(b)'
    <3>1. t.else = "unref" =>
            Snapshot!Work(b) \notin {at[Snapshot!Final], at[Snapshot!Staging(b)]}
      BY <1>0, <1>1, <1>2, <1>4, ErrandFacts, Names DEF Mine, AtHome, OneAside, TakenDown
    <3>2. QED
      BY <1>0, <1>2, <2>1, <2>3, <3>1, ErrandFacts DEF Mine, AtHome, TakenDown
  <2>6. Owns(b)'
    BY <1>0, <1>2, <2>1, <2>2, <2>3, ErrandFacts
       DEF Mine, Owns, Running, Before, Building, PuttingAside
  <2>7. OneAside(b)'
    <3>1. t.else = "rollback" => NothingAside(Snapshot!Meta(b))
      BY <1>0, <1>1, <1>2, ErrandFacts DEF Mine, OneAside, Heading, PuttingAside
    <3>2. NothingAside(Snapshot!Meta(b))' <=> NothingAside(Snapshot!Meta(b))
      BY <2>1 DEF NothingAside
    <3>3. QED
      BY <2>2, <2>3, <3>1, <3>2, ErrandFacts DEF OneAside, Heading, Before, Building,
                                               PuttingAside
  <2>8. Mine(b)'
    BY <1>2, <2>4, <2>5, <2>6, <2>7 DEF Mine
  <2>9. QED
    BY <1>2, <2>1, <2>2, <2>3, <2>8, QuietRun
<1>5. CASE at[t.place] # NONE
  <2>1. /\ at' = [at EXCEPT ![t.place] = NONE]
        /\ aside' = aside \cup {<<at[t.place], t.place>>}
        /\ pc' = [pc EXCEPT ![b] = "inspect"]
    BY <1>1, <1>5 DEF Snapshot!Isolate, Snapshot!Go
  <2>2. /\ at' \in [Snapshot!Places -> Snapshot!Inodes \cup {NONE}]
        /\ at'[t.place] = NONE
        /\ \A p \in Snapshot!Places : p # t.place => at'[p] = at[p]
        /\ \A p \in Snapshot!Places, i \in Snapshot!Inodes :
             p # t.place => (<<i, p>> \in aside' <=> <<i, p>> \in aside)
        /\ \A i \in Snapshot!Inodes : <<i, t.place>> \in aside' <=> i = at[t.place]
        /\ pc'[b] = "inspect" /\ \A c \in Builders \ {b} : pc'[c] = pc[c]
        /\ at[t.place] \in {t.inode} \cup Snapshot!Users
        /\ at[t.place] \in Snapshot!Inodes
    BY <1>0, <1>3, <1>5, <2>1 DEF SnapshotType, NothingAside
  <2>3. "inspect" \in Steps /\ "inspect" \in PuttingAside
    BY DEF Steps, PuttingAside
  <2>4. SnapshotType'
    <3>1. aside' \subseteq Snapshot!Inodes \X Snapshot!Places
      BY <1>0, <1>3, <2>1, <2>2 DEF SnapshotType
    <3>2. \A c \in Builders : pc'[c] \in PuttingAside => todo'[c] \in Errands(c)
      BY <1>0, <1>1, <1>2, <2>2 DEF SnapshotType
    <3>3. pc' \in [Builders -> Steps]
      BY <1>0, <2>1, <2>3 DEF SnapshotType
    <3>4. QED
      BY <1>0, <1>2, <2>2, <3>1, <3>2, <3>3 DEF SnapshotType
  <2>5. \A c \in Builders \ {b} : Mine(c)'
    <3>1. t.place \in {Snapshot!Final, Snapshot!Staging(b), Snapshot!Anchor(b),
                       Snapshot!Meta(b)}
      BY ErrandFacts
    <3>2. QED
      BY <1>2, <1>3, <2>1, <2>2, <2>3, <3>1, OwnStep
  <2>6. OneOwner'
    BY <1>2, <2>1, <2>3, SameOwner
  <2>7. AsideOrBack'
    <3> SUFFICES ASSUME NEW i \in Snapshot!Inodes, NEW p \in Snapshot!Places,
                        <<i, p>> \in aside'
                 PROVE  \/ i \in Snapshot!Users /\ at'[p] \in Snapshot!Users
                        \/ \E c \in Builders : pc'[c] = "inspect" /\ todo'[c].place = p
      BY DEF AsideOrBack
    <3>1. CASE p = t.place
      BY <1>1, <1>2, <2>2, <3>1
    <3>2. CASE p # t.place
      <4>1. <<i, p>> \in aside /\ at'[p] = at[p]
        BY <2>2, <3>2
      <4>2. \A c \in Builders : pc[c] = "inspect" => pc'[c] = "inspect"
        BY <2>2
      <4>3. QED
        BY <1>2, <4>1, <4>2 DEF SnapshotInv, AsideOrBack
    <3>3. QED
      BY <3>1, <3>2
  <2>8. ASSUME swaps' = 0 PROVE Alone' /\ at[t.place] = t.inode
    <3>1. Alone
      BY <1>2, <2>8 DEF SnapshotInv
    <3>2. at[t.place] \notin Snapshot!Users
      BY <1>3, <3>1 DEF Alone
    <3>3. NONE \notin Snapshot!Users
      BY Names
    <3>4. \A p \in Snapshot!Places : at'[p] \notin Snapshot!Users
      BY <2>2, <3>1, <3>3 DEF Alone
    <3>5. ASSUME NEW i \in Snapshot!Users, NEW p \in Snapshot!Places
          PROVE  <<i, p>> \notin aside'
      <4>1. i \in Snapshot!Inodes
        BY Names
      <4>2. CASE p = t.place
        BY <2>2, <3>2, <4>1, <4>2
      <4>3. CASE p # t.place
        BY <2>2, <3>1, <4>1, <4>3 DEF Alone
      <4>4. QED
        BY <4>2, <4>3
    <3>6. QED
      BY <1>2, <2>2, <3>1, <3>2, <3>4, <3>5 DEF Alone
  <2>9. Mine(b)'
    <3>1. AtHome(b)'
      <4>1. \A p \in {Snapshot!Final, Snapshot!Staging(b), Snapshot!Anchor(b),
                      Snapshot!Meta(b)} : at'[p] = at[p] \/ at'[p] = NONE
        BY <2>2, Names
      <4>2. t.then # "last" =>
              Snapshot!Work(b) \notin {at'[Snapshot!Final], at'[Snapshot!Staging(b)]}
        <5>1. CASE t.then = "unmeta"
          <6>1. t.place \in {Snapshot!Final, Snapshot!Staging(b)}
            BY <5>1, ErrandFacts
          <6>2. \A p \in {Snapshot!Final, Snapshot!Staging(b)} :
                  p # t.place => at[p] # Snapshot!Work(b)
            BY <1>0, <1>1, <1>2, <5>1 DEF Mine, OneAside
          <6>3. \A p \in {Snapshot!Final, Snapshot!Staging(b)} : at'[p] # Snapshot!Work(b)
            BY <2>2, <6>1, <6>2, Names
          <6>4. QED
            BY <6>3
        <5>2. CASE t.then \in {"unanchor", "unref"}
          <6>1. Snapshot!Work(b) \notin {at[Snapshot!Final], at[Snapshot!Staging(b)]}
            BY <1>0, <1>1, <1>2, <5>2 DEF Mine, AtHome, TakenDown
          <6>2. QED
            BY <4>1, <6>1, Names
        <5>3. QED
          BY <5>1, <5>2, ErrandFacts
      <4>3. Snapshot!Work(b) # NONE
        BY Names
      <4>4. QED
        BY <1>0, <1>1, <1>2, <2>2, <4>1, <4>2, <4>3 DEF Mine, AtHome, TakenDown
    <3>2. Owns(b)'
      <4>1. at'[Snapshot!Final] \in {at[Snapshot!Final], NONE}
        BY <2>2, Names
      <4>2. QED
        BY <1>0, <1>1, <1>2, <1>3, <2>2, <4>1, Names
           DEF Mine, Owns, Running, Before, Building, PuttingAside
    <3>3. OneAside(b)'
      <4>1. t.then \notin {"unanchor", "unref"} => NothingAside(Snapshot!Meta(b))
        BY <1>0, <1>1, <1>2, ErrandFacts DEF Mine, OneAside, Heading, PuttingAside
      <4>2. t.place = Snapshot!Meta(b) => t.then = "unanchor"
        BY ErrandFacts
      <4>3. t.then \notin {"unanchor", "unref"} => NothingAside(Snapshot!Meta(b))'
        BY <2>2, <4>1, <4>2, Names DEF NothingAside
      <4>4. QED
        BY <1>1, <1>2, <2>2, <4>3 DEF OneAside, Heading, Before, Building, PuttingAside
    <3>4. ASSUME swaps' = 0 PROVE InPlace(b)'
      <4>1. InPlace(b)
        BY <1>0, <1>2, <3>4 DEF Mine
      <4>2. t.place # Snapshot!Final /\ t.place # Snapshot!Meta(b) =>
              at'[Snapshot!Final] = at[Snapshot!Final] /\ at'[Snapshot!Meta(b)] = at[Snapshot!Meta(b)]
        BY <2>2, Names
      <4>3. t.place = Snapshot!Final => at'[Snapshot!Meta(b)] = at[Snapshot!Meta(b)]
        BY <2>2, Names
      <4>4. t.place = Snapshot!Meta(b) => at'[Snapshot!Meta(b)] = NONE
        BY <2>2
      <4>5. QED
        BY <1>1, <1>2, <2>2, <4>1, <4>2, <4>3, <4>4, ErrandFacts, Names
           DEF InPlace, Heading, Before, Building, PuttingAside
    <3>5. QED
      BY <3>1, <3>2, <3>3, <3>4 DEF Mine
  <2>10. QED
    BY <2>4, <2>5, <2>6, <2>7, <2>8, <2>9 DEF SnapshotInv
<1>6. QED
  BY <1>4, <1>5

(* What was put aside is compared: the run's own is removed, and that of    *)
(* others goes back, unless they have its name again.                       *)
LEMMA InspectStep ==
  ASSUME SnapshotInv, NEW b \in Builders, Snapshot!Inspect(b)
  PROVE  SnapshotInv'
<1>0. Mine(b) /\ SnapshotType
  BY DEF SnapshotInv
<1>1. PICK t \in Errands(b) : t = todo[b]
  BY DEF Snapshot!Inspect, SnapshotInv, SnapshotType, PuttingAside
<1>2. /\ pc[b] = "inspect"
      /\ UNCHANGED <<gitdir, ref, todo, bound, created, swaps>>
  BY DEF Snapshot!Inspect
<1>3. PICK i \in {t.inode} \cup Snapshot!Users :
        \A j \in Snapshot!Inodes : <<j, t.place>> \in aside <=> j = i
  BY <1>0, <1>1, <1>2 DEF Mine, OneAside
<1>4. /\ i \in Snapshot!Inodes /\ t.place \in Snapshot!Places /\ t.inode \in Snapshot!Inodes
      /\ t.place \in {Snapshot!Final, Snapshot!Staging(b), Snapshot!Anchor(b), Snapshot!Meta(b)}
      /\ t.inode \in {Snapshot!Work(b), Snapshot!Anchor(b), Snapshot!Meta(b)}
  BY <1>3, ErrandFacts, Names
<1>5. Snapshot!Taken(b) = <<i, t.place>>
  <2>1. <<i, t.place>> \in aside /\ <<i, t.place>>[2] = t.place
    BY <1>3, <1>4
  <2>2. ASSUME NEW e \in aside, e[2] = t.place PROVE e = <<i, t.place>>
    <3>1. e = <<e[1], e[2]>> /\ e[1] \in Snapshot!Inodes
      BY <1>0, <2>2 DEF SnapshotType
    <3>2. <<e[1], t.place>> \in aside
      BY <2>2, <3>1
    <3>3. e[1] = i
      BY <1>3, <3>1, <3>2
    <3>4. QED
      BY <2>2, <3>1, <3>3
  <2>3. QED
    BY <1>1, <2>1, <2>2 DEF Snapshot!Taken
<1>6. PICK e : e = <<i, t.place>> /\ e[1] = i /\ e[2] = t.place
  <2>1. <<i, t.place>>[1] = i /\ <<i, t.place>>[2] = t.place
    OBVIOUS
  <2>2. QED
    BY <2>1, Zenon
<1>7. /\ at[t.place] \in {NONE} \cup Snapshot!Users
      /\ t.place = Snapshot!Final => Running(b)
  BY <1>0, <1>1, <1>2 DEF Mine, OneAside, Owns, Running, PuttingAside
<1>8. PICK s \in {t.then, t.else} :
        /\ pc' = [pc EXCEPT ![b] = s]
        /\ \/ i = t.inode /\ s = t.then /\ Snapshot!RemoveContents(e)
           \/ i # t.inode /\ s = t.else /\ Snapshot!PutBack(e)
  BY <1>1, <1>5, <1>6 DEF Snapshot!Inspect, Snapshot!IsOwn, Snapshot!Go
<1>9. s \in Steps /\ s \notin PuttingAside /\ s \in {"last", "unmeta", "unanchor", "unref",
                                                      "rollback"}
  BY <1>8, ErrandFacts DEF Steps, PuttingAside
<1>10. pc'[b] = s /\ \A c \in Builders \ {b} : pc'[c] = pc[c]
  BY <1>0, <1>8 DEF SnapshotType
<1>11. /\ at' \in [Snapshot!Places -> Snapshot!Inodes \cup {NONE}]
       /\ \A p \in Snapshot!Places : p # t.place =>
            /\ at'[p] = at[p]
            /\ \A j \in Snapshot!Inodes : <<j, p>> \in aside' <=> <<j, p>> \in aside
       /\ at'[t.place] \in {NONE} \cup Snapshot!Users
       /\ aside' \subseteq aside
       /\ content' \in [Snapshot!Inodes -> {"empty", "marker", "tree", "user", "gone"}]
       /\ \A j \in Snapshot!Inodes : j # t.inode => content'[j] = content[j]
       /\ i = t.inode => at' = at
       /\ i # t.inode => content' = content
  <2>1. CASE i = t.inode
    <3>1. /\ content' = [content EXCEPT ![i] = "gone"] /\ aside' = aside \ {e} /\ at' = at
      BY <1>6, <1>8, <2>1 DEF Snapshot!RemoveContents
    <3>2. QED
      BY <1>0, <1>4, <1>6, <1>7, <2>1, <3>1 DEF SnapshotType
  <2>2. CASE i # t.inode /\ at[t.place] = NONE
    <3>1. /\ at' = [at EXCEPT ![t.place] = i] /\ aside' = aside \ {e} /\ content' = content
      BY <1>6, <1>8, <2>2 DEF Snapshot!PutBack
    <3>2. i \in Snapshot!Users
      BY <1>3, <2>2
    <3>3. at' \in [Snapshot!Places -> Snapshot!Inodes \cup {NONE}]
      BY <1>0, <1>4, <3>1 DEF SnapshotType
    <3>4. /\ at'[t.place] = i
          /\ \A p \in Snapshot!Places : p # t.place => at'[p] = at[p]
      BY <1>0, <1>4, <3>1 DEF SnapshotType
    <3>5. \A p \in Snapshot!Places, j \in Snapshot!Inodes :
            p # t.place => (<<j, p>> \in aside' <=> <<j, p>> \in aside)
      BY <1>6, <3>1
    <3>6. QED
      BY <1>0, <2>2, <3>1, <3>2, <3>3, <3>4, <3>5 DEF SnapshotType
  <2>3. CASE i # t.inode /\ at[t.place] # NONE
    <3>1. at' = at /\ aside' = aside /\ content' = content
      BY <1>6, <1>8, <2>3 DEF Snapshot!PutBack
    <3>2. QED
      BY <1>0, <1>7, <2>3, <3>1 DEF SnapshotType
  <2>4. QED
    BY <2>1, <2>2, <2>3
<1>12. SnapshotType'
  <2>1. \A c \in Builders : pc'[c] \in PuttingAside => todo'[c] \in Errands(c)
    BY <1>0, <1>2, <1>9, <1>10 DEF SnapshotType
  <2>2. pc' \in [Builders -> Steps]
    BY <1>0, <1>8, <1>9 DEF SnapshotType
  <2>3. aside' \subseteq Snapshot!Inodes \X Snapshot!Places
    BY <1>0, <1>11 DEF SnapshotType
  <2>4. QED
    BY <1>0, <1>2, <1>11, <2>1, <2>2, <2>3 DEF SnapshotType
<1>13. \A c \in Builders \ {b} : Mine(c)'
  <2>1. \A c \in Builders \ {b} : gitdir'[c] = gitdir[c]
                                  /\ content'[Snapshot!Work(c)] = content[Snapshot!Work(c)]
    BY <1>2, <1>4, <1>11, Names
  <2>2. \A p \in Snapshot!Places :
           \/ p \in {Snapshot!Staging(b), Snapshot!Anchor(b), Snapshot!Meta(b)}
           \/ p = Snapshot!Final /\ Running(b)
              /\ at'[p] \in {Snapshot!Work(b), NONE} \cup Snapshot!Users
           \/ /\ at'[p] = at[p]
              /\ \A j \in Snapshot!Inodes : <<j, p>> \in aside' <=> <<j, p>> \in aside
    BY <1>4, <1>7, <1>11
  <2>3. QED
    BY <1>2, <1>8, <1>9, <2>1, <2>2, OwnStep
<1>14. OneOwner'
  BY <1>2, <1>8, <1>9, SameOwner
<1>15. AsideOrBack'
  <2> SUFFICES ASSUME NEW j \in Snapshot!Inodes, NEW p \in Snapshot!Places,
                      <<j, p>> \in aside'
               PROVE  \/ j \in Snapshot!Users /\ at'[p] \in Snapshot!Users
                      \/ \E c \in Builders : pc'[c] = "inspect" /\ todo'[c].place = p
    BY DEF AsideOrBack
  <2>1. <<j, p>> \in aside
    BY <1>11
  <2>2. CASE p = t.place
    <3>1. j = i
      BY <1>3, <2>1, <2>2
    <3>2. i # t.inode /\ at[t.place] # NONE /\ at' = at
      BY <1>6, <1>8, <2>2, <3>1 DEF Snapshot!RemoveContents, Snapshot!PutBack
    <3>3. QED
      BY <1>3, <1>7, <2>2, <3>1, <3>2
  <2>3. CASE p # t.place
    <3>1. at'[p] = at[p]
      BY <1>11, <2>3
    <3>2. CASE j \in Snapshot!Users /\ at[p] \in Snapshot!Users
      BY <3>1, <3>2
    <3>3. CASE \E c \in Builders : pc[c] = "inspect" /\ todo[c].place = p
      <4>1. PICK c \in Builders : pc[c] = "inspect" /\ todo[c].place = p
        BY <3>3
      <4>2. c # b
        BY <1>1, <2>3, <4>1
      <4>3. QED
        BY <1>2, <1>10, <4>1, <4>2
    <3>4. QED
      BY <2>1, <3>2, <3>3 DEF SnapshotInv, AsideOrBack
  <2>4. QED
    BY <2>2, <2>3
<1>16. ASSUME swaps' = 0 PROVE Alone' /\ i = t.inode
  <2>1. Alone
    BY <1>2, <1>16 DEF SnapshotInv
  <2>2. i = t.inode
    BY <1>3, <1>4, <2>1 DEF Alone
  <2>3. QED
    BY <1>2, <1>11, <2>1, <2>2 DEF Alone
<1>17. Mine(b)'
  <2>1. \A p \in Snapshot!Places : at'[p] = at[p] \/ at'[p] \in {NONE} \cup Snapshot!Users
    BY <1>11
  <2>2. s \in {"unmeta", "unanchor", "unref"} =>
          Snapshot!Work(b) \notin {at[Snapshot!Final], at[Snapshot!Staging(b)]}
    <3>1. s \in {"unmeta", "unanchor", "unref"} => t.then # "last"
      BY <1>8, ErrandFacts
    <3>2. QED
      BY <1>0, <1>1, <1>2, <3>1 DEF Mine, AtHome, TakenDown
  <2>3. AtHome(b)'
    BY <1>0, <1>9, <1>10, <2>1, <2>2, Names DEF Mine, AtHome, TakenDown
  <2>4. Owns(b)'
    <3>1. at'[Snapshot!Final] = Snapshot!Work(b) =>
            at[Snapshot!Final] = Snapshot!Work(b) /\ t.inode # Snapshot!Work(b)
      <4>1. t.inode = Snapshot!Work(b) => t.then # "last"
        BY ErrandFacts, Names
      <4>2. t.then # "last" => at[Snapshot!Final] # Snapshot!Work(b)
        BY <1>0, <1>1, <1>2 DEF Mine, AtHome, TakenDown
      <4>3. QED
        BY <2>1, <4>1, <4>2, Names
    <3>2. at'[Snapshot!Final] = Snapshot!Work(b) =>
            Running(b) /\ content'[Snapshot!Work(b)] = "tree"
      BY <1>0, <1>11, <3>1, Names DEF Mine, Owns
    <3>3. Running(b)' <=> Running(b)
      BY <1>2, <1>9, <1>10 DEF Running
    <3>4. QED
      BY <1>0, <1>2, <1>9, <1>10, <3>2, <3>3 DEF Mine, Owns, Before, Building, PuttingAside
  <2>5. OneAside(b)'
    <3>1. s \in {"last", "unmeta", "rollback"} => t.then \in {"last", "unmeta"}
      BY <1>8, ErrandFacts
    <3>2. s \in {"last", "unmeta", "rollback"} => NothingAside(Snapshot!Meta(b))
      BY <1>0, <1>1, <1>2, <3>1 DEF Mine, OneAside, Heading, PuttingAside
    <3>3. NothingAside(Snapshot!Meta(b)) => NothingAside(Snapshot!Meta(b))'
      BY <1>11 DEF NothingAside
    <3>4. QED
      BY <1>9, <1>10, <3>2, <3>3 DEF OneAside, Heading, Before, Building, PuttingAside
  <2>6. ASSUME swaps' = 0 PROVE InPlace(b)'
    <3>1. InPlace(b)
      BY <1>0, <1>2, <2>6 DEF Mine
    <3>2. s = t.then /\ at' = at /\ s \in {"last", "unmeta", "unanchor", "unref"}
      BY <1>8, <1>11, <1>16, <2>6, ErrandFacts
    <3>3. QED
      BY <1>1, <1>2, <1>10, <3>1, <3>2 DEF InPlace, Heading, Before, Building, PuttingAside
  <2>7. QED
    BY <2>3, <2>4, <2>5, <2>6 DEF Mine
<1>18. QED
  BY <1>12, <1>13, <1>14, <1>15, <1>16, <1>17 DEF SnapshotInv

(* The run that fails deletes the branch it created, and no other run has   *)
(* it.                                                                      *)
LEMMA RemoveRefStep ==
  ASSUME SnapshotInv, NEW b \in Builders, Snapshot!RemoveRef(b)
  PROVE  SnapshotInv'
<1>0. Mine(b) /\ SnapshotType
  BY DEF SnapshotInv
<1>1. /\ pc[b] = "unref" /\ pc' = [pc EXCEPT ![b] = "failed"] /\ pc'[b] = "failed"
      /\ \A c \in Builders \ {b} : pc'[c] = pc[c]
      /\ UNCHANGED <<at, content, gitdir, aside, todo, bound, created, swaps>>
  BY <1>0 DEF Snapshot!RemoveRef, Snapshot!Go, SnapshotType
<1>2. /\ b \in created /\ ref # NONE /\ ref.oid = "snapshot" => ref' = NONE
      /\ ref' # NONE => ref' = ref
      /\ b \notin created => ref' = ref
  BY DEF Snapshot!RemoveRef, Snapshot!MayDelete, Snapshot!RefIsOurs
<1>3. \A c \in Builders : Running(c)' <=> (c # b /\ Running(c))
  BY <1>1 DEF Running
<1>4. b \in created => \A c \in Builders \ {b} : ~Running(c)
  BY <1>1 DEF SnapshotInv, OneOwner, Running
<1>5. OneOwner'
  <2>1. \A c, d \in Builders : Running(c)' /\ Running(d)' => c = d
    BY <1>3 DEF SnapshotInv, OneOwner
  <2>2. ASSUME ref' # NONE, ref'.oid = "snapshot" PROVE Running(ref.by)' /\ ref' = ref
    <3>1. ref' = ref /\ b \notin created
      BY <1>2, <2>2
    <3>2. Running(ref.by) /\ ref.by \in Builders
      BY <2>2, <3>1 DEF SnapshotInv, OneOwner, SnapshotType, Running
    <3>3. ref.by # b
      BY <3>1, <3>2 DEF Running
    <3>4. Running(ref.by) => pc'[ref.by] # "failed" /\ ref.by \in created'
      BY <1>1, <3>2, <3>3 DEF Running
    <3>5. QED
      BY <3>1, <3>2, <3>4 DEF Running
  <2>3. QED
    BY <2>1, <2>2 DEF OneOwner
<1>6. SnapshotType'
  <2>1. ref' \in {NONE} \cup [oid : {"snapshot"}, by : Builders] \cup [oid : {"other"}, by : {NONE}]
    BY <1>0, <1>2 DEF SnapshotType
  <2>2. QED
    BY <1>0, <1>1, <2>1 DEF SnapshotType, Steps, PuttingAside
<1>7. \A c \in Builders \ {b} : Mine(c)'
  <2>1. \A c \in Builders \ {b} : Running(c) => ref' # NONE
    BY <1>2, <1>4 DEF SnapshotInv, Mine, Owns
  <2>2. QED
    BY <1>1, <2>1, Untouched
<1>8. AsideOrBack'
  <2>1. \A c \in Builders : pc[c] = "inspect" => pc'[c] = "inspect"
    BY <1>1
  <2>2. QED
    BY <1>1, <2>1 DEF SnapshotInv, AsideOrBack
<1>9. (swaps = 0 => Alone)'
  BY <1>1, <1>2 DEF SnapshotInv, Alone
<1>10. Mine(b)'
  <2>1. AtHome(b)'
    BY <1>0, <1>1 DEF Mine, AtHome, TakenDown
  <2>2. Owns(b)'
    BY <1>0, <1>1, <1>3 DEF Mine, AtHome, TakenDown, Owns, Before, Building, PuttingAside
  <2>3. OneAside(b)'
    BY <1>0, <1>1 DEF Mine, OneAside, NothingAside, Heading, Before, Building, PuttingAside
  <2>4. (swaps = 0 => InPlace(b))'
    BY <1>0, <1>1 DEF Mine, InPlace, Heading, Before, Building, PuttingAside
  <2>5. QED
    BY <2>1, <2>2, <2>3, <2>4 DEF Mine
<1>11. QED
  BY <1>5, <1>6, <1>7, <1>8, <1>9, <1>10 DEF SnapshotInv

(* A directory of somebody else takes the place of one.                     *)
LEMMA SwapStep ==
  ASSUME SnapshotInv, Snapshot!Swap
  PROVE  SnapshotInv'
<1>0. SnapshotType
  BY DEF SnapshotInv
<1>1. PICK f : f = Snapshot!Fresh
  OBVIOUS
<1>2. PICK p \in Snapshot!Places :
        /\ p = Snapshot!Final \/ at[p] # NONE
        /\ at' = [at EXCEPT ![p] = f]
        /\ content' = [content EXCEPT ![f] = "user"]
  BY <1>1 DEF Snapshot!Swap
<1>3. /\ swaps < MaxSwaps /\ swaps' = swaps + 1
      /\ UNCHANGED <<gitdir, ref, aside, pc, todo, bound, created>>
  BY DEF Snapshot!Swap
<1>4. f \in Snapshot!Users /\ f \in Snapshot!Inodes
  BY <1>0, <1>1, <1>3, SnapshotAssumption, Names
     DEF SnapshotType, Snapshot!Fresh, Snapshot!Users
<1>5. /\ at' \in [Snapshot!Places -> Snapshot!Inodes \cup {NONE}]
      /\ at'[p] = f
      /\ \A q \in Snapshot!Places : q # p => at'[q] = at[q]
      /\ content' \in [Snapshot!Inodes -> {"empty", "marker", "tree", "user", "gone"}]
      /\ \A b \in Builders : content'[Snapshot!Work(b)] = content[Snapshot!Work(b)]
  BY <1>0, <1>2, <1>4, Names DEF SnapshotType
<1>6. \A q \in Snapshot!Places : at'[q] = at[q] \/ at'[q] \in Snapshot!Users
  BY <1>4, <1>5
<1>7. SnapshotType' /\ swaps' # 0
  <2>1. swaps' \in Nat /\ swaps' <= MaxSwaps /\ swaps' # 0
    BY <1>0, <1>3, SnapshotAssumption DEF SnapshotType
  <2>2. QED
    BY <1>0, <1>3, <1>5, <2>1 DEF SnapshotType
<1>8. AsideOrBack' /\ OneOwner'
  <2>1. AsideOrBack'
    BY <1>3, <1>6 DEF SnapshotInv, AsideOrBack
  <2>2. QED
    BY <1>3, <2>1 DEF SnapshotInv, OneOwner, Running
<1>9. ASSUME NEW b \in Builders PROVE Mine(b)'
  <2>0. Mine(b)
    BY DEF SnapshotInv
  <2>1. AtHome(b)'
    <3>1. at[Snapshot!Staging(b)] = NONE => at'[Snapshot!Staging(b)] = NONE
      BY <1>2, <1>5, Names
    <3>2. \A q \in Snapshot!Places : at'[q] = Snapshot!Work(b) => at[q] = Snapshot!Work(b)
      BY <1>6, Names
    <3>3. QED
      BY <1>3, <1>6, <2>0, <3>1, <3>2, Names DEF Mine, AtHome, TakenDown
  <2>2. Owns(b)'
    BY <1>3, <1>5, <1>6, <2>0, Names DEF Mine, Owns, Running
  <2>3. OneAside(b)'
    <3>1. pc[b] \in PuttingAside => todo[b].place \in Snapshot!Places
      BY <1>0, ErrandFacts DEF SnapshotType
    <3>2. \A q \in Snapshot!Places : at'[q] = Snapshot!Work(b) => at[q] = Snapshot!Work(b)
      BY <1>6, Names
    <3>3. QED
      BY <1>3, <1>6, <2>0, <3>1, <3>2, Names DEF Mine, OneAside, NothingAside, Heading,
                                               PuttingAside
  <2>4. QED
    BY <1>7, <2>1, <2>2, <2>3 DEF Mine
<1>10. QED
  BY <1>7, <1>8, <1>9 DEF SnapshotInv

(* The branch, or the source, is changed by somebody else.                  *)
LEMMA ElsewhereStep ==
  ASSUME SnapshotInv, Snapshot!MoveRef \/ Snapshot!ChangeSource
  PROVE  SnapshotInv'
<1>0. SnapshotType
  BY DEF SnapshotInv
<1>1. /\ swaps < MaxSwaps /\ swaps' = swaps + 1
      /\ UNCHANGED <<at, content, gitdir, aside, pc, todo, bound, created>>
      /\ ref' \in {ref, [oid |-> "other", by |-> NONE]}
  BY DEF Snapshot!MoveRef, Snapshot!ChangeSource
<1>2. ref' = ref \/ (ref' # NONE /\ ref'.oid = "other")
  BY <1>1, SnapshotAssumption
<1>3. SnapshotType' /\ swaps' # 0
  <2>1. swaps' \in Nat /\ swaps' <= MaxSwaps /\ swaps' # 0
    BY <1>0, <1>1, SnapshotAssumption DEF SnapshotType
  <2>2. QED
    BY <1>0, <1>1, <2>1 DEF SnapshotType
<1>4. AsideOrBack' /\ OneOwner'
  BY <1>1, <1>2 DEF SnapshotInv, AsideOrBack, OneOwner, Running
<1>5. ASSUME NEW b \in Builders PROVE Mine(b)'
  <2>1. AtHome(b)' /\ OneAside(b)'
    BY <1>1 DEF SnapshotInv, Mine, AtHome, TakenDown, OneAside, NothingAside, Heading
  <2>2. Owns(b)'
    BY <1>1, <1>2 DEF SnapshotInv, Mine, Owns, Running
  <2>3. QED
    BY <1>3, <2>1, <2>2 DEF Mine
<1>6. QED
  BY <1>3, <1>4, <1>5 DEF SnapshotInv

(* Nothing is there yet.                                                    *)
LEMMA SnapshotInit ==
  ASSUME Snapshot!Init
  PROVE  SnapshotInv
<1>1. SnapshotType
  BY SnapshotAssumption
     DEF Snapshot!Init, SnapshotType, Steps, Before, Building, PuttingAside
<1>2. OneOwner /\ AsideOrBack
  BY DEF Snapshot!Init, OneOwner, AsideOrBack, Running
<1>3. Alone
  BY Names DEF Snapshot!Init, Alone
<1>4. ASSUME NEW b \in Builders PROVE Mine(b)
  <2>1. /\ pc[b] = "start" /\ b \notin created /\ ~bound[b] /\ aside = {}
        /\ at[Snapshot!Final] = NONE /\ at[Snapshot!Staging(b)] = NONE
        /\ at[Snapshot!Anchor(b)] = NONE /\ at[Snapshot!Meta(b)] = NONE
    BY Names DEF Snapshot!Init
  <2>2. AtHome(b) /\ Owns(b)
    BY <2>1, Names
       DEF AtHome, TakenDown, Owns, Running, Before, Building, PuttingAside
  <2>3. OneAside(b)
    BY <2>1 DEF OneAside, NothingAside, Heading, Before, Building, PuttingAside
  <2>4. InPlace(b)
    BY <2>1 DEF InPlace, Heading, Before, Building, PuttingAside
  <2>5. QED
    BY <2>2, <2>3, <2>4 DEF Mine
<1>5. QED
  BY <1>1, <1>2, <1>3, <1>4 DEF SnapshotInv

(* Every step keeps the invariant.                                          *)
LEMMA SnapshotStep ==
  ASSUME SnapshotInv, [Snapshot!Next]_(Snapshot!vars)
  PROVE  SnapshotInv'
<1>1. CASE UNCHANGED Snapshot!vars
  <2>1. UNCHANGED <<at, content, gitdir, ref, aside, pc, todo, bound, created, swaps>>
    BY <1>1 DEF Snapshot!vars
  <2>2. SnapshotType' /\ OneOwner' /\ AsideOrBack' /\ (swaps = 0 => Alone)'
    BY <2>1 DEF SnapshotInv, SnapshotType, OneOwner, Running, AsideOrBack, Alone
  <2>3. ASSUME NEW b \in Builders PROVE Mine(b)'
    <3>1. AtHome(b)' /\ Owns(b)' /\ OneAside(b)'
      BY <2>1 DEF SnapshotInv, Mine, AtHome, TakenDown, Owns, Running, OneAside,
                  NothingAside, Heading
    <3>2. (swaps = 0 => InPlace(b))'
      BY <2>1 DEF SnapshotInv, Mine, InPlace, Heading, Snapshot!Bindable, Snapshot!Rebound,
                  Snapshot!Intact, Snapshot!AtStagingPath
    <3>3. QED
      BY <3>1, <3>2 DEF Mine
  <2>4. QED
    BY <2>2, <2>3 DEF SnapshotInv
<1>2. CASE Snapshot!Swap \/ Snapshot!MoveRef \/ Snapshot!ChangeSource
  BY <1>2, SwapStep, ElsewhereStep
<1>3. ASSUME NEW b \in Builders, Snapshot!Run(b) PROVE SnapshotInv'
  BY <1>3, LookingStep, ReserveStep, CreateRefStep, AddStep, RenameToFinal, FailStep, SetOut,
     IsolateStep, InspectStep, RemoveRefStep DEF Snapshot!Run
<1>4. QED
  BY <1>1, <1>2, <1>3 DEF Snapshot!Next

(* The invariant holds throughout.                                          *)
LEMMA SnapshotHolds == Spec => [](focus = "snapshot" => SnapshotInv)
<1>1. Init => (focus = "snapshot" => SnapshotInv)
  BY SnapshotInit DEF Init
<1>2. (focus = "snapshot" => SnapshotInv) /\ [Next]_vars => (focus = "snapshot" => SnapshotInv)'
  BY FocusStays, SnapshotMoves, SnapshotStep
<1>3. QED
  BY <1>1, <1>2, PTL DEF Spec

(* Whatever two runs do at once, whatever fails and whatever other programs *)
(* put in the way: the directory of a run at the final path is the whole    *)
(* tree; and a run that nobody interfered with leaves neither path,         *)
(* metadata nor branch.                                                     *)
THEOREM SnapshotIsAllOrNothing == Spec => []SnapshotAllOrNothing
<1>1. ASSUME SnapshotInv PROVE Snapshot!FinalIsWhole
  BY <1>1 DEF SnapshotInv, Mine, Owns, Snapshot!FinalIsWhole
<1>2. ASSUME SnapshotInv PROVE Snapshot!FailedRunCanBeRepeated
  <2> SUFFICES ASSUME NEW b \in Builders, pc[b] = "failed", swaps = 0
               PROVE  /\ at[Snapshot!Final] # Snapshot!Work(b)
                      /\ at[Snapshot!Staging(b)] = NONE /\ at[Snapshot!Meta(b)] = NONE
                      /\ ref # NONE => ref.by # b
    BY DEF Snapshot!FailedRunCanBeRepeated
  <2>1. Mine(b) /\ Alone /\ OneOwner
    BY <1>2 DEF SnapshotInv
  <2>2. at[Snapshot!Final] # Snapshot!Work(b) /\ at[Snapshot!Staging(b)] = NONE
    BY <2>1, Names DEF Mine, AtHome, TakenDown, Alone
  <2>3. at[Snapshot!Meta(b)] = NONE
    BY <2>1 DEF Mine, InPlace, Heading
  <2>4. ref # NONE => ref.by # b
    BY <2>1 DEF OneOwner, Running, Alone
  <2>5. QED
    BY <2>2, <2>3, <2>4
<1>3. (focus = "snapshot" => SnapshotInv) => SnapshotAllOrNothing
  BY <1>1, <1>2 DEF SnapshotAllOrNothing, Snapshot!SnapshotAllOrNothing
<1>4. QED
  BY <1>3, SnapshotHolds, PTL

(* Only the comparison of what was put aside removes a directory, and it    *)
(* removes the run's own.                                                   *)
LEMMA OwnRemoved ==
  ASSUME SnapshotInv, [Snapshot!Next]_(Snapshot!vars),
         NEW i \in Snapshot!Inodes, content[i] # "gone", content'[i] = "gone"
  PROVE  \E b \in Builders : /\ i \in {Snapshot!Work(b), Snapshot!Anchor(b), Snapshot!Meta(b)}
                             /\ pc[b] = "inspect" /\ pc'[b] # "inspect"
<1>0. SnapshotType
  BY DEF SnapshotInv
<1>1. content' # content
  OBVIOUS
<1>2. CASE Snapshot!Swap
  <2>1. PICK f : content' = [content EXCEPT ![f] = "user"]
    BY <1>2 DEF Snapshot!Swap
  <2>2. QED
    BY <1>0, <2>1 DEF SnapshotType
<1>3. ASSUME NEW b \in Builders, Snapshot!AddWorktree(b) \/ Snapshot!Materialize(b) PROVE FALSE
  <2>1. content' \in {content, [content EXCEPT ![Snapshot!Work(b)] = "marker"],
                      [content EXCEPT ![Snapshot!Work(b)] = "tree"]}
    BY <1>3 DEF Snapshot!AddWorktree, Snapshot!Materialize
  <2>2. QED
    BY <1>0, <2>1 DEF SnapshotType
<1>4. ASSUME NEW b \in Builders, Snapshot!Inspect(b)
      PROVE  /\ i \in {Snapshot!Work(b), Snapshot!Anchor(b), Snapshot!Meta(b)}
             /\ pc[b] = "inspect" /\ pc'[b] # "inspect"
  <2>1. PICK t \in Errands(b) : t = todo[b]
    BY <1>0, <1>4 DEF Snapshot!Inspect, SnapshotType, PuttingAside
  <2>2. PICK e : e = Snapshot!Taken(b)
    OBVIOUS
  <2>3. /\ pc[b] = "inspect" /\ e[1] = t.inode
        /\ content' = [content EXCEPT ![e[1]] = "gone"]
        /\ pc' = [pc EXCEPT ![b] = t.then]
    BY <1>1, <1>4, <2>1, <2>2 DEF Snapshot!Inspect, Snapshot!IsOwn, Snapshot!RemoveContents,
                                  Snapshot!PutBack, Snapshot!Go
  <2>4. i = t.inode
    BY <1>0, <2>3 DEF SnapshotType
  <2>5. pc'[b] = t.then /\ t.then # "inspect"
    BY <1>0, <2>3, ErrandFacts DEF SnapshotType
  <2>6. QED
    BY <2>3, <2>4, <2>5, ErrandFacts
<1>5. \A b \in Builders : Snapshot!Run(b) =>
        Snapshot!AddWorktree(b) \/ Snapshot!Materialize(b) \/ Snapshot!Inspect(b)
  BY <1>1 DEF Snapshot!Run, Snapshot!Check, Snapshot!Reserve, Snapshot!CreateRef,
     Snapshot!BindMetadata, Snapshot!Verify, Snapshot!RewriteGitdir, Snapshot!Rename,
     Snapshot!Confirm, Snapshot!Finish, Snapshot!Fail, Snapshot!Isolate, Snapshot!Rollback,
     Snapshot!RemoveMetadata, Snapshot!RemoveAnchor, Snapshot!RemoveRef
<1>6. Snapshot!Swap \/ \E b \in Builders : Snapshot!Run(b)
  BY <1>1 DEF Snapshot!Next, Snapshot!vars, Snapshot!MoveRef, Snapshot!ChangeSource
<1>7. QED
  BY <1>2, <1>3, <1>4, <1>5, <1>6

(* Only the run that created the branch deletes it, when it fails.          *)
LEMMA OwnBranch ==
  ASSUME SnapshotInv, [Snapshot!Next]_(Snapshot!vars), ref # NONE, ref' = NONE
  PROVE  pc[ref.by] = "unref" /\ pc'[ref.by] = "failed"
<1>0. SnapshotType
  BY DEF SnapshotInv
<1>1. ref' # ref
  OBVIOUS
<1>2. ASSUME NEW b \in Builders, Snapshot!RemoveRef(b)
      PROVE  pc[ref.by] = "unref" /\ pc'[ref.by] = "failed"
  <2>1. /\ pc[b] = "unref" /\ pc'[b] = "failed"
        /\ b \in created /\ ref.oid = "snapshot"
    BY <1>0, <1>1, <1>2 DEF Snapshot!RemoveRef, Snapshot!MayDelete, Snapshot!RefIsOurs,
                            Snapshot!Go, SnapshotType
  <2>2. Running(b) /\ Running(ref.by) /\ ref.by \in Builders
    BY <2>1 DEF SnapshotInv, OneOwner, Running, SnapshotType
  <2>3. ref.by = b
    BY <2>2 DEF SnapshotInv, OneOwner
  <2>4. QED
    BY <2>1, <2>3
<1>3. \A b \in Builders : ~Snapshot!CreateRef(b)
  BY SnapshotAssumption DEF Snapshot!CreateRef
<1>4. ~Snapshot!MoveRef
  BY SnapshotAssumption DEF Snapshot!MoveRef
<1>5. \A b \in Builders : Snapshot!Run(b) => Snapshot!CreateRef(b) \/ Snapshot!RemoveRef(b)
  BY <1>1 DEF Snapshot!Run, Snapshot!Check, Snapshot!Reserve, Snapshot!AddWorktree,
     Snapshot!BindMetadata, Snapshot!Materialize, Snapshot!Verify, Snapshot!RewriteGitdir,
     Snapshot!Rename, Snapshot!Confirm, Snapshot!Finish, Snapshot!Fail, Snapshot!Isolate,
     Snapshot!Inspect, Snapshot!Rollback, Snapshot!RemoveMetadata, Snapshot!RemoveAnchor
<1>6. Snapshot!MoveRef \/ \E b \in Builders : Snapshot!Run(b)
  BY <1>1 DEF Snapshot!Next, Snapshot!vars, Snapshot!Swap, Snapshot!ChangeSource
<1>7. QED
  BY <1>2, <1>3, <1>4, <1>5, <1>6

(* A run removes no directory but its own, nor a branch of others, and what *)
(* it put aside of theirs is back, or they have put another there.          *)
THEOREM OthersAreKept == Spec => OthersKept
<1>1. ASSUME SnapshotInv, [Snapshot!Next]_(Snapshot!vars) PROVE Snapshot!OthersKept
  <2>1. ASSUME NEW e \in aside, e[1] \in Snapshot!Users
        PROVE  \/ at[e[2]] # NONE
               \/ \E b \in Builders : pc[b] = "inspect" /\ todo[b].place = e[2]
    <3>1. /\ e[1] \in Snapshot!Inodes /\ e[2] \in Snapshot!Places
          /\ <<e[1], e[2]>> \in aside
      BY <1>1, <2>1 DEF SnapshotInv, SnapshotType
    <3>2. NONE \notin Snapshot!Users
      BY Names
    <3>3. QED
      BY <1>1, <3>1, <3>2 DEF SnapshotInv, AsideOrBack
  <2>2. QED
    BY <1>1, <2>1, OwnRemoved, OwnBranch DEF Snapshot!OthersKept
<1>2. (focus = "snapshot" => SnapshotInv) /\ [Next]_vars =>
        [focus = "snapshot" => Snapshot!OthersKept]_vars
  BY <1>1, SnapshotMoves
<1>3. QED
  BY <1>2, SnapshotHolds, PTL DEF Spec, OthersKept

-----------------------------------------------------------------------------
(* The removal of a worktree.                                               *)

(* While the focus is on the worktree, it moves alone.                      *)
LEMMA CleanupMoves ==
  ASSUME [Next]_vars, focus = "worktree"
  PROVE  [Cleanup!Next]_(Cleanup!vars)
<1>1. CASE UNCHANGED vars
  BY <1>1 DEF vars, worktreeVars, Cleanup!vars
<1>2. CASE Next
  BY <1>2 DEF Next, Cleanup!Next
<1>3. QED
  BY <1>1, <1>2

(* What can have the worktree's name, and what the name of its metadata.    *)
Trees == {"tree", NONE} \cup Strays
Metadata == {"metadata", "husk", NONE} \cup Worktrees

Taking == {"stat metadata", "move metadata", "compare", "look", "delete metadata",
           "unregistered", "delete tree"}
Undoing == {"undo metadata", "undo tree", "restore tree"}
Clearing == {"directory", "stat directory", "move directory", "delete directory"}
Calls == [of : {"apply", "recover"},
          pc : {"registered", "read", "list", "stat tree", "move tree", "ok", "failed", "killed"}
               \cup Taking \cup Undoing \cup Clearing,
          selected : Trees \cup Metadata, moved : Trees,
          failed : BOOLEAN, stale : BOOLEAN]

CleanupType ==
  /\ named \in [worktree : Trees, metadata : Metadata]
  /\ hidden \in SUBSET (Trees \cup Metadata)
  /\ call \in Calls

(* Nothing is at two places.                                                *)
OnePlace ==
  /\ "tree" \in hidden => named["worktree"] # "tree"
  /\ "metadata" \in hidden => named["metadata"] # "metadata"

(* Whose directory it is that the call has looked at.                       *)
Selected ==
  /\ call.pc \in {"move tree", "move directory", "delete directory"} => call.selected \in Trees
  /\ call.pc \in {"move metadata", "compare"} => call.selected \in Metadata
  /\ call.pc \in {"look", "delete metadata"} => call.selected = "metadata"
  /\ call.pc = "undo metadata" => call.selected \in {"metadata", "husk"}

(* A cleanup that goes well has lost neither the tree nor the metadata.     *)
NoneLost ==
  call.of = "apply" /\ ~call.failed =>
    /\ call.pc \in {"registered", "read", "list", "stat tree", "move tree"} => "tree" \notin hidden
    /\ call.pc \in Taking /\ "tree" \in hidden => call.moved = "tree"
    /\ call.pc \in Clearing \ {"delete directory"} => "tree" \notin hidden
    /\ call.pc = "delete directory" =>
         named["worktree"] # "tree" /\ ("tree" \in hidden => call.selected = "tree")

(* The directory goes last.                                                 *)
NotRegistered ==
  call.pc = "delete tree" \/ (call.pc \in Clearing /\ ~call.failed) => ~Cleanup!Registered

(* A recovery that finds the registration alone does not get over that.     *)
StaleFails ==
  call.stale => /\ call.of = "recover" /\ call.pc \in {"read", "failed", "killed"}
                /\ named["worktree"] # "tree"

CallInv ==
  Selected /\ NoneLost /\ NotRegistered /\ StaleFails /\ Cleanup!OkIsGone
CleanupInv == CleanupType /\ OnePlace /\ Cleanup!OnlyOwnRemoved /\ CallInv

(* Nothing is moved, and the tree is taken from its place only.             *)
LEMMA CleanupInit == Cleanup!Init => CleanupInv
<1> SUFFICES ASSUME Cleanup!Init PROVE CleanupInv
  OBVIOUS
<1>1. PICK metadata \in {"metadata", NONE}, known \in BOOLEAN :
        /\ named = [worktree |-> "tree", metadata |-> metadata]
        /\ call = [of |-> "apply", pc |-> IF known THEN "read" ELSE "registered",
                   selected |-> NONE, moved |-> NONE, failed |-> FALSE, stale |-> FALSE]
  BY DEF Cleanup!Init
<1>2. named \in [worktree : Trees, metadata : Metadata]
  BY <1>1 DEF Trees, Metadata
<1>3. call \in Calls
  BY <1>1 DEF Calls, Trees, Metadata
<1>4. hidden = {} /\ removed = {}
  BY DEF Cleanup!Init
<1>5. QED
  BY <1>1, <1>2, <1>3, <1>4
     DEF CleanupInv, CleanupType, OnePlace, CallInv, Selected, NoneLost, NotRegistered,
         StaleFails, Cleanup!OnlyOwnRemoved, Cleanup!OkIsGone, Taking, Clearing

(* A call that goes on only to fail claims nothing.                         *)
Failing ==
  /\ call' \in {Cleanup!Raised, Cleanup!Goes("failed"), Cleanup!Goes("killed"),
                Cleanup!Goes("undo tree"), Cleanup!Goes("restore tree")}
  /\ call.pc \notin {"ok", "failed", "killed"}
  /\ call.pc = "read" =>
       named' = named /\ call' \in {Cleanup!Raised, Cleanup!Goes("killed")}

(* A call that fails undoes what it began, or ends.                         *)
LEMMA FailingHolds ==
  ASSUME CleanupInv, Failing PROVE call' \in Calls /\ CallInv'
<1>1. call \in Calls
  BY DEF CleanupInv, CleanupType
<1>2. /\ call' \in Calls /\ call'.of = call.of /\ call'.stale = call.stale
      /\ \/ call'.pc \in {"failed", "killed"}
         \/ call'.pc \in {"undo tree", "restore tree"} /\ call.pc # "read"
         \/ call'.pc = "directory" /\ call'.failed /\ call.of = "apply"
  BY <1>1, ZenonT(60) DEF Failing, Cleanup!Raised, Cleanup!Goes, Calls, Undoing, Clearing
<1>3. StaleFails'
  BY <1>2 DEF CleanupInv, CallInv, StaleFails, Failing
<1>4. QED
  BY <1>2, <1>3 DEF CallInv, Selected, NoneLost, NotRegistered, Cleanup!OkIsGone, Taking, Clearing

(* So it does where nothing has been moved in the step.                     *)
LEMMA FailingQuietly ==
  ASSUME CleanupInv, Failing, UNCHANGED Cleanup!places PROVE CleanupInv'
BY FailingHolds DEF CleanupInv, CleanupType, OnePlace, Cleanup!places, Cleanup!OnlyOwnRemoved

(* A step of the call that only looks.                                      *)
LEMMA QuietLook ==
  ASSUME CleanupInv, UNCHANGED Cleanup!places,
         NEW next, call' = Cleanup!Goes(next),
         <<call.pc, next>> \in {<<"registered", "read">>, <<"read", "list">>,
             <<"list", "stat tree">>,
                       <<"directory", "stat directory">>},
         call.pc = "read" => named["worktree"] = "tree"
  PROVE  CleanupInv'
<1>1. call \in Calls
  BY DEF CleanupInv, CleanupType
<1>2. /\ call' \in Calls /\ call'.of = call.of /\ call'.stale = call.stale /\ call'.pc = next
      /\ call'.failed = call.failed
  BY <1>1 DEF Cleanup!Goes, Calls, Clearing
<1>3. StaleFails'
  BY <1>2 DEF CleanupInv, CallInv, StaleFails, Cleanup!places
<1>4. NoneLost' /\ NotRegistered'
  BY <1>2 DEF CleanupInv, CallInv, NoneLost, NotRegistered, Cleanup!places,
              Cleanup!Registered, Taking, Clearing
<1>5. QED
  BY <1>2, <1>3, <1>4 DEF CleanupInv, CleanupType, OnePlace, CallInv, Selected, Cleanup!places,
                     Cleanup!OnlyOwnRemoved, Cleanup!OkIsGone

(* The steps up to the first rename.                                        *)
LEMMA LookStep ==
  ASSUME CleanupInv,
         \/ Cleanup!AskRegistered \/ Cleanup!ReadMetadata \/ Cleanup!ListWorktrees
         \/ Cleanup!LookForDirectory
  PROVE  CleanupInv'
<1> USE DEF Cleanup!Answer, Cleanup!Step
<1>0. call \in Calls
  BY DEF CleanupInv, CleanupType
<1>1. CASE /\ UNCHANGED Cleanup!places
           /\ \/ call' = Cleanup!Raised
              \/ call' = Cleanup!Ended(TRUE) /\ call.pc = "directory"
  <2>1. call.pc \in {"registered", "read", "list", "directory"}
    BY DEF Cleanup!AskRegistered, Cleanup!ReadMetadata, Cleanup!ListWorktrees,
           Cleanup!LookForDirectory
  <2>2. Failing
    BY <1>1, <2>1 DEF Failing, Cleanup!places, Cleanup!Ended
  <2>3. QED
    BY <1>1, <2>2, FailingQuietly
<1>2. CASE Cleanup!AskRegistered
  <2>1. CASE call' = Cleanup!Goes("directory") /\ ~Cleanup!Registered /\ UNCHANGED Cleanup!places
    <3>1. call.pc = "registered"
      BY <1>2 DEF Cleanup!AskRegistered
    <3>2. /\ call' \in Calls /\ call'.of = call.of /\ call'.stale = call.stale
          /\ call'.pc = "directory" /\ call'.failed = call.failed
      BY <1>0, <2>1 DEF Cleanup!Goes, Calls, Clearing
    <3>3. ~Cleanup!Registered'
      BY <2>1 DEF Cleanup!places, Cleanup!Registered
    <3>4. QED
      BY <2>1, <3>1, <3>2, <3>3
         DEF CleanupInv, CleanupType, OnePlace, CallInv, Selected, NoneLost, NotRegistered,
             StaleFails, Cleanup!places, Cleanup!OnlyOwnRemoved, Cleanup!OkIsGone, Taking, Clearing
  <2>2. QED
    BY <1>1, <1>2, <2>1, QuietLook DEF Cleanup!AskRegistered
<1>3. CASE Cleanup!ReadMetadata
  <2>1. CASE /\ named = [worktree |-> "tree", metadata |-> "metadata"]
             /\ UNCHANGED Cleanup!places /\ call' = Cleanup!Goes("list")
    <3>1. named["worktree"] = "tree" /\ call.pc = "read"
      BY <1>3, <2>1 DEF Cleanup!ReadMetadata
    <3>2. QED
      BY <2>1, <3>1, QuietLook
  <2>2. QED
    BY <1>1, <1>3, <2>1 DEF Cleanup!ReadMetadata
<1>4. CASE Cleanup!ListWorktrees
  BY <1>1, <1>4, QuietLook DEF Cleanup!ListWorktrees
<1>5. CASE Cleanup!LookForDirectory
  <2>1. CASE call' = Cleanup!Ended(FALSE) /\ named["worktree"] = NONE /\ UNCHANGED Cleanup!places
    <3>1. call.pc = "directory"
      BY <1>5 DEF Cleanup!LookForDirectory
    <3>2. CASE call.failed
      BY <2>1, <3>1, <3>2, FailingQuietly DEF Failing, Cleanup!Ended, Cleanup!places
    <3>3. CASE ~call.failed
      <4>1. /\ call' \in Calls /\ call'.of = call.of /\ call'.stale = call.stale
            /\ call'.pc = "ok" /\ call'.failed = FALSE
        BY <1>0, <2>1, <3>3 DEF Cleanup!Ended, Cleanup!Goes, Calls
      <4>2. ~Cleanup!Registered /\ ~call.stale
        BY <3>1, <3>3 DEF CleanupInv, CallInv, NotRegistered, StaleFails, Clearing
      <4>3. call.of = "apply" => "tree" \notin hidden
        BY <3>1, <3>3 DEF CleanupInv, CallInv, NoneLost, Clearing
      <4>4. Cleanup!OkIsGone'
        <5>1. call.of = "apply" =>
                "tree" \notin {named["worktree"], named["metadata"]} \cup hidden
          BY <2>1, <4>3, CleanupAssumption DEF CleanupInv, CleanupType, Metadata
        <5>2. "metadata" \notin {named["worktree"], named["metadata"]} \cup hidden
          BY <2>1, <4>2, CleanupAssumption DEF Cleanup!Registered
        <5>3. ~Cleanup!Registered'
          BY <2>1, <4>2 DEF Cleanup!Registered, Cleanup!places
        <5>4. QED
          BY <2>1, <4>1, <4>2, <5>1, <5>2, <5>3 DEF Cleanup!OkIsGone, Cleanup!places
      <4>5. QED
        BY <2>1, <4>1, <4>2, <4>4
           DEF CleanupInv, CleanupType, OnePlace, CallInv, Selected, NoneLost, NotRegistered,
               StaleFails, Cleanup!places, Cleanup!OnlyOwnRemoved, Taking, Clearing
    <3>4. QED
      BY <3>2, <3>3
  <2>2. QED
    BY <1>1, <1>5, <2>1, QuietLook DEF Cleanup!LookForDirectory
<1>6. QED
  BY <1>2, <1>3, <1>4, <1>5

(* What is going to be renamed is looked at.                                *)
LEMMA StatStep ==
  ASSUME CleanupInv,
         Cleanup!StatTree \/ Cleanup!StatMetadata \/ Cleanup!StatDirectory
  PROVE  CleanupInv'
<1> USE DEF Cleanup!Answer, Cleanup!Step, Cleanup!Stat
<1>0. call \in Calls
  BY DEF CleanupInv, CleanupType
<1>1. CASE UNCHANGED Cleanup!places
           /\ call' \in {Cleanup!Raised, Cleanup!Ended(TRUE), Cleanup!Goes("undo tree")}
  BY <1>1, FailingQuietly
     DEF Failing, Cleanup!places, Cleanup!Ended, Cleanup!StatTree, Cleanup!StatMetadata,
         Cleanup!StatDirectory
<1>2. ASSUME NEW name \in {"worktree", "metadata"}, NEW next, UNCHANGED Cleanup!places,
             <<call.pc, name, next>> \in {<<"stat tree", "worktree", "move tree">>,
                                          <<"stat metadata", "metadata", "move metadata">>,
                                          <<"stat directory", "worktree", "move directory">>},
             call' = [Cleanup!Goes(next) EXCEPT !.selected = named[name]]
      PROVE  CleanupInv'
  <2>1. named[name] \in Trees \cup Metadata
        /\ (name = "worktree" => named[name] \in Trees)
        /\ (name = "metadata" => named[name] \in Metadata)
    BY DEF CleanupInv, CleanupType
  <2>2. /\ call' \in Calls /\ call'.of = call.of /\ call'.stale = call.stale /\ call'.pc = next
        /\ call'.failed = call.failed /\ call'.moved = call.moved /\ call'.selected = named[name]
    BY <1>0, <1>2, <2>1 DEF Cleanup!Goes, Calls, Clearing, Taking
  <2>3. Selected' /\ NoneLost' /\ NotRegistered' /\ StaleFails'
    BY <1>2, <2>1, <2>2
       DEF CleanupInv, CallInv, Selected, NoneLost, NotRegistered, StaleFails,
           Cleanup!Registered, Cleanup!places, Taking, Clearing
  <2>4. QED
    BY <1>2, <2>2, <2>3
       DEF CleanupInv, CleanupType, OnePlace, CallInv, Cleanup!places,
           Cleanup!OnlyOwnRemoved, Cleanup!OkIsGone
<1>3. CASE Cleanup!StatTree
  BY <1>1, <1>2, <1>3 DEF Cleanup!StatTree
<1>4. CASE Cleanup!StatMetadata
  BY <1>1, <1>2, <1>4 DEF Cleanup!StatMetadata
<1>5. CASE Cleanup!StatDirectory
  BY <1>1, <1>2, <1>5 DEF Cleanup!StatDirectory
<1>6. QED
  BY <1>3, <1>4, <1>5

(* A rename, of what was looked at or of what got there since.              *)
LEMMA RenameStep ==
  ASSUME CleanupInv,
         Cleanup!MoveTree \/ Cleanup!MoveMetadata \/ Cleanup!MoveDirectory
  PROVE  CleanupInv'
<1> USE DEF Cleanup!Rename
<1>0. call \in Calls /\ removed' = removed
  BY DEF CleanupInv, CleanupType, Cleanup!MoveTree, Cleanup!MoveMetadata, Cleanup!MoveDirectory,
         Cleanup!places
<1>1. ASSUME NEW name \in {"worktree", "metadata"}, named[name] # NONE,
             named' = [named EXCEPT ![name] = NONE], hidden' = hidden \cup {named[name]}
      PROVE  /\ named' \in [worktree : Trees, metadata : Metadata]
             /\ hidden' \in SUBSET (Trees \cup Metadata)
             /\ named'[name] = NONE
             /\ name = "worktree" => named'["metadata"] = named["metadata"]
             /\ name = "metadata" => named'["worktree"] = named["worktree"]
             /\ OnePlace'
  BY <1>1, CleanupAssumption DEF CleanupInv, CleanupType, OnePlace, Trees, Metadata
<1>2. ASSUME NEW name \in {"worktree", "metadata"}, Failing,
             \/ UNCHANGED Cleanup!places
             \/ named[name] # NONE /\ named' = [named EXCEPT ![name] = NONE]
                /\ hidden' = hidden \cup {named[name]}
      PROVE  CleanupInv'
  BY <1>0, <1>1, <1>2, FailingHolds, FailingQuietly
     DEF CleanupInv, CleanupType, Cleanup!OnlyOwnRemoved
<1>3. CASE Cleanup!MoveTree
  <2>1. CASE call' = Cleanup!Raised
    BY <1>2, <1>3, <2>1 DEF Cleanup!MoveTree, Failing
  <2>2. CASE /\ call' = [Cleanup!Goes("stat metadata") EXCEPT !.moved = call.selected]
             /\ named["worktree"] # NONE /\ named["worktree"] = call.selected
             /\ named' = [named EXCEPT !["worktree"] = NONE]
             /\ hidden' = hidden \cup {named["worktree"]}
    <3>1. call.pc = "move tree" /\ call.selected \in Trees
      BY <1>3 DEF Cleanup!MoveTree, CleanupInv, CallInv, Selected
    <3>2. /\ call' \in Calls /\ call'.of = call.of /\ call'.stale = call.stale
          /\ call'.pc = "stat metadata" /\ call'.failed = call.failed
          /\ call'.moved = call.selected
      BY <1>0, <2>2, <3>1 DEF Cleanup!Goes, Calls, Taking
    <3>3. NoneLost' /\ StaleFails'
      BY <2>2, <3>1, <3>2 DEF CleanupInv, CallInv, NoneLost, StaleFails, Taking, Clearing
    <3>4. QED
      BY <1>0, <1>1, <2>2, <3>2, <3>3
         DEF CleanupInv, CleanupType, CallInv, Selected, NotRegistered, Clearing,
             Cleanup!OnlyOwnRemoved, Cleanup!OkIsGone
  <2>3. QED
    BY <1>3, <2>1, <2>2 DEF Cleanup!MoveTree
<1>4. CASE Cleanup!MoveMetadata
  <2>1. CASE call' = Cleanup!Goes("undo tree")
    BY <1>2, <1>4, <2>1 DEF Cleanup!MoveMetadata, Failing
  <2>2. CASE /\ call' = Cleanup!Goes("compare")
             /\ named["metadata"] # NONE /\ named["metadata"] = call.selected
             /\ named' = [named EXCEPT !["metadata"] = NONE]
             /\ hidden' = hidden \cup {named["metadata"]}
    <3>1. call.pc = "move metadata" /\ call.selected \in Metadata
      BY <1>4 DEF Cleanup!MoveMetadata, CleanupInv, CallInv, Selected
    <3>2. /\ call' \in Calls /\ call'.of = call.of /\ call'.stale = call.stale
          /\ call'.pc = "compare" /\ call'.failed = call.failed
          /\ call'.moved = call.moved /\ call'.selected = call.selected
      BY <1>0, <2>2, <3>1 DEF Cleanup!Goes, Calls, Taking
    <3>3. NoneLost' /\ StaleFails'
      BY <2>2, <3>1, <3>2, CleanupAssumption
         DEF CleanupInv, CleanupType, CallInv, NoneLost, StaleFails, Taking, Clearing, Metadata
    <3>4. QED
      BY <1>0, <1>1, <2>2, <3>1, <3>2, <3>3
         DEF CleanupInv, CleanupType, CallInv, Selected, NotRegistered, Clearing,
             Cleanup!OnlyOwnRemoved, Cleanup!OkIsGone
  <2>3. QED
    BY <1>4, <2>1, <2>2 DEF Cleanup!MoveMetadata
<1>5. CASE Cleanup!MoveDirectory
  <2>1. CASE call' = Cleanup!Ended(TRUE)
    BY <1>2, <1>5, <2>1 DEF Cleanup!MoveDirectory, Failing, Cleanup!Ended
  <2>2. CASE /\ call' = Cleanup!Goes("delete directory")
             /\ named["worktree"] # NONE /\ named["worktree"] = call.selected
             /\ named' = [named EXCEPT !["worktree"] = NONE]
             /\ hidden' = hidden \cup {named["worktree"]}
    <3>1. call.pc = "move directory" /\ call.selected \in Trees
      BY <1>5 DEF Cleanup!MoveDirectory, CleanupInv, CallInv, Selected
    <3>2. /\ call' \in Calls /\ call'.of = call.of /\ call'.stale = call.stale
          /\ call'.pc = "delete directory" /\ call'.failed = call.failed
          /\ call'.selected = call.selected
      BY <1>0, <2>2, <3>1 DEF Cleanup!Goes, Calls, Clearing
    <3>3. NoneLost' /\ StaleFails'
      BY <1>1, <2>2, <3>1, <3>2, CleanupAssumption
         DEF CleanupInv, CallInv, NoneLost, StaleFails, Taking, Clearing
    <3>4. NotRegistered'
      BY <1>1, <2>2, <3>1, <3>2, CleanupAssumption
         DEF CleanupInv, CallInv, NotRegistered, Cleanup!Registered, Clearing, Trees
    <3>5. QED
      BY <1>0, <1>1, <2>2, <3>1, <3>2, <3>3, <3>4
         DEF CleanupInv, CleanupType, CallInv, Selected, Cleanup!OnlyOwnRemoved, Cleanup!OkIsGone
  <2>3. QED
    BY <1>5, <2>1, <2>2 DEF Cleanup!MoveDirectory
<1>6. QED
  BY <1>3, <1>4, <1>5

(* A directory goes back to its name, if that is free.                      *)
LEMMA Restored ==
  ASSUME CleanupInv, NEW name \in {"worktree", "metadata"}, NEW e,
         Cleanup!Restore(name, e),
         name = "worktree" => e \in Trees, name = "metadata" => e \in Metadata
  PROVE  /\ named' \in [worktree : Trees, metadata : Metadata]
         /\ hidden' \in SUBSET (Trees \cup Metadata)
         /\ removed' = removed /\ OnePlace'
<1>1. named[name] = NONE /\ e \in hidden /\ named' = [named EXCEPT ![name] = e]
      /\ hidden' = hidden \ {e} /\ removed' = removed
  BY DEF Cleanup!Restore
<1>2. named' \in [worktree : Trees, metadata : Metadata]
  BY <1>1 DEF CleanupInv, CleanupType
<1>3. OnePlace'
  BY <1>1 DEF CleanupInv, CleanupType, OnePlace
<1>4. QED
  BY <1>1, <1>2, <1>3 DEF CleanupInv, CleanupType

(* What is at the worktree's name is removed. No metadata ever are there.   *)
LEMMA EntryRemoved ==
  ASSUME CleanupInv, Cleanup!RemoveEntry
  PROVE  /\ named' \in [worktree : Trees, metadata : Metadata]
         /\ named'["worktree"] = NONE /\ named'["metadata"] = named["metadata"]
         /\ hidden' = hidden /\ OnePlace' /\ Cleanup!OnlyOwnRemoved'
<1>1. /\ named' = [named EXCEPT !["worktree"] = NONE] /\ hidden' = hidden
      /\ removed' = removed \cup ({named["worktree"]} \ {NONE})
  BY DEF Cleanup!RemoveEntry
<1>2. /\ named' \in [worktree : Trees, metadata : Metadata] /\ named["worktree"] \in Trees
      /\ named'["worktree"] = NONE /\ named'["metadata"] = named["metadata"]
  BY <1>1 DEF CleanupInv, CleanupType, Trees
<1>3. Cleanup!OnlyOwnRemoved'
  BY <1>1, <1>2, CleanupAssumption DEF CleanupInv, Cleanup!OnlyOwnRemoved, Trees
<1>4. OnePlace'
  BY <1>1, <1>2, CleanupAssumption DEF CleanupInv, OnePlace
<1>5. QED
  BY <1>1, <1>2, <1>3, <1>4

(* The metadata of another worktree go back, or stay where they are.        *)
LEMMA CompareStep == CleanupInv /\ Cleanup!CompareMetadata => CleanupInv'
<1> SUFFICES ASSUME CleanupInv, Cleanup!CompareMetadata PROVE CleanupInv'
  OBVIOUS
<1>0. call \in Calls /\ call.pc = "compare" /\ call.selected \in Metadata
  BY DEF CleanupInv, CleanupType, CallInv, Selected, Cleanup!CompareMetadata
<1>1. CASE call' = Cleanup!Goes("look") /\ call.selected = "metadata" /\ UNCHANGED Cleanup!places
  <2>1. /\ call' \in Calls /\ call'.of = call.of /\ call'.stale = call.stale
        /\ call'.pc = "look" /\ call'.failed = call.failed
        /\ call'.moved = call.moved /\ call'.selected = call.selected
    BY <1>0, <1>1 DEF Cleanup!Goes, Calls, Taking
  <2>2. NoneLost' /\ StaleFails'
    BY <1>0, <1>1, <2>1
       DEF CleanupInv, CallInv, NoneLost, StaleFails, Cleanup!places, Taking, Clearing
  <2>3. QED
    BY <1>1, <2>1, <2>2
       DEF CleanupInv, CleanupType, OnePlace, CallInv, Selected, NotRegistered, Clearing,
           Cleanup!places, Cleanup!OnlyOwnRemoved, Cleanup!OkIsGone
<1>2. CASE call' = Cleanup!Goes("undo tree")
           /\ (Cleanup!Restore("metadata", call.selected) \/ UNCHANGED Cleanup!places)
  <2>1. Failing
    BY <1>0, <1>2 DEF Failing
  <2>2. CASE UNCHANGED Cleanup!places
    BY <2>1, <2>2, FailingQuietly
  <2>3. CASE Cleanup!Restore("metadata", call.selected)
    BY <1>0, <2>1, <2>3, FailingHolds, Restored
       DEF CleanupInv, CleanupType, Cleanup!OnlyOwnRemoved
  <2>4. QED
    BY <1>2, <2>2, <2>3
<1>3. QED
  BY <1>1, <1>2 DEF Cleanup!CompareMetadata, Cleanup!MetadataUnchanged

(* The way back.                                                            *)
LEMMA UndoStep ==
  ASSUME CleanupInv, Cleanup!UndoMetadata \/ Cleanup!UndoTree \/ Cleanup!RestoreTree
  PROVE  CleanupInv'
<1> USE DEF Cleanup!Step
<1>0. call.pc \in Undoing /\ (call.pc = "undo metadata" => call.selected \in Metadata)
      /\ call.moved \in Trees
  BY DEF CleanupInv, CleanupType, CallInv, Selected, Calls, Undoing, Metadata,
         Cleanup!UndoMetadata, Cleanup!UndoTree, Cleanup!RestoreTree
<1>1. ASSUME call' \in {Cleanup!Raised, Cleanup!Goes("undo tree"), Cleanup!Goes("restore tree")}
      PROVE  Failing
  BY <1>0, <1>1 DEF Failing, Undoing
<1>2. CASE /\ UNCHANGED Cleanup!places
           /\ call' \in {Cleanup!Raised, Cleanup!Goes("undo tree"), Cleanup!Goes("restore tree")}
  BY <1>1, <1>2, FailingQuietly
<1>3. CASE Cleanup!RemoveEntry /\ call' = Cleanup!Goes("restore tree")
  BY <1>1, <1>3, FailingHolds, EntryRemoved DEF CleanupInv, CleanupType
<1>4. CASE Cleanup!Restore("metadata", call.selected) /\ call' = Cleanup!Goes("undo tree")
           /\ call.pc = "undo metadata"
  BY <1>0, <1>1, <1>4, FailingHolds, Restored
     DEF CleanupInv, CleanupType, Cleanup!OnlyOwnRemoved
<1>5. CASE Cleanup!Restore("worktree", call.moved) /\ call' = Cleanup!Raised
  BY <1>0, <1>1, <1>5, FailingHolds, Restored
     DEF CleanupInv, CleanupType, Cleanup!OnlyOwnRemoved
<1>6. QED
  BY <1>2, <1>3, <1>4, <1>5
     DEF Cleanup!UndoMetadata, Cleanup!UndoTree, Cleanup!RestoreTree

(* Metadata that are still there go back first.                             *)
LEMMA UndoingHolds ==
  ASSUME CleanupInv, call.pc \in {"look", "delete metadata"},
         call' \in {Cleanup!Goes("undo metadata"),
                    [Cleanup!Goes("undo metadata") EXCEPT !.selected = "husk"]}
  PROVE  call' \in Calls /\ CallInv'
<1>1. call \in Calls /\ call.selected = "metadata" /\ ~call.stale
  BY DEF CleanupInv, CleanupType, CallInv, Selected, StaleFails
<1>2. /\ call' \in Calls /\ call'.stale = call.stale /\ call'.pc = "undo metadata"
      /\ call'.selected \in {"metadata", "husk"}
  BY <1>1 DEF Cleanup!Goes, Calls, Undoing, Metadata
<1>3. QED
  BY <1>1, <1>2 DEF CallInv, Selected, NoneLost, NotRegistered, StaleFails, Cleanup!OkIsGone,
                    Taking, Clearing

(* A call that goes on to remove what it has taken.                         *)
GoesOn(next) ==
  /\ call' = Cleanup!Goes(next) /\ call.pc \in Taking /\ next \in Taking \cup {"directory"}
  /\ next \in {"look", "delete metadata"} => call.selected = "metadata"
  /\ next \notin {"move metadata", "compare"}
  /\ next \in {"delete tree", "directory"} => ~Cleanup!Registered'

(* A call that goes on to its next step.                                    *)
LEMMA GoingOnHolds ==
  ASSUME CleanupInv, NEW next, GoesOn(next), hidden' \in SUBSET hidden,
         next = "directory" => hidden' = hidden \ {call.moved}
  PROVE  call' \in Calls /\ CallInv'
<1>1. call \in Calls /\ ~call.stale
  BY DEF CleanupInv, CleanupType, CallInv, StaleFails, GoesOn, Taking
<1>2. /\ call' \in Calls /\ call'.of = call.of /\ call'.stale = call.stale /\ call'.pc = next
      /\ call'.failed = call.failed /\ call'.moved = call.moved
      /\ call'.selected = call.selected
  BY <1>1 DEF GoesOn, Cleanup!Goes, Calls, Clearing
<1>3. NoneLost'
  BY <1>2 DEF CleanupInv, CallInv, NoneLost, GoesOn, Taking, Clearing
<1>4. QED
  BY <1>1, <1>2, <1>3 DEF CallInv, Selected, NotRegistered, StaleFails, Cleanup!OkIsGone,
                          GoesOn, Taking, Clearing

(* Something quarantined is removed for good.                               *)
LEMMA RemovedForGood ==
  ASSUME CleanupInv, NEW e, NEW next, Cleanup!Remove(e, next), e \in Trees \cup {"metadata"}
  PROVE  /\ named' = named /\ hidden' = hidden \ {e} /\ call' = next /\ OnePlace'
         /\ Cleanup!OnlyOwnRemoved' /\ hidden' \in SUBSET (Trees \cup Metadata)
BY CleanupAssumption
   DEF Cleanup!Remove, CleanupInv, CleanupType, OnePlace, Cleanup!OnlyOwnRemoved, Trees

(* The steps that remove.                                                   *)
LEMMA RemoveStep ==
  ASSUME CleanupInv,
         \/ Cleanup!LookAgain \/ Cleanup!DeleteMetadata \/ Cleanup!AskUnregistered
         \/ Cleanup!DeleteTree
  PROVE  CleanupInv'
<1> USE DEF Cleanup!Step
<1>0. call \in Calls /\ call.pc \in {"look", "delete metadata", "unregistered", "delete tree"}
      /\ call.moved \in Trees
      /\ (call.pc \in {"look", "delete metadata"} => call.selected = "metadata")
  BY DEF CleanupInv, CleanupType, CallInv, Selected, Calls, Cleanup!LookAgain,
         Cleanup!DeleteMetadata, Cleanup!AskUnregistered, Cleanup!DeleteTree
<1>1. CASE UNCHANGED Cleanup!places /\ call' = Cleanup!Goes("undo metadata")
           /\ call.pc \in {"look", "delete metadata"}
  BY <1>1, UndoingHolds
     DEF CleanupInv, CleanupType, OnePlace, Cleanup!places, Cleanup!OnlyOwnRemoved
<1>2. CASE UNCHANGED Cleanup!places /\ call' = Cleanup!Goes("undo tree")
  BY <1>0, <1>2, FailingQuietly DEF Failing
<1>3. CASE Cleanup!LookAgain
  <2>1. CASE Cleanup!RemoveEntry /\ call' = Cleanup!Goes("delete metadata")
    <3>1. GoesOn("delete metadata")
      BY <1>0, <1>3, <2>1 DEF GoesOn, Taking, Cleanup!LookAgain
    <3>2. QED
      BY <2>1, <3>1, GoingOnHolds, EntryRemoved DEF CleanupInv, CleanupType
  <2>2. CASE Cleanup!RemoveEntry /\ call' = Cleanup!Goes("undo metadata")
    BY <1>3, <2>2, UndoingHolds, EntryRemoved DEF CleanupInv, CleanupType, Cleanup!LookAgain
  <2>3. QED
    BY <1>1, <1>3, <2>1, <2>2 DEF Cleanup!LookAgain
<1>4. CASE Cleanup!DeleteMetadata
  <2>1. CASE Cleanup!Remove(call.selected, Cleanup!Goes("unregistered"))
    <3>1. call.pc = "delete metadata"
      BY <1>4 DEF Cleanup!DeleteMetadata
    <3>2. GoesOn("unregistered")
      BY <2>1, <3>1, RemovedForGood, <1>0 DEF GoesOn, Taking, Cleanup!Remove
    <3>3. QED
      BY <1>0, <2>1, <3>1, <3>2, GoingOnHolds, RemovedForGood DEF CleanupInv, CleanupType
  <2>2. CASE /\ hidden' = (hidden \ {call.selected}) \cup {"husk"} /\ UNCHANGED <<named, removed>>
             /\ call' = [Cleanup!Goes("undo metadata") EXCEPT !.selected = "husk"]
             /\ call.pc = "delete metadata"
    <3>1. call' \in Calls /\ CallInv'
      BY <2>2, UndoingHolds
    <3>2. QED
      BY <2>2, <3>1
         DEF CleanupInv, CleanupType, OnePlace, Cleanup!OnlyOwnRemoved, Metadata
  <2>3. QED
    BY <1>1, <1>4, <2>1, <2>2 DEF Cleanup!DeleteMetadata
<1>5. CASE Cleanup!AskUnregistered
  <2>1. CASE Cleanup!RemoveEntry /\ call' = Cleanup!Goes("undo tree")
    <3>1. Failing
      BY <1>0, <2>1 DEF Failing
    <3>2. QED
      BY <2>1, <3>1, FailingHolds, EntryRemoved DEF CleanupInv, CleanupType
  <2>2. CASE Cleanup!RemoveEntry /\ call' = Cleanup!Goes("delete tree") /\ ~Cleanup!Registered
    <3>1. GoesOn("delete tree")
      BY <1>0, <2>2, EntryRemoved DEF GoesOn, Taking, Cleanup!Registered
    <3>2. QED
      BY <2>2, <3>1, GoingOnHolds, EntryRemoved DEF CleanupInv, CleanupType
  <2>3. QED
    BY <1>2, <1>5, <2>1, <2>2 DEF Cleanup!AskUnregistered
<1>6. CASE Cleanup!DeleteTree
  <2>1. CASE Cleanup!Remove(call.moved, Cleanup!Goes("directory"))
    <3>1. call.pc = "delete tree" /\ ~Cleanup!Registered
      BY <1>6 DEF Cleanup!DeleteTree, CleanupInv, CallInv, NotRegistered
    <3>2. GoesOn("directory")
      BY <1>0, <2>1, <3>1 DEF GoesOn, Taking, Cleanup!Remove, Cleanup!Registered
    <3>3. QED
      BY <1>0, <2>1, <3>2, GoingOnHolds, RemovedForGood DEF CleanupInv, CleanupType
  <2>2. QED
    BY <1>2, <1>6, <2>1 DEF Cleanup!DeleteTree
<1>7. QED
  BY <1>3, <1>4, <1>5, <1>6

(* The last directory goes, and with it what the service had.               *)
LEMMA LastStep == CleanupInv /\ Cleanup!DeleteDirectory => CleanupInv'
<1> SUFFICES ASSUME CleanupInv, Cleanup!DeleteDirectory PROVE CleanupInv'
  OBVIOUS
<1>0. call \in Calls /\ call.pc = "delete directory" /\ call.selected \in Trees
  BY DEF CleanupInv, CleanupType, CallInv, Selected, Cleanup!DeleteDirectory, Cleanup!Step
<1>1. CASE UNCHANGED Cleanup!places /\ call' = Cleanup!Ended(TRUE)
  BY <1>0, <1>1, FailingQuietly DEF Failing, Cleanup!Ended
<1>2. CASE Cleanup!Remove(call.selected, Cleanup!Ended(FALSE))
  <2>1. /\ named' = named /\ hidden' = hidden \ {call.selected} /\ call' = Cleanup!Ended(FALSE)
        /\ OnePlace' /\ Cleanup!OnlyOwnRemoved' /\ hidden' \in SUBSET (Trees \cup Metadata)
    BY <1>0, <1>2, RemovedForGood
  <2>2. CASE call.failed
    <3>1. Failing
      BY <1>0, <2>1, <2>2 DEF Failing, Cleanup!Ended
    <3>2. QED
      BY <2>1, <3>1, FailingHolds DEF CleanupInv, CleanupType
  <2>3. CASE ~call.failed
    <3>1. /\ call' \in Calls /\ call'.of = call.of /\ call'.stale = call.stale
          /\ call'.pc = "ok" /\ call'.failed = FALSE
      BY <1>0, <2>1, <2>3 DEF Cleanup!Ended, Cleanup!Goes, Calls
    <3>2. ~Cleanup!Registered /\ ~call.stale
      BY <1>0, <2>3 DEF CleanupInv, CallInv, NotRegistered, StaleFails, Clearing
    <3>3. call.of = "apply" =>
            "tree" \notin {named["worktree"], named["metadata"]} \cup hidden'
      BY <1>0, <2>1, <2>3, CleanupAssumption
         DEF CleanupInv, CleanupType, CallInv, NoneLost, Clearing, Metadata
    <3>4. "metadata" \notin {named["worktree"], named["metadata"]} \cup hidden'
      BY <2>1, <3>2, CleanupAssumption DEF CleanupInv, CleanupType, Cleanup!Registered, Trees
    <3>5. Cleanup!OkIsGone'
      BY <2>1, <3>1, <3>2, <3>3, <3>4 DEF Cleanup!OkIsGone, Cleanup!Registered
    <3>6. QED
      BY <2>1, <3>1, <3>2, <3>5
         DEF CleanupInv, CleanupType, CallInv, Selected, NoneLost, NotRegistered, StaleFails,
             Taking, Clearing
  <2>4. QED
    BY <2>2, <2>3
<1>3. QED
  BY <1>1, <1>2 DEF Cleanup!DeleteDirectory, Cleanup!Step

(* A recovery, and a kill.                                                  *)
LEMMA RestartStep ==
  ASSUME CleanupInv, Cleanup!Recover \/ Cleanup!Kill PROVE CleanupInv'
<1>1. CASE Cleanup!Kill
  BY <1>1, FailingQuietly DEF Failing, Cleanup!Kill, Cleanup!places
<1>2. CASE Cleanup!Recover
  <2>1. /\ call' = [of |-> "recover", pc |-> IF Cleanup!Registered THEN "read" ELSE "ok",
                    selected |-> NONE, moved |-> NONE, failed |-> FALSE,
                    stale |-> Cleanup!Stale]
        /\ UNCHANGED Cleanup!places
    BY <1>2 DEF Cleanup!Recover
  <2>2. call' \in Calls
    BY <2>1 DEF Calls, Trees, Cleanup!Stale
  <2>3. QED
    BY <2>1, <2>2
       DEF CleanupInv, CleanupType, OnePlace, CallInv, Selected, NoneLost, NotRegistered,
           StaleFails, Cleanup!places, Cleanup!OnlyOwnRemoved, Cleanup!OkIsGone,
           Cleanup!Registered, Cleanup!Stale, Taking, Clearing
<1>3. QED
  BY <1>1, <1>2

(* The others: what they put at a name is neither the tree nor its metadata. *)
LEMMA OthersStep ==
  ASSUME CleanupInv,
         \/ Cleanup!Prune
         \/ \E e \in Strays : Cleanup!Put("worktree", e)
         \/ \E e \in Worktrees : Cleanup!Put("metadata", e)
  PROVE  CleanupInv'
<1>1. ASSUME UNCHANGED <<call, removed>>, named' \in [worktree : Trees, metadata : Metadata],
             hidden' \in SUBSET hidden,
             named'["worktree"] = "tree" => named["worktree"] = "tree",
             named'["metadata"] = "metadata" => named["metadata"] = "metadata"
      PROVE  CleanupInv'
  <2>1. Cleanup!Registered' => Cleanup!Registered
    BY <1>1 DEF Cleanup!Registered
  <2>2. CleanupType' /\ OnePlace' /\ Cleanup!OnlyOwnRemoved'
    BY <1>1 DEF CleanupInv, CleanupType, OnePlace, Cleanup!OnlyOwnRemoved
  <2>3. Selected' /\ NoneLost' /\ NotRegistered' /\ StaleFails'
    BY <1>1, <2>1, ZenonT(60) DEF CleanupInv, CallInv, Selected, NoneLost, NotRegistered, StaleFails
  <2>4. Cleanup!OkIsGone'
    BY <1>1, <2>1, CleanupAssumption
       DEF CleanupInv, CleanupType, CallInv, Cleanup!OkIsGone, Trees, Metadata
  <2>5. QED
    BY <2>2, <2>3, <2>4 DEF CleanupInv, CallInv
<1>2. CASE Cleanup!Prune
  <2>1. /\ named' = [named EXCEPT !["metadata"] = IF @ = "metadata" THEN NONE ELSE @]
        /\ hidden' = hidden \ {"metadata"} /\ UNCHANGED <<removed, call>>
    BY <1>2 DEF Cleanup!Prune
  <2>2. /\ named' \in [worktree : Trees, metadata : Metadata]
        /\ named'["worktree"] = named["worktree"]
        /\ named'["metadata"] = "metadata" => named["metadata"] = "metadata"
    BY <2>1, CleanupAssumption DEF CleanupInv, CleanupType, Metadata
  <2>3. QED
    BY <1>1, <2>1, <2>2
<1>3. ASSUME NEW name \in {"worktree", "metadata"}, NEW e, Cleanup!Put(name, e),
             e \in IF name = "worktree" THEN Strays ELSE Worktrees
      PROVE  CleanupInv'
  <2>1. named' = [named EXCEPT ![name] = e] /\ UNCHANGED <<hidden, removed, call>>
    BY <1>3 DEF Cleanup!Put
  <2>2. /\ named' \in [worktree : Trees, metadata : Metadata]
        /\ named'["worktree"] = "tree" => named["worktree"] = "tree"
        /\ named'["metadata"] = "metadata" => named["metadata"] = "metadata"
    BY <1>3, <2>1, CleanupAssumption DEF CleanupInv, CleanupType, Trees, Metadata
  <2>3. QED
    BY <1>1, <2>1, <2>2
<1>4. QED
  BY <1>2, <1>3

(* Every step keeps the invariant.                                          *)
LEMMA CleanupStep ==
  ASSUME CleanupInv, [Cleanup!Next]_(Cleanup!vars) PROVE CleanupInv'
<1>1. CASE UNCHANGED Cleanup!vars
  BY <1>1, ZenonT(60) DEF Cleanup!vars, CleanupInv, CleanupType, OnePlace, CallInv, Selected, NoneLost,
              NotRegistered, StaleFails, Cleanup!OnlyOwnRemoved, Cleanup!OkIsGone,
              Cleanup!Registered
<1>2. QED
  BY <1>1, LookStep, StatStep, RenameStep, CompareStep, UndoStep, RemoveStep, LastStep,
     RestartStep, OthersStep DEF Cleanup!Next

(* In every behaviour in which the worktree moves, its invariant holds.     *)
LEMMA CleanupAlways == Spec => [](focus = "worktree" => CleanupInv)
<1>1. Init => (focus = "worktree" => CleanupInv)
  BY CleanupInit DEF Init
<1>2. (focus = "worktree" => CleanupInv) /\ [Next]_vars => (focus = "worktree" => CleanupInv)'
  BY FocusStays, CleanupMoves, CleanupStep
<1>3. QED
  BY <1>1, <1>2, PTL DEF Spec

(* Whatever fails, is killed or gets a name in between: the removal of a    *)
(* worktree takes no metadata of another, and one that ends well has left   *)
(* Git no worktree of the proposal.                                         *)
THEOREM OnlyTheOwnWorktreeGoes == Spec => []CleanupHolds
<1>1. (focus = "worktree" => CleanupInv) => CleanupHolds
  BY DEF CleanupInv, CallInv, CleanupHolds
<1>2. QED
  BY <1>1, CleanupAlways, PTL
=============================================================================
