---------------------------- MODULE IntakeProofs ----------------------------
(* Proofs about what Intake.tla takes in.  Of its components one moves at a *)
(* time, and the focus says which: for each there is an invariant of its    *)
(* own, which its own steps keep.  Sums, and what the parser makes of the   *)
(* units, lines and chunks of a file, are folds, and FoldTheorems says of   *)
(* each what an induction needs.                                            *)
EXTENDS Intake, Integers, Sequences, FiniteSets, Functions, FiniteSetTheorems,
        SequenceTheorems, TLAPS

(* Only one component moves.                                                *)
LEMMA FocusStays == [Next]_vars => focus' = focus
BY DEF Next, vars, CodexAlone, ChatGPTAlone, ScanAlone, ProbeAlone

-----------------------------------------------------------------------------
(* The import of archives.                                                  *)

(* While the focus is on the import, it moves alone.                        *)
LEMMA ImportMoves ==
  ASSUME [Next]_vars, focus = "chatgpt"
  PROVE  [ChatGPT!Next]_(ChatGPT!vars)
<1>1. CASE UNCHANGED vars
  BY <1>1 DEF vars, chatgptVars, ChatGPT!vars
<1>2. CASE Next
  BY <1>2 DEF Next, ChatGPT!Next
<1>3. QED
  BY <1>1, <1>2

Rows == ChatGPT!Rows
Snapshots == UNION {[S -> [enabled : BOOLEAN, identity : Nat]] : S \in SUBSET Projects}
Runs == [pc : {"idle", "verify", "open", "read", "next", "commit"}, dry : BOOLEAN,
         generation : Nat, rows : Snapshots, archive : DOMAIN Archives \cup {NONE},
         stamp : Nat, content : DOMAIN Archives \cup {NONE}, at : Nat \ {0},
         project : Projects \cup {NONE}, kind : {"empty", "confirm", "capture", NONE}]

ImportType ==
  /\ registry \in [Projects -> [known : BOOLEAN, enabled : BOOLEAN, identity : Nat]]
  /\ generation \in Nat
  /\ live \in [Projects -> Nat]
  /\ zip \in [archive : DOMAIN Archives, stamp : Nat]
  /\ run \in [Importers -> Runs]

(* The registry of an import's generation is the one that the import saw.   *)
AsSeen(x) ==
  x.pc # "idle" =>
    /\ x.generation <= generation
    /\ x.generation = generation => x.rows = Rows

(* The archive that was hashed is the one that is read.                     *)
AsHashed(x) ==
  /\ x.pc = "read" => /\ x.archive \in DOMAIN Archives /\ x.stamp <= zip.stamp
                      /\ x.stamp = zip.stamp => x.archive = zip.archive
  /\ x.pc \in {"next", "commit"} =>
       /\ x.archive \in DOMAIN Archives /\ x.content = x.archive
       /\ ~ChatGPT!Repeats(Archives[x.archive])

(* What is about to be committed is what the snapshot says of the           *)
(* conversation.                                                            *)
AsDecided(x) ==
  x.pc = "commit" =>
    LET c == Archives[x.content][x.at]
        m == ChatGPT!Match(x.rows, c.mentions)
    IN  /\ x.at \in DOMAIN Archives[x.content] /\ c.id # NONE
        /\ x.kind \in {"empty", "confirm", "capture"}
        /\ x.kind = "capture" => x.project = m.project /\ m.project # NONE
        /\ x.kind = "confirm" => m.project = NONE
        /\ x.kind = "empty" => ~ChatGPT!Stated(c)
        /\ ChatGPT!Completed(c) => ~m.blocked

(* Receipts are of archives without repeated ids, and what is stored is of  *)
(* one archive that has a receipt of it.                                    *)
Received ==
  /\ \A r \in receipts : /\ r[1] \in DOMAIN Archives /\ r[2] \in ChatGPT!Ids(Archives[r[1]])
                         /\ ~ChatGPT!Repeats(Archives[r[1]])
  /\ \A s \in sources : s = [id |-> s.id, version |-> s.version, project |-> s.project]
  /\ ChatGPT!ReceiptsAccount

ImportInv ==
  /\ ImportType /\ Received
  /\ \A i \in Importers : AsSeen(run[i]) /\ AsHashed(run[i]) /\ AsDecided(run[i])

(* A snapshot of the registry.                                              *)
LEMMA RowsType == ImportType => Rows \in Snapshots /\ <<>> \in Snapshots
<1> SUFFICES ASSUME ImportType PROVE Rows \in Snapshots /\ <<>> \in Snapshots
  OBVIOUS
<1>1. {q \in Projects : registry[q].known} \in SUBSET Projects
  OBVIOUS
<1>2. Rows \in [{q \in Projects : registry[q].known} -> [enabled : BOOLEAN, identity : Nat]]
  BY DEF ImportType, Rows, ChatGPT!Rows
<1>3. <<>> \in [{} -> [enabled : BOOLEAN, identity : Nat]]
  OBVIOUS
<1>4. QED
  BY <1>1, <1>2, <1>3 DEF Snapshots

(* An import that has not begun.                                            *)
LEMMA IdleRun ==
  /\ ChatGPT!Idle \in Runs
  /\ AsSeen(ChatGPT!Idle) /\ AsHashed(ChatGPT!Idle) /\ AsDecided(ChatGPT!Idle)
<1>1. <<>> \in Snapshots
  <2>1. <<>> \in [{} -> [enabled : BOOLEAN, identity : Nat]] /\ {} \in SUBSET Projects
    OBVIOUS
  <2>2. QED
    BY <2>1 DEF Snapshots
<1>2. ChatGPT!Idle \in Runs /\ ChatGPT!Idle.pc = "idle"
  BY <1>1 DEF ChatGPT!Idle, Runs
<1>3. QED
  BY <1>2 DEF AsSeen, AsHashed, AsDecided

(* Nothing is imported yet.                                                 *)
LEMMA ImportInit == ChatGPT!Init => ImportInv
<1> SUFFICES ASSUME ChatGPT!Init PROVE ImportInv
  OBVIOUS
<1>0. registry \in [Projects -> [known : BOOLEAN, enabled : BOOLEAN, identity : Nat]]
  <2>1. {TRUE} \subseteq BOOLEAN /\ {0} \subseteq Nat
    OBVIOUS
  <2>2. registry \in [Projects -> [known : BOOLEAN, enabled : {TRUE}, identity : {0}]]
    BY DEF ChatGPT!Init
  <2>3. QED
    BY <2>1, <2>2
<1>1. ImportType /\ \A i \in Importers : run[i] = ChatGPT!Idle
  <2>1. zip \in [archive : DOMAIN Archives, stamp : Nat]
    BY DEF ChatGPT!Init
  <2>2. /\ generation = 0 /\ live = [p \in Projects |-> 0]
        /\ run = [i \in Importers |-> ChatGPT!Idle]
    BY DEF ChatGPT!Init
  <2>3. QED
    BY <1>0, <2>1, <2>2, IdleRun DEF ImportType
<1>2. Received
  BY DEF ChatGPT!Init, Received, ChatGPT!ReceiptsAccount
<1>3. QED
  BY <1>1, <1>2, IdleRun DEF ImportInv

(* An id that is not repeated names one conversation.                       *)
LEMMA OneConversation ==
  ASSUME NEW a \in DOMAIN Archives, ~ChatGPT!Repeats(Archives[a]),
         NEW k \in DOMAIN Archives[a], Archives[a][k].id # NONE
  PROVE  ChatGPT!Conversation(a, Archives[a][k].id) = Archives[a][k]
<1> DEFINE c == Archives[a][k]
<1>1. \A x : x \in ChatGPT!ToSet(Archives[a]) <=> \E j \in DOMAIN Archives[a] : Archives[a][j] = x
  BY DEF ChatGPT!ToSet
<1>2. ASSUME NEW x \in ChatGPT!ToSet(Archives[a]), x.id = c.id PROVE x = c
  <2>1. PICK j \in DOMAIN Archives[a] : Archives[a][j] = x
    BY <1>1
  <2>2. j \in Int /\ k \in Int
    BY ImportAssumption
  <2>3. ~(j < k) /\ ~(k < j)
    BY <1>2, <2>1 DEF ChatGPT!Repeats
  <2>4. j = k
    BY <2>2, <2>3
  <2>5. QED
    BY <2>1, <2>4
<1>3. c \in ChatGPT!ToSet(Archives[a]) /\ c.id = c.id
  BY <1>1, SMTT(60)
<1>4. QED
  BY <1>2, <1>3 DEF ChatGPT!Conversation

(* The owner changes the registry, in a new generation.                     *)
LEMMA RegistryStep ==
  ASSUME ImportInv, ChatGPT!ToggleEnabled \/ ChatGPT!BindDirectory
  PROVE  ImportInv'
<1>0. /\ generation' = generation + 1 /\ UNCHANGED <<live, zip, sources, receipts, run>>
      /\ generation \in Nat /\ run \in [Importers -> Runs]
      /\ registry \in [Projects -> [known : BOOLEAN, enabled : BOOLEAN, identity : Nat]]
      /\ live \in [Projects -> Nat]
  BY DEF ChatGPT!ToggleEnabled, ChatGPT!BindDirectory, ImportInv, ImportType
<1>1. registry' \in [Projects -> [known : BOOLEAN, enabled : BOOLEAN, identity : Nat]]
  <2>1. CASE ChatGPT!ToggleEnabled
    BY <1>0, <2>1, ZenonT(60) DEF ChatGPT!ToggleEnabled
  <2>2. CASE ChatGPT!BindDirectory
    <3>1. PICK p \in Projects :
            registry' = [registry EXCEPT ![p] =
              [known |-> TRUE, identity |-> live[p],
               enabled |-> IF registry[p].known THEN registry[p].enabled ELSE TRUE]]
      BY <2>2 DEF ChatGPT!BindDirectory
    <3>2. (IF registry[p].known THEN registry[p].enabled ELSE TRUE) \in BOOLEAN
      BY <1>0
    <3>3. QED
      BY <1>0, <3>1, <3>2
  <2>3. QED
    BY <2>1, <2>2
<1>2. ASSUME NEW i \in Importers PROVE AsSeen(run[i])'
  <2>1. run[i].generation \in Nat
    BY <1>0, SMTT(60) DEF Runs
  <2>2. QED
    BY <1>0, <2>1 DEF ImportInv, AsSeen
<1>3. QED
  BY <1>0, <1>1, <1>2
     DEF ImportInv, ImportType, Received, AsHashed, AsDecided, ChatGPT!ReceiptsAccount

(* A directory is replaced, or the archive is overwritten.                  *)
LEMMA FilesStep ==
  ASSUME ImportInv, ChatGPT!ReplaceDirectory \/ ChatGPT!OverwriteArchive
  PROVE  ImportInv'
<1>0. /\ UNCHANGED <<registry, generation, sources, receipts, run>>
      /\ run \in [Importers -> Runs] /\ live \in [Projects -> Nat]
      /\ zip \in [archive : DOMAIN Archives, stamp : Nat]
  BY DEF ChatGPT!ReplaceDirectory, ChatGPT!OverwriteArchive, ImportInv, ImportType
<1>1. live' \in [Projects -> Nat]
  BY <1>0 DEF ChatGPT!ReplaceDirectory, ChatGPT!OverwriteArchive
<1>2. /\ zip' \in [archive : DOMAIN Archives, stamp : Nat]
      /\ zip' = zip \/ zip'.stamp = zip.stamp + 1
  BY <1>0 DEF ChatGPT!ReplaceDirectory, ChatGPT!OverwriteArchive
<1>3. ASSUME NEW i \in Importers PROVE AsHashed(run[i])'
  <2>1. run[i].stamp \in Nat
    BY <1>0 DEF Runs
  <2>2. QED
    BY <1>0, <1>2, <2>1 DEF ImportInv, AsHashed
<1>4. QED
  BY <1>0, <1>1, <1>2, <1>3 DEF ImportInv, ImportType, Received, AsSeen, Rows, ChatGPT!Rows,
     AsDecided, ChatGPT!ReceiptsAccount

(* A step of one import.                                                    *)
LEMMA RunMoves ==
  ASSUME ImportInv, NEW i \in Importers, NEW x \in Runs,
         UNCHANGED <<registry, generation, live, zip>>, Received',
         run' = [run EXCEPT ![i] = x], AsSeen(x), AsHashed(x), AsDecided(x)
  PROVE  ImportInv'
<1>1. run \in [Importers -> Runs]
  BY DEF ImportInv, ImportType
<1>2. run' \in [Importers -> Runs] /\ run'[i] = x /\ \A j \in Importers \ {i} : run'[j] = run[j]
  <2>1. run' \in [Importers -> Runs]
    BY <1>1
  <2>2. run'[i] = x
    BY <1>1
  <2>3. \A j \in Importers \ {i} : run'[j] = run[j]
    BY <1>1
  <2>4. QED
    BY <2>1, <2>2, <2>3
<1>3. ASSUME NEW j \in Importers
      PROVE  AsSeen(run[j])' /\ AsHashed(run[j])' /\ AsDecided(run[j])'
  BY <1>2 DEF ImportInv, AsSeen, AsHashed, AsDecided, Rows, ChatGPT!Rows
<1>4. ImportType'
  BY <1>2 DEF ImportInv, ImportType
<1>5. QED
  BY <1>3, <1>4 DEF ImportInv

(* An import that ends.                                                     *)
LEMMA StopStep ==
  ASSUME ImportInv, NEW i \in Importers, ChatGPT!Stop(i),
         UNCHANGED <<registry, generation, live, zip, sources, receipts>>
  PROVE  ImportInv'
<1>1. Received'
  BY DEF ImportInv, Received, ChatGPT!ReceiptsAccount
<1>2. QED
  BY <1>1, IdleRun, RunMoves DEF ChatGPT!Stop

(* An import goes on to the next conversation.                              *)
LEMMA SkipStep ==
  ASSUME ImportInv, NEW i \in Importers, run[i].pc \in {"next", "commit"}, ChatGPT!Skip(i),
         UNCHANGED <<registry, generation, live, zip>>, Received'
  PROVE  ImportInv'
<1>1. run \in [Importers -> Runs] /\ run[i] \in Runs
  BY DEF ImportInv, ImportType
<1> DEFINE next == run[i].at + 1
           x == [run[i] EXCEPT !.pc = "next", !.at = next, !.project = NONE, !.kind = NONE]
<1>2. next \in Nat \ {0}
  BY <1>1 DEF Runs
<1>3. run' = [run EXCEPT ![i] = x]
  BY <1>1 DEF ChatGPT!Skip
<1> HIDE DEF next
<1>4. /\ x \in Runs /\ x.pc = "next" /\ x.generation = run[i].generation
      /\ x.rows = run[i].rows /\ x.archive = run[i].archive /\ x.content = run[i].content
  BY <1>1, <1>2 DEF Runs
<1>5. AsSeen(x) /\ AsHashed(x) /\ AsDecided(x)
  BY <1>4 DEF ImportInv, AsSeen, AsHashed, AsDecided
<1> HIDE DEF x
<1>6. QED
  BY <1>3, <1>4, <1>5, RunMoves

(* The snapshot is taken and verified, and the archive is read.             *)
LEMMA PrepareStep ==
  ASSUME ImportInv, NEW i \in Importers,
         \/ ChatGPT!Start(i) \/ ChatGPT!VerifySnapshot(i) \/ ChatGPT!HashArchive(i)
         \/ ChatGPT!ReadArchive(i)
  PROVE  ImportInv'
<1>0. /\ UNCHANGED <<registry, generation, live, zip, sources, receipts>>
      /\ run \in [Importers -> Runs] /\ run[i] \in Runs /\ generation \in Nat
      /\ zip \in [archive : DOMAIN Archives, stamp : Nat]
  BY DEF ChatGPT!Start, ChatGPT!VerifySnapshot, ChatGPT!HashArchive, ChatGPT!ReadArchive,
     ImportInv, ImportType
<1>a. Received'
  BY <1>0 DEF ImportInv, Received, ChatGPT!ReceiptsAccount
<1>1. CASE ChatGPT!Start(i)
  <2>1. PICK dry \in BOOLEAN :
          run' = [run EXCEPT ![i] = [ChatGPT!Idle EXCEPT !.pc = "verify", !.dry = dry,
                                       !.generation = generation, !.rows = Rows]]
    BY <1>1 DEF ChatGPT!Start, Rows
  <2> DEFINE x == [ChatGPT!Idle EXCEPT !.pc = "verify", !.dry = dry,
                                       !.generation = generation, !.rows = Rows]
  <2>2. Rows \in Snapshots /\ ChatGPT!Idle \in Runs
    BY RowsType, IdleRun DEF ImportInv
  <2>3. x \in Runs /\ x.pc = "verify" /\ x.generation = generation /\ x.rows = Rows
    BY <1>0, <2>2 DEF Runs
  <2>4. AsSeen(x) /\ AsHashed(x) /\ AsDecided(x)
    BY <1>0, <2>3 DEF AsSeen, AsHashed, AsDecided
  <2> HIDE DEF x
  <2>5. QED
    BY <1>0, <1>a, <2>1, <2>3, <2>4, RunMoves DEF x
<1>2. CASE ChatGPT!VerifySnapshot(i)
  <2>1. CASE ChatGPT!Stop(i)
    BY <1>0, <2>1, StopStep
  <2>2. CASE ChatGPT!Go(i, "open")
    <3> DEFINE x == [run[i] EXCEPT !.pc = "open"]
    <3>1. run' = [run EXCEPT ![i] = x] /\ run[i].pc = "verify"
      BY <1>0, <1>2, <2>2 DEF ChatGPT!Go, ChatGPT!VerifySnapshot
    <3>2. x \in Runs /\ x.pc = "open" /\ x.generation = run[i].generation /\ x.rows = run[i].rows
      BY <1>0, SMTT(60) DEF Runs
    <3>3. AsSeen(x) /\ AsHashed(x) /\ AsDecided(x)
      BY <3>1, <3>2 DEF ImportInv, AsSeen, AsHashed, AsDecided
    <3> HIDE DEF x
    <3>4. QED
      BY <1>0, <1>a, <3>1, <3>2, <3>3, RunMoves
  <2>3. QED
    BY <1>2, <2>1, <2>2 DEF ChatGPT!VerifySnapshot
<1>3. CASE ChatGPT!HashArchive(i)
  <2> DEFINE x == [run[i] EXCEPT !.pc = "read", !.archive = zip.archive, !.stamp = zip.stamp]
  <2>1. run' = [run EXCEPT ![i] = x] /\ run[i].pc = "open"
    BY <1>0, <1>3 DEF ChatGPT!HashArchive
  <2>2. /\ x \in Runs /\ x.pc = "read" /\ x.generation = run[i].generation
        /\ x.rows = run[i].rows /\ x.archive = zip.archive /\ x.stamp = zip.stamp
    BY <1>0 DEF Runs
  <2>3. AsSeen(x) /\ AsHashed(x) /\ AsDecided(x)
    BY <1>0, <2>1, <2>2 DEF ImportInv, AsSeen, AsHashed, AsDecided
  <2> HIDE DEF x
  <2>4. QED
    BY <1>0, <1>a, <2>1, <2>2, <2>3, RunMoves
<1>4. CASE ChatGPT!ReadArchive(i)
  <2>1. CASE ChatGPT!Stop(i)
    BY <1>0, <2>1, StopStep
  <2>2. CASE /\ ChatGPT!SameArchive(i) /\ ~ChatGPT!Repeats(Archives[zip.archive])
             /\ run' = [run EXCEPT ![i].pc = "next", ![i].content = zip.archive]
    <3> DEFINE x == [run[i] EXCEPT !.pc = "next", !.content = zip.archive]
    <3>1. run' = [run EXCEPT ![i] = x] /\ run[i].pc = "read"
      BY <1>0, <1>4, <2>2 DEF ChatGPT!ReadArchive
    <3>2. run[i].archive = zip.archive
      BY <2>2, <3>1 DEF ChatGPT!SameArchive, ImportInv, AsHashed
    <3>3. /\ x \in Runs /\ x.pc = "next" /\ x.generation = run[i].generation
          /\ x.rows = run[i].rows /\ x.archive = zip.archive /\ x.content = zip.archive
      BY <1>0, <3>2 DEF Runs
    <3>4. AsSeen(x) /\ AsHashed(x) /\ AsDecided(x)
      BY <1>0, <2>2, <3>1, <3>3 DEF ImportInv, AsSeen, AsHashed, AsDecided
    <3> HIDE DEF x
    <3>5. QED
      BY <1>0, <1>a, <3>1, <3>3, <3>4, RunMoves
  <2>3. QED
    BY <1>4, <2>1, <2>2 DEF ChatGPT!ReadArchive
<1>5. QED
  BY <1>1, <1>2, <1>3, <1>4

(* What a match chooses is a project.                                       *)
LEMMA MatchedProject ==
  ASSUME NEW rows \in Snapshots, NEW m
  PROVE  ChatGPT!Match(rows, m).project \in Projects \cup {NONE}
<1>1. DOMAIN rows \subseteq Projects
  BY DEF Snapshots
<1> DEFINE enabled == {p \in ChatGPT!Candidates(rows, m) : rows[p].enabled}
           best == ChatGPT!Max({0} \cup {ChatGPT!Confidence(p, m) : p \in enabled})
           winners == {p \in enabled : ChatGPT!Confidence(p, m) = best}
           blockers == {p \in ChatGPT!Candidates(rows, m) \ enabled :
                          \/ ChatGPT!Confidence(p, m) >= best
                          \/ \E w \in winners : Within(p, w)}
<1>2. winners \subseteq Projects
  BY <1>1 DEF ChatGPT!Candidates
<1>3. ChatGPT!Match(rows, m).project = IF blockers = {} /\ \E p \in winners : winners = {p}
                                       THEN CHOOSE p \in winners : TRUE ELSE NONE
  BY DEF ChatGPT!Match
<1> HIDE DEF winners, blockers
<1>4. QED
  BY <1>2, <1>3

(* A conversation is passed over, or it is decided what becomes of it.      *)
LEMMA DecideStep ==
  ASSUME ImportInv, NEW i \in Importers, ChatGPT!PassOver(i) \/ ChatGPT!Decide(i)
  PROVE  ImportInv'
<1>0. /\ UNCHANGED <<registry, generation, live, zip, sources, receipts>>
      /\ run \in [Importers -> Runs] /\ run[i] \in Runs
      /\ run[i].pc = "next" /\ ChatGPT!More(i)
      /\ run[i].content \in DOMAIN Archives /\ run[i].at \in Nat \ {0}
      /\ run[i].rows \in Snapshots
  BY DEF ChatGPT!PassOver, ChatGPT!Decide, ImportInv, ImportType, Runs, AsHashed
<1>a. Received'
  BY <1>0 DEF ImportInv, Received, ChatGPT!ReceiptsAccount
<1>b. run[i].at \in DOMAIN Archives[run[i].content]
  BY <1>0, ImportAssumption DEF ChatGPT!More
<1>1. CASE ChatGPT!Skip(i)
  BY <1>0, <1>a, <1>1, SkipStep
<1>2. CASE ChatGPT!Stop(i)
  BY <1>0, <1>2, StopStep
<1> DEFINE c == ChatGPT!Item(i)
           m == ChatGPT!Match(run[i].rows, c.mentions)
<1>3. ASSUME NEW kind \in {"empty", "confirm", "capture"}, NEW p \in Projects \cup {NONE},
             ChatGPT!Decided(i, kind, p), c.id # NONE,
             kind = "capture" => p = m.project /\ m.project # NONE,
             kind = "confirm" => m.project = NONE,
             kind = "empty" => ~ChatGPT!Stated(c),
             ChatGPT!Completed(c) => ~m.blocked
      PROVE  ImportInv'
  <2>1. CASE run[i].dry
    BY <1>1, <1>3, <2>1 DEF ChatGPT!Decided
  <2>2. CASE ~run[i].dry
    <3> DEFINE x == [run[i] EXCEPT !.pc = "commit", !.kind = kind, !.project = p]
    <3>1. run' = [run EXCEPT ![i] = x]
      BY <1>0, <1>3, <2>2 DEF ChatGPT!Decided
    <3>2. /\ x \in Runs /\ x.pc = "commit" /\ x.generation = run[i].generation
          /\ x.rows = run[i].rows /\ x.archive = run[i].archive /\ x.content = run[i].content
          /\ x.at = run[i].at /\ x.kind = kind /\ x.project = p
      BY <1>0 DEF Runs
    <3>3. c = Archives[x.content][x.at]
      BY <3>2 DEF ChatGPT!Item
    <3>4. AsDecided(x)
      BY <1>b, <1>3, <3>2, <3>3 DEF AsDecided
    <3>5. AsSeen(x) /\ AsHashed(x)
      BY <1>0, <3>2 DEF ImportInv, AsSeen, AsHashed
    <3> HIDE DEF x
    <3>6. QED
      BY <1>0, <1>a, <3>1, <3>2, <3>4, <3>5, RunMoves
  <2>3. QED
    BY <2>1, <2>2
<1>4. m.project \in Projects \cup {NONE}
  BY <1>0, MatchedProject
<1>5. CASE ChatGPT!PassOver(i)
  BY <1>1, <1>5 DEF ChatGPT!PassOver
<1>6. CASE ChatGPT!Decide(i)
  <2>0. c.id # NONE
    BY <1>6 DEF ChatGPT!Decide
  <2>1. CASE ~ChatGPT!Completed(c)
    <3>1. ChatGPT!Decided(i, "empty", NONE) /\ ~ChatGPT!Stated(c)
      BY <1>6, <2>1 DEF ChatGPT!Decide, ChatGPT!Stated
    <3>2. QED
      BY <1>3, <2>0, <2>1, <3>1
  <2>2. CASE /\ ChatGPT!Completed(c)
             /\ ~ChatGPT!Unchanged(i) \/ ~ChatGPT!WinnersCurrent(i, m.winners)
    BY <1>2, <1>6, <2>2 DEF ChatGPT!Decide
  <2>3. CASE /\ ChatGPT!Completed(c) /\ ChatGPT!Unchanged(i)
             /\ ChatGPT!WinnersCurrent(i, m.winners)
    <3>1. CASE m.blocked
      BY <1>1, <1>6, <2>3, <3>1 DEF ChatGPT!Decide
    <3>2. CASE ~m.blocked /\ m.project = NONE
      <4>1. ChatGPT!Decided(i, "confirm", NONE)
        BY <1>6, <2>3, <3>2 DEF ChatGPT!Decide
      <4>2. QED
        BY <1>3, <2>0, <3>2, <4>1
    <3>3. CASE ~m.blocked /\ m.project # NONE /\ ~ChatGPT!Stated(c)
      <4>1. ChatGPT!Decided(i, "empty", m.project)
        BY <1>6, <2>3, <3>3 DEF ChatGPT!Decide
      <4>2. QED
        BY <1>3, <1>4, <2>0, <3>3, <4>1
    <3>4. CASE ~m.blocked /\ m.project # NONE /\ ChatGPT!Stated(c)
      <4>1. ChatGPT!Stop(i) \/ ChatGPT!Decided(i, "capture", m.project)
        BY <1>6, <2>3, <3>4 DEF ChatGPT!Decide
      <4>2. QED
        BY <1>2, <1>3, <1>4, <2>0, <3>4, <4>1
    <3>5. QED
      BY <3>1, <3>2, <3>3, <3>4
  <2>4. QED
    BY <2>1, <2>2, <2>3
<1>7. QED
  BY <1>5, <1>6

(* A conversation is committed with its receipt, as it was decided.         *)
LEMMA CommitFacts ==
  ASSUME ImportInv, NEW i \in Importers, ChatGPT!CommitConversation(i)
  PROVE  LET a == run[i].archive
             c == ChatGPT!Item(i)
         IN  /\ a \in DOMAIN Archives /\ ~ChatGPT!Repeats(Archives[a])
             /\ c.id \in ChatGPT!Ids(Archives[a]) /\ ChatGPT!Conversation(a, c.id) = c
             /\ receipts' = receipts \cup {<<a, c.id>>}
             /\ run[i].kind = "capture" =>
                  /\ ChatGPT!Compatible(c, run[i].project)
                  /\ sources' = sources \cup {[id |-> c.id, version |-> c.version,
                                              project |-> run[i].project]}
             /\ run[i].kind # "capture" => sources' = sources
<1>1. run[i].pc = "commit" /\ run[i] \in Runs
  BY DEF ImportInv, ImportType, ChatGPT!CommitConversation
<1>2. /\ run[i].archive \in DOMAIN Archives /\ ~ChatGPT!Repeats(Archives[run[i].archive])
      /\ run[i].content = run[i].archive
  BY <1>1, SMTT(60) DEF ImportInv, AsHashed
<1>3. run[i].at \in DOMAIN Archives[run[i].archive] /\ ChatGPT!Item(i).id # NONE
  BY <1>1, <1>2 DEF ImportInv, AsDecided, ChatGPT!Item
<1>4. /\ ChatGPT!Item(i).id \in ChatGPT!Ids(Archives[run[i].archive])
      /\ ChatGPT!Conversation(run[i].archive, ChatGPT!Item(i).id) = ChatGPT!Item(i)
  BY <1>2, <1>3, OneConversation DEF ChatGPT!Item, ChatGPT!Ids
<1>5. QED
  BY <1>2, <1>4 DEF ChatGPT!CommitConversation, ChatGPT!Accepted

(* So receipts and what is stored still account for one another.            *)
LEMMA CommitStep ==
  ASSUME ImportInv, NEW i \in Importers, ChatGPT!CommitConversation(i)
  PROVE  ImportInv'
<1> DEFINE a == run[i].archive
           c == ChatGPT!Item(i)
           new == [id |-> c.id, version |-> c.version, project |-> run[i].project]
<1>1. /\ a \in DOMAIN Archives /\ ~ChatGPT!Repeats(Archives[a])
      /\ c.id \in ChatGPT!Ids(Archives[a]) /\ ChatGPT!Conversation(a, c.id) = c
      /\ receipts' = receipts \cup {<<a, c.id>>}
      /\ run[i].kind = "capture" => /\ ChatGPT!Compatible(c, run[i].project)
                                    /\ sources' = sources \cup {new}
      /\ run[i].kind # "capture" => sources' = sources
  BY CommitFacts
<1> HIDE DEF a, c
<1>2. \A r \in receipts' : /\ r[1] \in DOMAIN Archives
                           /\ r[2] \in ChatGPT!Ids(Archives[r[1]])
                           /\ ~ChatGPT!Repeats(Archives[r[1]])
  BY <1>1 DEF ImportInv, Received
<1>3. \A s \in sources : /\ s = [id |-> s.id, version |-> s.version, project |-> s.project]
                         /\ \E r \in receipts' :
                              r[2] = s.id /\ ChatGPT!Conversation(r[1], r[2]).version = s.version
  BY <1>1 DEF ImportInv, Received, ChatGPT!ReceiptsAccount
<1>4. Received'
  <2>1. CASE run[i].kind # "capture"
    <3>1. sources' = sources
      BY <1>1, <2>1
    <3>2. QED
      BY <1>2, <1>3, <3>1 DEF ImportInv, Received, ChatGPT!ReceiptsAccount
  <2>2. CASE run[i].kind = "capture"
    <3>1. sources' = sources \cup {new} /\ ChatGPT!Compatible(c, run[i].project)
      BY <1>1, <2>2
    <3>2. ASSUME NEW s \in sources, s.id = c.id PROVE s = new
      BY <1>3, <3>1, <3>2 DEF ChatGPT!Compatible
    <3>3. \A s, t \in sources' : s.id = t.id => s = t
      BY <3>1, <3>2 DEF ImportInv, Received, ChatGPT!ReceiptsAccount
    <3>4. /\ new = [id |-> new.id, version |-> new.version, project |-> new.project]
          /\ \E r \in receipts' :
               r[2] = new.id /\ ChatGPT!Conversation(r[1], r[2]).version = new.version
      <4>1. new.id = c.id /\ new.version = c.version /\ new.project = run[i].project
        OBVIOUS
      <4>2. <<a, c.id>> \in receipts'
        BY <1>1
      <4>3. ChatGPT!Conversation(<<a, c.id>>[1], <<a, c.id>>[2]).version = c.version
        BY <1>1
      <4>4. <<a, c.id>>[2] = c.id
        OBVIOUS
      <4> HIDE DEF new
      <4>5. new = [id |-> new.id, version |-> new.version, project |-> new.project]
        BY <4>1 DEF new
      <4>6. QED
        BY <4>1, <4>2, <4>3, <4>4, <4>5
    <3> HIDE DEF new
    <3>5. QED
      BY <1>2, <1>3, <3>1, <3>3, <3>4 DEF Received, ChatGPT!ReceiptsAccount
  <2>3. QED
    BY <2>1, <2>2
<1>5. QED
  BY <1>4, SkipStep DEF ChatGPT!CommitConversation

(* Every step keeps all of this.                                            *)
LEMMA ImportStep == ImportInv /\ [ChatGPT!Next]_(ChatGPT!vars) => ImportInv'
<1> SUFFICES ASSUME ImportInv, [ChatGPT!Next]_(ChatGPT!vars) PROVE ImportInv'
  BY SMTT(60)
<1>1. CASE UNCHANGED ChatGPT!vars
  BY <1>1 DEF ChatGPT!vars, ImportInv, ImportType, Received, AsSeen, Rows, ChatGPT!Rows,
     AsHashed, AsDecided, ChatGPT!ReceiptsAccount
<1>2. ASSUME NEW i \in Importers, ChatGPT!RefuseConversation(i) \/ ChatGPT!End(i)
      PROVE  ImportInv'
  <2>1. UNCHANGED <<registry, generation, live, zip, sources, receipts>>
    BY <1>2 DEF ChatGPT!RefuseConversation, ChatGPT!End
  <2>2. Received'
    BY <2>1 DEF ImportInv, Received, ChatGPT!ReceiptsAccount
  <2>3. CASE ChatGPT!Stop(i)
    BY <2>1, <2>3, StopStep
  <2>4. CASE run[i].pc = "commit" /\ ChatGPT!Skip(i)
    BY <2>1, <2>2, <2>4, SkipStep
  <2>5. QED
    BY <1>2, <2>3, <2>4 DEF ChatGPT!RefuseConversation, ChatGPT!End
<1>3. ASSUME NEW i \in Importers, ChatGPT!Import(i) PROVE ImportInv'
  BY <1>2, <1>3, PrepareStep, DecideStep, CommitStep DEF ChatGPT!Import
<1>4. QED
  BY <1>1, <1>3, RegistryStep, FilesStep DEF ChatGPT!Next

(* Receipts are of conversations of their own archive, and a stored         *)
(* conversation has one project, one content and a receipt of an archive    *)
(* with that content, whatever imports ran or were stopped.                 *)
(* (adapters/chatgpt.py:660-720)                                            *)
THEOREM ReceiptsAlwaysAccount == Spec => []ReceiptsAccount
<1>1. Init => (focus = "chatgpt" => ImportInv)
  BY ImportInit DEF Init
<1>2. (focus = "chatgpt" => ImportInv) /\ [Next]_vars => (focus = "chatgpt" => ImportInv)'
  BY FocusStays, ImportMoves, ImportStep
<1>3. (focus = "chatgpt" => ImportInv) => ReceiptsAccount
  BY DEF ImportInv, Received, ReceiptsAccount
<1>4. QED
  BY <1>1, <1>2, <1>3, PTL DEF Spec

(* What a commit leaves was decided by the registry of that instant.        *)
LEMMA CommitDecided ==
  ASSUME ImportInv, NEW i \in Importers, ChatGPT!CommitConversation(i)
  PROVE  ChatGPT!DecidedByCurrentRegistry
<1> DEFINE a == run[i].archive
           c == ChatGPT!Item(i)
           m == ChatGPT!Match(Rows, c.mentions)
           new == [id |-> c.id, version |-> c.version, project |-> run[i].project]
           stored == {s \in sources' : s.id = c.id /\ s.version = c.version}
<1>1. /\ ChatGPT!Conversation(a, c.id) = c
      /\ receipts' = receipts \cup {<<a, c.id>>}
      /\ run[i].kind = "capture" => sources' = sources \cup {new}
      /\ run[i].kind # "capture" => sources' = sources
  BY CommitFacts
<1>2. run[i].pc = "commit" /\ ChatGPT!Guarded(i) /\ run[i] \in Runs
  BY DEF ImportInv, ImportType, ChatGPT!CommitConversation
<1>3. run[i].rows = Rows
  BY <1>2, SMTT(60) DEF ImportInv, AsSeen, ChatGPT!Guarded, ChatGPT!Unchanged
<1>4. /\ run[i].kind \in {"empty", "confirm", "capture"}
      /\ run[i].kind = "capture" => run[i].project = m.project /\ m.project # NONE
      /\ run[i].kind = "confirm" => m.project = NONE
      /\ run[i].kind = "empty" => ~ChatGPT!Stated(c)
      /\ ChatGPT!Completed(c) => ~m.blocked
  BY <1>2, <1>3 DEF ImportInv, AsDecided, ChatGPT!Item
<1>5. /\ \A s \in sources' \ sources :
           /\ s \in stored /\ s.project = m.project
           /\ ChatGPT!Current(s.project, registry[s.project].identity)
      /\ stored = {} => ~(ChatGPT!Stated(c) /\ m.project # NONE)
      /\ ChatGPT!Completed(c) => ~m.blocked
  <2>1. CASE run[i].kind = "capture"
    <3>1. ChatGPT!Current(run[i].project, registry[run[i].project].identity)
      BY <1>2, <1>3, <2>1 DEF ChatGPT!Guarded, ChatGPT!WinnersCurrent
    <3>2. new \in stored
      BY <1>1, <2>1
    <3>3. \A s \in sources' \ sources : s = new
      BY <1>1, <2>1
    <3> HIDE DEF m, c, stored
    <3>4. new.project = run[i].project
      OBVIOUS
    <3> HIDE DEF new
    <3>5. QED
      BY <1>4, <2>1, <3>1, <3>2, <3>3, <3>4
  <2>2. CASE run[i].kind # "capture"
    <3> HIDE DEF m, c, stored
    <3>1. QED
      BY <1>1, <1>4, <2>2
  <2>3. QED
    BY <2>1, <2>2
<1> HIDE DEF m, c, stored, a
<1>6. \A r \in receipts' \ receipts : r[1] = a /\ r[2] = c.id
  BY <1>1
<1>7. QED
  BY <1>1, <1>5, <1>6 DEF ChatGPT!DecidedByCurrentRegistry, m, stored, Rows

(* A conversation is stored for the one project that the registry and the   *)
(* directories of the instant of its commit say it is about, and its        *)
(* receipt is written only when it is stored as its archive has it or       *)
(* nothing could be stored, and never while a disabled project may own it.  *)
(* (adapters/chatgpt.py:640-720)                                            *)
THEOREM DecidedByTheRegistry == Spec => DecidedByCurrentRegistry
<1>1. Init => (focus = "chatgpt" => ImportInv)
  BY ImportInit DEF Init
<1>2. (focus = "chatgpt" => ImportInv) /\ [Next]_vars => (focus = "chatgpt" => ImportInv)'
  BY FocusStays, ImportMoves, ImportStep
<1>3. (focus = "chatgpt" => ImportInv) /\ [Next]_vars
        => [focus = "chatgpt" => ChatGPT!DecidedByCurrentRegistry]_vars
  <2> SUFFICES ASSUME ImportInv, [Next]_vars, focus = "chatgpt"
               PROVE  ChatGPT!DecidedByCurrentRegistry
    OBVIOUS
  <2>1. [ChatGPT!Next]_(ChatGPT!vars)
    BY ImportMoves
  <2>2. CASE UNCHANGED receipts
    BY <2>2 DEF ChatGPT!DecidedByCurrentRegistry
  <2>3. ASSUME NEW i \in Importers, ChatGPT!CommitConversation(i)
        PROVE  ChatGPT!DecidedByCurrentRegistry
    BY <2>3, CommitDecided
  <2>4. UNCHANGED receipts \/ \E i \in Importers : ChatGPT!CommitConversation(i)
    BY <2>1 DEF ChatGPT!Next, ChatGPT!vars, ChatGPT!ToggleEnabled, ChatGPT!BindDirectory,
       ChatGPT!ReplaceDirectory, ChatGPT!OverwriteArchive, ChatGPT!Import, ChatGPT!Start,
       ChatGPT!VerifySnapshot, ChatGPT!HashArchive, ChatGPT!ReadArchive, ChatGPT!PassOver,
       ChatGPT!Decide, ChatGPT!RefuseConversation, ChatGPT!End
  <2>5. QED
    BY <2>2, <2>3, <2>4
<1>4. QED
  BY <1>1, <1>2, <1>3, PTL DEF Spec, DecidedByCurrentRegistry

-----------------------------------------------------------------------------
(* Discovery.                                                               *)

(* While the focus is on discovery, it moves alone.                         *)
LEMMA DiscoveryMoves ==
  ASSUME [Next]_vars, focus = "discovery"
  PROVE  [Scan!Next]_(Scan!vars)
<1>1. CASE UNCHANGED vars
  BY <1>1 DEF vars, discoveryVars, Scan!vars
<1>2. CASE Next
  BY <1>2 DEF Next, Scan!Next
<1>3. QED
  BY <1>1, <1>2

Walks == [pc : {"idle", "list", "canonical", "open", "components", "root", "descend", "sync"},
          depth : Nat, fd : Inside \cup {NONE}, marks : BOOLEAN, descends : BOOLEAN,
          canonical : Nat, opened : Seq(Inside), check : Nat]

DiscoveryType ==
  /\ root \in Inside \cup {NONE}
  /\ child \in [Inside \cup {Outside} -> Inside \cup {LinkIn, LinkOut, NONE}]
  /\ scan \in Walks

(* What is open starts at the root as it was opened; a component that was   *)
(* looked at again was there, and so is what is in a directory now.         *)
Opened ==
  /\ scan.pc = "list" \/ scan.pc = "canonical" \/ scan.pc = "descend" => scan.fd \in Inside
  /\ scan.pc \in {"open", "components", "root"} =>
       /\ scan.fd \in Inside /\ Len(scan.opened) > 0 /\ scan.opened[1] = scan.fd
  /\ scan.pc \in {"components", "root"} =>
       /\ Len(scan.opened) = scan.canonical + 1 /\ scan.check \in 0..scan.canonical
       /\ Scan!Places \subseteq placed
       /\ \A n \in (scan.check + 1)..scan.canonical :
            <<scan.opened[n], scan.opened[n + 1]>> \in placed
  /\ scan.pc = "root" => scan.check = 0

DiscoveryInv == DiscoveryType /\ Opened

(* Before the first scan.                                                   *)
LEMMA DiscoveryInit == Scan!Init => DiscoveryInv
<1> SUFFICES ASSUME Scan!Init PROVE DiscoveryInv
  OBVIOUS
<1>1. PICK chain \in [1..MaxDepth + 1 -> Inside] :
        /\ root = chain[1]
        /\ child = [d \in Inside \cup {Outside} |->
             IF \E i \in 1..MaxDepth : chain[i] = d
             THEN chain[(CHOOSE i \in 1..MaxDepth : chain[i] = d) + 1] ELSE NONE]
  BY DEF Scan!Init
<1>2. root \in Inside
  BY <1>1, ScanAssumption
<1>3. child \in [Inside \cup {Outside} -> Inside \cup {LinkIn, LinkOut, NONE}]
  <2>1. ASSUME NEW d \in Inside \cup {Outside}
        PROVE  child[d] \in Inside \cup {NONE}
    <3> DEFINE place == CHOOSE i \in 1..MaxDepth : chain[i] = d
    <3>1. CASE \E i \in 1..MaxDepth : chain[i] = d
      <4>1. place \in 1..MaxDepth
        BY <3>1
      <4>2. place + 1 \in 1..MaxDepth + 1
        BY <4>1, ScanAssumption
      <4>3. child[d] = chain[place + 1]
        BY <1>1, <3>1
      <4>4. QED
        BY <4>2, <4>3
    <3>2. CASE ~ \E i \in 1..MaxDepth : chain[i] = d
      BY <1>1, <3>2
    <3>3. QED
      BY <3>1, <3>2
  <2>2. QED
    BY <1>1, <2>1
<1>4. scan \in Walks /\ scan.pc = "idle"
  <2>1. <<>> \in Seq(Inside)
    OBVIOUS
  <2>2. QED
    BY <2>1 DEF Scan!Init, Scan!Idle, Walks
<1>5. QED
  BY <1>2, <1>3, <1>4 DEF DiscoveryInv, DiscoveryType, Opened

(* A walk that goes on to a step that needs no open file.                   *)
LEMMA GoesOn ==
  ASSUME DiscoveryInv, UNCHANGED <<root, child>>, scan' \in Walks,
         scan'.pc \in {"idle", "list", "canonical", "descend", "sync"},
         scan'.pc \notin {"idle", "sync"} => scan'.fd \in Inside
  PROVE  DiscoveryInv'
BY DEF DiscoveryInv, DiscoveryType, Opened

(* So it is when nothing but the step changes.                              *)
LEMMA GoesTo ==
  ASSUME DiscoveryInv, UNCHANGED <<root, child>>, NEW step,
         step \in {"list", "canonical", "descend", "sync"}, Scan!Goto(step),
         scan.pc \in {"list", "canonical", "open", "components", "root", "descend"}
  PROVE  DiscoveryInv'
<1>1. scan \in Walks /\ scan.fd \in Inside
  BY DEF DiscoveryInv, DiscoveryType, Opened
<1>2. scan' \in Walks /\ scan'.pc = step /\ scan'.fd = scan.fd
  BY <1>1 DEF Scan!Goto, Walks
<1>3. QED
  BY <1>1, <1>2, GoesOn

(* The root is opened, directories are listed, paths are resolved.          *)
LEMMA WalkStep ==
  ASSUME DiscoveryInv,
         \/ Scan!OpenAllowedRoot \/ Scan!ListDirectory \/ Scan!Canonicalise
         \/ Scan!Descend \/ Scan!SyncFindings
  PROVE  DiscoveryInv'
<1>0. scan \in Walks /\ root \in Inside \cup {NONE} /\ UNCHANGED <<root, child>>
  BY DEF DiscoveryInv, DiscoveryType, Scan!OpenAllowedRoot, Scan!ListDirectory,
     Scan!Canonicalise, Scan!Descend, Scan!SyncFindings, Scan!tree
<1>1. CASE Scan!OpenAllowedRoot
  <2>1. scan' \in Walks /\ scan'.pc = "list" /\ scan'.fd \in Inside
    <3>1. root \in Inside /\ <<>> \in Seq(Inside)
      BY <1>0, <1>1 DEF Scan!OpenAllowedRoot
    <3>2. QED
      BY <1>1, <3>1 DEF Scan!OpenAllowedRoot, Scan!Idle, Walks
  <2>2. QED
    BY <1>0, <2>1, GoesOn
<1>2. CASE Scan!ListDirectory
  <2>0. scan.pc = "list" /\ scan.fd \in Inside
    BY <1>2 DEF Scan!ListDirectory, Scan!At, DiscoveryInv, Opened
  <2>1. CASE Scan!Goto("sync")
    BY <1>0, <2>0, <2>1, GoesTo
  <2>2. ASSUME NEW m \in BOOLEAN, NEW d \in BOOLEAN, NEW step \in {"canonical", "descend"},
               scan' = [scan EXCEPT !.marks = m, !.descends = d, !.pc = step]
        PROVE  DiscoveryInv'
    <3>1. scan' \in Walks /\ scan'.pc = step /\ scan'.fd = scan.fd
      BY <1>0, <2>2 DEF Walks
    <3>2. QED
      BY <1>0, <2>0, <3>1, GoesOn
  <2> DEFINE dir == Scan!Reached[scan.depth]
             marks == dir \in Marked
             descends == Scan!Directory(child[dir])
             step == IF marks THEN "canonical" ELSE "descend"
  <2>3. \/ Scan!Goto("sync")
        \/ scan' = [scan EXCEPT !.marks = marks, !.descends = descends, !.pc = step]
    BY <1>2 DEF Scan!ListDirectory
  <2>4. /\ marks \in BOOLEAN /\ descends \in BOOLEAN /\ step \in {"canonical", "descend"}
    BY DEF Scan!Directory
  <2> HIDE DEF marks, descends, step
  <2>5. QED
    BY <2>1, <2>2, <2>3, <2>4
<1>3. CASE Scan!Canonicalise
  <2>0. scan.pc = "canonical" /\ scan.fd \in Inside
    BY <1>3 DEF Scan!Canonicalise, Scan!At, DiscoveryInv, Opened
  <2>1. CASE Scan!Goto("sync")
    BY <1>0, <2>0, <2>1, GoesTo
  <2>2. ASSUME NEW p \in Nat,
               scan' = [scan EXCEPT !.pc = "open", !.canonical = p, !.opened = <<scan.fd>>]
        PROVE  DiscoveryInv'
    <3>1. <<scan.fd>> \in Seq(Inside)
      BY <2>0
    <3>2. /\ scan' \in Walks /\ scan'.pc = "open" /\ scan'.fd = scan.fd
          /\ scan'.opened = <<scan.fd>>
      BY <1>0, <2>2, <3>1 DEF Walks
    <3>3. QED
      BY <1>0, <2>0, <3>2 DEF DiscoveryInv, DiscoveryType, Opened
  <2>3. QED
    <3> DEFINE p == Scan!Resolve[scan.depth]
    <3> HIDE DEF p
    <3>1. \/ Scan!Goto("sync")
          \/ /\ p \in 0..MaxDepth
             /\ scan' = [scan EXCEPT !.pc = "open", !.canonical = p, !.opened = <<scan.fd>>]
      BY <1>3 DEF Scan!Canonicalise, p
    <3>2. p \in 0..MaxDepth => p \in Nat
      BY ScanAssumption
    <3>3. QED
      BY <2>1, <2>2, <3>1, <3>2
<1>4. CASE Scan!Descend
  <2>0. scan.pc = "descend" /\ scan.fd \in Inside
    BY <1>4 DEF Scan!Descend, Scan!At, DiscoveryInv, Opened
  <2>1. CASE Scan!Goto("sync")
    BY <1>0, <2>0, <2>1, GoesTo
  <2>2. CASE scan' = [scan EXCEPT !.pc = "list", !.depth = @ + 1]
    <3> DEFINE deeper == scan.depth + 1
    <3>0. deeper \in Nat /\ scan' = [scan EXCEPT !.pc = "list", !.depth = deeper]
      BY <1>0, <2>2 DEF Walks
    <3> HIDE DEF deeper
    <3>1. scan' \in Walks /\ scan'.pc = "list" /\ scan'.fd = scan.fd
      BY <1>0, <3>0 DEF Walks
    <3>2. QED
      BY <1>0, <2>0, <3>1, GoesOn
  <2>3. QED
    BY <1>4, <2>1, <2>2 DEF Scan!Descend
<1>5. CASE Scan!SyncFindings
  <2>1. <<>> \in Seq(Inside)
    OBVIOUS
  <2>2. scan' \in Walks /\ scan'.pc = "idle"
    BY <1>5, <2>1 DEF Scan!SyncFindings, Scan!Idle, Walks
  <2>3. QED
    BY <1>0, <2>2, GoesOn
<1>6. QED
  BY <1>1, <1>2, <1>3, <1>4, <1>5

(* A component is opened in the one above it; at the end the file is read.  *)
LEMMA OpenStep ==
  ASSUME DiscoveryInv, Scan!OpenMetadata
  PROVE  DiscoveryInv'
<1>0. /\ scan \in Walks /\ scan.pc = "open" /\ UNCHANGED <<root, child>>
      /\ scan.fd \in Inside /\ scan.opened[1] = scan.fd
      /\ child \in [Inside \cup {Outside} -> Inside \cup {LinkIn, LinkOut, NONE}]
      /\ scan.opened \in Seq(Inside) /\ scan.canonical \in Nat /\ Len(scan.opened) \in Nat \ {0}
  BY DEF DiscoveryInv, DiscoveryType, Opened, Scan!OpenMetadata, Scan!At, Scan!tree, Walks
<1>1. CASE Scan!Without
  BY <1>0, <1>1, GoesTo DEF Scan!Without
<1>2. CASE /\ Len(scan.opened) = scan.canonical + 1 /\ placed' = Scan!Places
           /\ scan' = [scan EXCEPT !.pc = "components", !.check = scan.canonical]
  <2>1. /\ scan' \in Walks /\ scan'.pc = "components" /\ scan'.fd = scan.fd
        /\ scan'.opened = scan.opened /\ scan'.canonical = scan.canonical
        /\ scan'.check = scan.canonical
    BY <1>0, <1>2 DEF Walks
  <2>2. Scan!Places' = Scan!Places
    BY <1>0 DEF Scan!Places
  <2>3. QED
    BY <1>0, <1>2, <2>1, <2>2 DEF DiscoveryInv, DiscoveryType, Opened
<1>3. ASSUME NEW d \in Inside, scan' = [scan EXCEPT !.opened = Append(@, d)]
      PROVE  DiscoveryInv'
  <2>1. /\ Append(scan.opened, d) \in Seq(Inside) /\ Append(scan.opened, d)[1] = scan.fd
        /\ Len(Append(scan.opened, d)) > 0
    BY <1>0
  <2>2. /\ scan' \in Walks /\ scan'.pc = "open" /\ scan'.fd = scan.fd
        /\ scan'.opened = Append(scan.opened, d)
    BY <1>0, <1>3, <2>1 DEF Walks
  <2>3. QED
    BY <1>0, <2>1, <2>2 DEF DiscoveryInv, DiscoveryType, Opened
<1>4. CASE Len(scan.opened) = scan.canonical + 1
  BY <1>1, <1>2, <1>4 DEF Scan!OpenMetadata
<1>5. CASE Len(scan.opened) # scan.canonical + 1
  <2> DEFINE last == scan.opened[Len(scan.opened)]
             next == Scan!OpenComponent(child[last])
  <2>1. \/ Scan!Without
        \/ next # NONE /\ scan' = [scan EXCEPT !.opened = Append(@, next)]
    BY <1>5 DEF Scan!OpenMetadata
  <2>2. next # NONE => next \in Inside
    <3>1. last \in Inside
      BY <1>0
    <3>2. child[last] \in Inside \cup {LinkIn, LinkOut, NONE}
      BY <1>0, <3>1
    <3>3. QED
      BY <3>2, ScanAssumption DEF Scan!OpenComponent, Scan!Directory
  <2>3. QED
    BY <1>1, <1>3, <2>1, <2>2
<1>6. QED
  BY <1>4, <1>5

(* A component is looked at again, in the directory above it.               *)
LEMMA ComponentStep ==
  ASSUME DiscoveryInv, Scan!CheckComponents
  PROVE  DiscoveryInv'
<1>0. /\ scan \in Walks /\ scan.pc = "components" /\ UNCHANGED <<root, child, placed>>
      /\ scan.fd \in Inside /\ scan.opened[1] = scan.fd
      /\ scan.opened \in Seq(Inside) /\ scan.canonical \in Nat /\ scan.check \in Nat
      /\ Len(scan.opened) = scan.canonical + 1 /\ scan.check \in 0..scan.canonical
      /\ Scan!Places \subseteq placed /\ Scan!Places' = Scan!Places
      /\ \A n \in (scan.check + 1)..scan.canonical :
           <<scan.opened[n], scan.opened[n + 1]>> \in placed
  BY DEF DiscoveryInv, DiscoveryType, Opened, Scan!CheckComponents, Scan!At, Scan!tree, Walks,
     Scan!Places
<1>1. CASE Scan!Without
  BY <1>0, <1>1, GoesTo DEF Scan!Without
<1>2. CASE scan.check = 0 /\ Scan!Goto("root")
  <2>1. /\ scan' \in Walks /\ scan'.pc = "root" /\ scan'.fd = scan.fd
        /\ scan'.opened = scan.opened /\ scan'.canonical = scan.canonical
        /\ scan'.check = scan.check
    BY <1>0, <1>2 DEF Walks, Scan!Goto
  <2>2. QED
    BY <1>0, <1>2, <2>1 DEF DiscoveryInv, DiscoveryType, Opened
<1>3. CASE /\ scan.check # 0 /\ Scan!ComponentMatches(scan.check)
           /\ scan' = [scan EXCEPT !.check = @ - 1]
  <2>1. scan.check - 1 \in Nat /\ scan.check \in 1..scan.canonical
    BY <1>0, <1>3
  <2>2. /\ scan' \in Walks /\ scan'.pc = "components" /\ scan'.fd = scan.fd
        /\ scan'.opened = scan.opened /\ scan'.canonical = scan.canonical
        /\ scan'.check = scan.check - 1
    BY <1>0, <1>3, <2>1 DEF Walks
  <2>3. <<scan.opened[scan.check], scan.opened[scan.check + 1]>> \in placed
    <3>1. scan.opened[scan.check] \in Inside
      BY <1>0, <2>1
    <3>2. <<scan.opened[scan.check], child[scan.opened[scan.check]]>> \in Scan!Places
      BY <3>1 DEF Scan!Places
    <3>3. QED
      BY <1>0, <1>3, <3>2 DEF Scan!ComponentMatches
  <2>4. \A n \in (scan'.check + 1)..scan.canonical :
          <<scan.opened[n], scan.opened[n + 1]>> \in placed
    <3>1. ASSUME NEW n \in scan.check..scan.canonical
          PROVE  n = scan.check \/ n \in (scan.check + 1)..scan.canonical
      BY <1>0
    <3>2. scan'.check + 1 = scan.check
      BY <1>0, <2>2
    <3>3. QED
      BY <1>0, <2>3, <3>1, <3>2
  <2>5. scan'.check \in 0..scan.canonical
    BY <1>0, <2>1, <2>2
  <2>6. QED
    BY <1>0, <2>2, <2>4, <2>5 DEF DiscoveryInv, DiscoveryType, Opened
<1>4. QED
  BY <1>1, <1>2, <1>3 DEF Scan!CheckComponents

(* Another program moves a directory, or makes a link.                      *)
LEMMA ChangeStep ==
  ASSUME DiscoveryInv, Scan!Change
  PROVE  DiscoveryInv'
<1>0. /\ root \in Inside \cup {NONE} /\ UNCHANGED scan
      /\ child \in [Inside \cup {Outside} -> Inside \cup {LinkIn, LinkOut, NONE}]
      /\ placed' = placed \cup Scan!Places'
  BY DEF DiscoveryInv, DiscoveryType, Scan!Change
<1>1. /\ root' \in Inside \cup {NONE}
      /\ child' \in [Inside \cup {Outside} -> Inside \cup {LinkIn, LinkOut, NONE}]
  <2>1. CASE \E d \in Scan!Free \cup {NONE} : d # root /\ root' = d /\ UNCHANGED child
    BY <1>0, <2>1 DEF Scan!Free
  <2>2. CASE \E d \in Inside, e \in Scan!Free \cup {LinkIn, LinkOut, NONE} :
               d # e /\ child[d] # e /\ child' = [child EXCEPT ![d] = e] /\ UNCHANGED root
    <3>1. PICK d \in Inside, e \in Inside \cup {LinkIn, LinkOut, NONE} :
            child' = [child EXCEPT ![d] = e] /\ UNCHANGED root
      BY <2>2 DEF Scan!Free
    <3>2. QED
      BY <1>0, <3>1
  <2>3. QED
    BY <2>1, <2>2 DEF Scan!Change
<1>2. QED
  BY <1>0, <1>1 DEF DiscoveryInv, DiscoveryType, Opened

(* Every step keeps all of this.                                            *)
LEMMA DiscoveryStep == DiscoveryInv /\ [Scan!Next]_(Scan!vars) => DiscoveryInv'
<1> SUFFICES ASSUME DiscoveryInv, [Scan!Next]_(Scan!vars) PROVE DiscoveryInv'
  OBVIOUS
<1>1. CASE UNCHANGED Scan!vars
  BY <1>1 DEF Scan!vars, DiscoveryInv, DiscoveryType, Opened, Scan!Places
<1>2. CASE Scan!CheckRoot
  <2>1. /\ UNCHANGED <<root, child>> /\ Scan!Goto("descend") /\ scan.pc = "root"
    BY <1>2 DEF Scan!CheckRoot, Scan!Without, Scan!tree, Scan!At
  <2>2. QED
    BY <2>1, GoesTo
<1>3. QED
  BY <1>1, <1>2, WalkStep, OpenStep, ComponentStep, ChangeStep DEF Scan!Next

(* A fingerprint is taken of what is at its path.                           *)
LEMMA TakenAtItsPath ==
  ASSUME DiscoveryInv, Scan!CheckRoot, NEW c \in candidates' \ candidates,
         c.fingerprint # NONE
  PROVE  \E way \in [0..c.path -> Inside] :
           /\ way[0] = root /\ way[c.path] = c.fingerprint
           /\ \A n \in 1..c.path : <<way[n - 1], way[n]>> \in placed
<1>0. /\ scan \in Walks /\ scan.pc = "root"
      /\ scan.opened \in Seq(Inside) /\ scan.canonical \in Nat
      /\ scan.opened[1] = scan.fd /\ Len(scan.opened) = scan.canonical + 1
      /\ scan.check = 0
      /\ \A n \in (scan.check + 1)..scan.canonical :
           <<scan.opened[n], scan.opened[n + 1]>> \in placed
  BY DEF DiscoveryInv, DiscoveryType, Opened, Walks, Scan!CheckRoot, Scan!At
<1>1. root = scan.fd /\ c.path = scan.canonical
      /\ c.fingerprint = scan.opened[Len(scan.opened)]
  <2>1. CASE Scan!RootMatches(scan.fd)
    BY <2>1 DEF Scan!CheckRoot, Scan!AddCandidate, Scan!RootMatches
  <2>2. CASE ~Scan!RootMatches(scan.fd)
    BY <2>2 DEF Scan!CheckRoot, Scan!AddCandidate, Scan!Without
  <2>3. QED
    BY <2>1, <2>2
<1> DEFINE way == [n \in 0..scan.canonical |-> scan.opened[n + 1]]
<1>2. way \in [0..c.path -> Inside]
  BY <1>0, <1>1
<1>3. way[0] = root /\ way[c.path] = c.fingerprint
  BY <1>0, <1>1
<1>4. ASSUME NEW n \in 1..c.path PROVE <<way[n - 1], way[n]>> \in placed
  <2>1. n - 1 \in 0..scan.canonical /\ n \in 0..scan.canonical /\ (n - 1) + 1 = n
    BY <1>0, <1>1
  <2>2. way[n - 1] = scan.opened[n] /\ way[n] = scan.opened[n + 1]
    BY <2>1
  <2>3. n \in (scan.check + 1)..scan.canonical
    BY <1>0, <1>1
  <2>4. QED
    BY <1>0, <2>2, <2>3
<1>5. QED
  BY <1>2, <1>3, <1>4

(* A fingerprint is of a directory that is at the candidate's path in the   *)
(* root that is there when the candidate is taken: since its file was read, *)
(* every directory on the path was found in the one above it, and none was  *)
(* reached through a link. (discovery/fingerprint.py:133-252)               *)
THEOREM FingerprintsAreOfTheirPath == Spec => FingerprintOfItsPath
<1>1. Init => (focus = "discovery" => DiscoveryInv)
  BY DiscoveryInit DEF Init
<1>2. (focus = "discovery" => DiscoveryInv) /\ [Next]_vars
        => (focus = "discovery" => DiscoveryInv)'
  BY FocusStays, DiscoveryMoves, DiscoveryStep
<1>3. (focus = "discovery" => DiscoveryInv) /\ [Next]_vars
        => [focus = "discovery" => Scan!FingerprintOfItsPath]_vars
  <2> SUFFICES ASSUME DiscoveryInv, [Next]_vars, focus = "discovery",
                      NEW c \in candidates' \ candidates, c.fingerprint # NONE
               PROVE  \E way \in [0..c.path -> Inside] :
                        /\ way[0] = root /\ way[c.path] = c.fingerprint
                        /\ \A n \in 1..c.path : <<way[n - 1], way[n]>> \in placed
    BY DEF Scan!FingerprintOfItsPath
  <2>1. [Scan!Next]_(Scan!vars)
    BY DiscoveryMoves
  <2>2. CASE Scan!CheckRoot
    BY <2>2, TakenAtItsPath
  <2>3. CASE Scan!Without
    BY <2>3 DEF Scan!Without, Scan!AddCandidate
  <2>4. candidates' \ candidates = {} \/ Scan!CheckRoot \/ Scan!Without
    BY <2>1 DEF Scan!Next, Scan!vars, Scan!OpenAllowedRoot, Scan!ListDirectory,
       Scan!Canonicalise, Scan!OpenMetadata, Scan!CheckComponents, Scan!Descend,
       Scan!SyncFindings, Scan!Change
  <2>5. QED
    BY <2>2, <2>3, <2>4
<1>4. QED
  BY <1>1, <1>2, <1>3, PTL DEF Spec, FingerprintOfItsPath

-----------------------------------------------------------------------------
(* The probes.                                                              *)

(* While the focus is on the probes, they move alone.                       *)
LEMMA ProbesMove ==
  ASSUME [Next]_vars, focus = "probes"
  PROVE  [Probe!Next]_(Probe!vars)
<1>1. CASE UNCHANGED vars
  BY <1>1 DEF vars, probesVars, Probe!vars, Probe!threads
<1>2. CASE Next
  BY <1>2 DEF Next, Probe!Next
<1>3. QED
  BY <1>1, <1>2

(* A request holds the lock or lets go of it, in one way at a time.         *)
Holding == {<<"reserved", "idle", "idle">>, <<"running", "probing", "idle">>,
            <<"closed", "releasing", "idle">>, <<"closed", "idle", "releasing">>}
LeaseStates == {"closed", "reserved", "running"}
RunnerStates == {"idle", "probing", "releasing"}

LeaseType ==
  /\ lock \in BOOLEAN /\ lease \in [Requests -> LeaseStates]
  /\ runner \in [Requests -> RunnerStates] /\ closer \in [Requests -> RunnerStates]

Holds(r) == <<lease[r], runner[r], closer[r]>> \in Holding
Rests(r) == <<lease[r], runner[r], closer[r]>> = <<"closed", "idle", "idle">>

(* The lock is held by one request, and only while it is taken.             *)
LeaseInv ==
  /\ LeaseType
  /\ \A r \in Requests : Holds(r) \/ Rests(r)
  /\ \A r \in Requests : Holds(r) => lock
  /\ lock => \E r \in Requests : Holds(r)
  /\ \A r, s \in Requests : Holds(r) /\ Holds(s) => r = s

(* Nobody has asked yet.                                                    *)
LEMMA LeaseInit == Probe!Init => LeaseInv
BY ZenonT(60) DEF Probe!Init, LeaseInv, LeaseType, Holds, Rests, Holding, LeaseStates, RunnerStates

(* A request that holds the lock goes on holding it.                        *)
LEMMA GoesOnHolding ==
  ASSUME LeaseInv, NEW r \in Requests, Holds(r), LeaseType', Holds(r)', UNCHANGED lock,
         \A s \in Requests \ {r} :
           lease'[s] = lease[s] /\ runner'[s] = runner[s] /\ closer'[s] = closer[s]
  PROVE  LeaseInv'
<1>1. \A s \in Requests \ {r} : (Holds(s)' <=> Holds(s)) /\ (Rests(s)' <=> Rests(s))
  BY DEF Holds, Rests
<1>2. QED
  BY <1>1 DEF LeaseInv

(* A request takes its lease, runs under it, closes it and lets the lock go.*)
LEMMA LeaseStep ==
  ASSUME LeaseInv, NEW r \in Requests, Probe!Lease(r)
  PROVE  LeaseInv'
<1>0. LeaseType /\ (Holds(r) \/ Rests(r))
  BY DEF LeaseInv
<1>1. CASE Probe!ReserveStructure(r)
  <2>1. /\ lock' /\ LeaseType' /\ ~lock /\ Holds(r)'
        /\ \A s \in Requests \ {r} :
             lease'[s] = lease[s] /\ runner'[s] = runner[s] /\ closer'[s] = closer[s]
    BY <1>0, <1>1
       DEF Probe!ReserveStructure, LeaseType, LeaseStates, Holds, Holding
  <2>2. \A s \in Requests \ {r} : (Holds(s)' <=> Holds(s)) /\ (Rests(s)' <=> Rests(s))
    BY <2>1 DEF Holds, Rests
  <2>3. QED
    BY <2>1, <2>2 DEF LeaseInv
<1>2. CASE Probe!Run(r) \/ Probe!FinishRun(r) \/ Probe!Close(r)
  <2>1. Holds(r)
    BY <1>0, <1>2
       DEF Probe!Run, Probe!FinishRun, Probe!Close, Probe!MayClose, Rests
  <2>2. /\ LeaseType' /\ Holds(r)' /\ UNCHANGED lock
        /\ \A s \in Requests \ {r} :
             lease'[s] = lease[s] /\ runner'[s] = runner[s] /\ closer'[s] = closer[s]
    BY <1>0, <1>2, <2>1
       DEF Probe!Run, Probe!FinishRun, Probe!Close, Probe!MayClose, LeaseType, LeaseStates,
           RunnerStates, Holds, Holding
  <2>3. QED
    BY <2>1, <2>2, GoesOnHolding
<1>3. CASE Probe!Release(r)
  <2>1. Holds(r)
    BY <1>0, <1>3 DEF Probe!Release, Rests
  <2>2. /\ LeaseType' /\ Rests(r)' /\ ~Holds(r)' /\ ~lock'
        /\ \A s \in Requests \ {r} :
             lease'[s] = lease[s] /\ runner'[s] = runner[s] /\ closer'[s] = closer[s]
    BY <1>0, <1>3, <2>1
       DEF Probe!Release, LeaseType, LeaseStates, RunnerStates, Holds, Holding, Rests
  <2>3. \A s \in Requests \ {r} : (Holds(s)' <=> Holds(s)) /\ (Rests(s)' <=> Rests(s))
    BY <2>2 DEF Holds, Rests
  <2>4. \A s \in Requests \ {r} : ~Holds(s)
    BY <2>1 DEF LeaseInv
  <2>5. QED
    BY <2>2, <2>3, <2>4 DEF LeaseInv
<1>4. QED
  BY <1>1, <1>2, <1>3 DEF Probe!Lease

(* Every step keeps all of this.                                            *)
LEMMA LeasesKept == LeaseInv /\ [Probe!Next]_(Probe!vars) => LeaseInv'
<1> SUFFICES ASSUME LeaseInv, [Probe!Next]_(Probe!vars) PROVE LeaseInv'
  OBVIOUS
<1>1. CASE UNCHANGED <<lock, lease, runner, closer>>
  BY <1>1 DEF LeaseInv, LeaseType, Holds, Rests
<1>2. CASE \E r \in Requests : Probe!Lease(r)
  BY <1>2, LeaseStep
<1>3. CASE Probe!Inspect
  BY <1>1, <1>3, ZenonT(60) DEF Probe!Inspect, Probe!InspectLight, Probe!OpenRoot, Probe!ListEntry,
     Probe!EnterDirectory, Probe!Listed, Probe!ReadHeader, Probe!HeadersRead,
     Probe!InspectCandidate, Probe!ReadSchema, Probe!ExecuteReviewedCount,
     Probe!VerifyOpenCandidate, Probe!AggregateDatabase, Probe!Inspected, Probe!Advance,
     Probe!threads
<1>4. CASE \/ Probe!Expire \/ Probe!ReplaceDirectory
           \/ \E f \in Files : Probe!WriteLog(f) \/ Probe!Checkpoint(f) \/ Probe!Replace(f)
  BY <1>1, <1>4 DEF Probe!Expire, Probe!ReplaceDirectory, Probe!WriteLog, Probe!Checkpoint,
     Probe!Replace, Probe!Changing, Probe!threads
<1>5. QED
  BY <1>1, <1>2, <1>3, <1>4 DEF Probe!Next, Probe!vars, Probe!threads

(* At most one structure probe is reserved or runs, however requests are    *)
(* cancelled and leases closed, and the lock is held for it and only then.  *)
(* (probes/service.py)                                                      *)
THEOREM OneProbeAtATime == Spec => [](focus = "probes" => Probe!OneStructureProbe)
<1>1. Init => (focus = "probes" => LeaseInv)
  BY LeaseInit DEF Init
<1>2. (focus = "probes" => LeaseInv) /\ [Next]_vars => (focus = "probes" => LeaseInv)'
  BY FocusStays, ProbesMove, LeasesKept
<1>3. LeaseInv => Probe!OneStructureProbe
  <2> SUFFICES ASSUME LeaseInv PROVE Probe!OneStructureProbe
    OBVIOUS
  <2> DEFINE held == {r \in Requests : \/ lease[r] = "reserved" \/ runner[r] # "idle"
                                       \/ closer[r] # "idle"}
  <2>1. \A r \in Requests : r \in held <=> Holds(r)
    BY DEF LeaseInv, Holds, Rests, Holding
  <2>2. CASE lock
    <3>1. PICK r \in Requests : Holds(r)
      BY <2>2 DEF LeaseInv
    <3>2. held = {r}
      BY <2>1, <3>1 DEF LeaseInv
    <3>3. QED
      BY <2>2, <3>2 DEF Probe!OneStructureProbe
  <2>3. CASE ~lock
    <3>1. held = {}
      BY <2>1, <2>3 DEF LeaseInv
    <3>2. QED
      BY <2>3, <3>1 DEF Probe!OneStructureProbe
  <2>4. QED
    BY <2>2, <2>3
<1>4. QED
  BY <1>1, <1>2, <1>3, PTL DEF Spec

-----------------------------------------------------------------------------
(* Sums.                                                                   *)

(* The elements are added in the order in which CHOOSE gives them.         *)
Adding(p, a, x) == x + a
AnyOf(T) == CHOOSE x \in T : TRUE

(* Of a fold, with a parameter q, nothing need be said.                    *)
Always(q, s, a) == TRUE

Sum == INSTANCE FoldTheorems WITH Op <- Adding, Pick <- AnyOf, Inv <- Always

(* CHOOSE takes an element of a set.                                       *)
LEMMA AnyPicks ==
  ASSUME NEW S
  PROVE  Sum!Picks(S)
BY DEF Sum!Picks, AnyOf

(* A finite set is one there too.                                          *)
LEMMA SumFinite ==
  ASSUME NEW S, IsFiniteSet(S)
  PROVE  Sum!IsFiniteSet(S)
BY DEF IsFiniteSet, Sum!IsFiniteSet

(* The sum of a function is a fold of its values.                          *)
LEMMA SumIsFold ==
  ASSUME NEW S, NEW f \in [S -> Int]
  PROVE  SumFunction(f) = Sum!FoldOf(0, 0, f, S)
<1>1. DOMAIN f = S
  OBVIOUS
<1>2. SumFunction(f) = SumFunctionOnSet(f, S)
  BY <1>1 DEF SumFunction
<1>3. SumFunctionOnSet(f, S) = Sum!FoldOf(0, 0, f, S)
  BY DEF SumFunctionOnSet, FoldFunctionOnSet, MapThenFoldSet, Sum!FoldOf, Sum!MapThenFoldSet,
         Adding, AnyOf
<1>4. QED
  BY <1>2, <1>3

(* A sum is a number, and that of nothing is nothing.                      *)
LEMMA SumType ==
  ASSUME NEW S, IsFiniteSet(S), NEW f \in [S -> Int]
  PROVE  SumFunction(f) \in Int /\ (S = {} => SumFunction(f) = 0)
<1>1. Sum!FoldOf(0, 0, f, {}) = 0
  BY Sum!FoldNothing
<1>2. Sum!Commutes(0, 0, f, S, Int)
  BY DEF Sum!Commutes, Adding
<1>3. Sum!Picks(S) /\ Sum!IsFiniteSet(S)
  BY AnyPicks, SumFinite
<1>4. Sum!FoldOf(0, 0, f, S) \in Int
  BY <1>2, <1>3, Sum!FoldTake
<1>5. SumFunction(f) = Sum!FoldOf(0, 0, f, S)
  BY SumIsFold
<1>6. QED
  BY <1>1, <1>4, <1>5

(* A sum is any one of its parts and the sum of the others.                *)
LEMMA SumTake ==
  ASSUME NEW S, IsFiniteSet(S), NEW f \in [S -> Int], NEW x \in S
  PROVE  SumFunction(f) = f[x] + SumFunction([y \in S \ {x} |-> f[y]])
<1> DEFINE k == [y \in S \ {x} |-> f[y]]
           T == S \ {x}
<1>1. T \in SUBSET S /\ IsFiniteSet(T) /\ k \in [T -> Int] /\ \A y \in T : f[y] = k[y]
  BY FS_Subset
<1> HIDE DEF k
<1>2. Sum!Commutes(0, 0, f, S, Int)
  BY DEF Sum!Commutes, Adding
<1>3. /\ Sum!Picks(S) /\ Sum!Picks(T)
      /\ Sum!IsFiniteSet(S) /\ Sum!IsFiniteSet(T)
  BY <1>1, AnyPicks, SumFinite
<1>4. \A y \in S : Sum!FoldOf(0, 0, f, S) = Adding(0, Sum!FoldOf(0, 0, f, S \ {y}), f[y])
  BY <1>2, <1>3, Sum!FoldTake
<1> HIDE DEF T
<1>5. Sum!FoldOf(0, 0, f, T) = Sum!FoldOf(0, 0, k, T)
  BY <1>1, <1>3, Sum!FoldSame
<1>6. SumFunction(k) = Sum!FoldOf(0, 0, k, T) /\ SumFunction(f) = Sum!FoldOf(0, 0, f, S)
  BY <1>1, SumIsFold
<1>7. QED
  BY <1>4, <1>5, <1>6 DEF k, T, Adding

-----------------------------------------------------------------------------
(* What an inspection counts.                                               *)
Entries == [kind : Probe!Kinds, version : Nat, count : Counts, log : Counts \cup {NONE}]
Listings == UNION {[S -> Entries] : S \in SUBSET Files}
Results == [warnings : SUBSET {"budget", "unsupported", "changed"}, recognized : BOOLEAN,
            count : Counts \cup {NONE}]
Inspections ==
  [pc : {"light", "root", "walk", "enter", "headers", "databases", "schema", "count",
         "recheck", "aggregate", "done"},
   todo : SUBSET (Files \cup {"directory"}), preview : Nat \cup {NONE}, seen : Listings,
   headers : SUBSET Files, databases : SUBSET Files, inspected : Nat,
   current : Files \cup {NONE}, result : Results \cup {NONE},
   warnings : SUBSET {"rejected", "changed", "unsupported", "budget", "timeout"},
   recognized : BOOLEAN, count : Int \cup {NONE}, blocked : BOOLEAN]

ProbeType ==
  /\ file \in [Files -> Entries] /\ directory \in Nat
  /\ probe \in Inspections
  /\ IsFiniteSet(DOMAIN probe.seen)

(* A file of the version that was listed is as it was listed, but for its   *)
(* log: versions only grow.                                                 *)
AsListed(f) ==
  LET old == probe.seen[f] IN
  /\ old.version <= file[f].version
  /\ old.version = file[f].version => old.kind = file[f].kind /\ old.count = file[f].count

(* What was counted of the candidates.                                      *)
Counted == DOMAIN probe.seen \ (probe.headers \cup probe.databases \cup {probe.current})
Total == SumFunction([f \in Counted |-> probe.seen[f].count])

(* Without a warning all were counted but those still to be looked at, all  *)
(* of them reviewed.                                                        *)
Exact ==
  /\ probe.headers \cup probe.databases \subseteq DOMAIN probe.seen
  /\ probe.pc \in {"light", "root", "walk", "enter"} =>
       DOMAIN probe.seen = probe.headers /\ probe.count = NONE
  /\ probe.warnings = {} =>
       /\ ~probe.blocked
       /\ IF Counted = {} THEN ~probe.recognized /\ probe.count = NONE
          ELSE probe.recognized /\ probe.count = Total
       /\ \A f \in Counted : probe.seen[f].kind = "reviewed"
       /\ probe.pc = "done" => probe.headers \cup probe.databases = {}
  /\ probe.headers \cap probe.databases = {}
  /\ probe.pc = "databases" => probe.headers = {}

(* The database that is being read, and what is known of it.                *)
Reading ==
  LET f == probe.current
      r == probe.result
      same == probe.seen[f].version = file[f].version
  IN
  /\ probe.pc \in {"schema", "count", "recheck", "aggregate"} =>
       /\ f \in DOMAIN probe.seen \ (probe.headers \cup probe.databases)
       /\ probe.headers = {} /\ r \in Results
       /\ probe.pc = "schema" => r = [warnings |-> {}, recognized |-> FALSE, count |-> NONE]
       /\ probe.pc = "count" =>
            /\ r.warnings = {} /\ r.recognized
            /\ same => probe.seen[f].kind = "reviewed"
       /\ probe.pc = "recheck" /\ r.warnings = {} =>
            /\ r.recognized
            /\ r.count \in Counts
            /\ same => probe.seen[f].kind = "reviewed" /\ r.count = probe.seen[f].count
       /\ probe.pc = "aggregate" /\ r.warnings = {} =>
            /\ r.recognized
            /\ probe.seen[f].kind = "reviewed" /\ r.count = probe.seen[f].count
  /\ probe.pc \notin {"schema", "count", "recheck", "aggregate"} =>
       \/ f = NONE
       \/ probe.pc = "done" /\ probe.warnings # {}

ProbeInv ==
  /\ ProbeType /\ Exact /\ Reading
  /\ \A f \in DOMAIN probe.seen : AsListed(f)

(* A listing is of some of the files.                                       *)
LEMMA ListingFacts ==
  /\ \A l \in Listings : DOMAIN l \subseteq Files /\ \A f \in DOMAIN l : l[f] \in Entries
  /\ \A S \in SUBSET Files : [S -> Entries] \subseteq Listings
<1>1. ASSUME NEW l \in Listings
      PROVE  DOMAIN l \subseteq Files /\ \A f \in DOMAIN l : l[f] \in Entries
  <2>1. PICK S \in SUBSET Files : l \in [S -> Entries]
    BY DEF Listings
  <2>2. QED
    BY <2>1
<1>2. QED
  BY <1>1 DEF Listings

(* A probe starts with nothing listed, and ends so.                         *)
LEMMA Fresh ==
  /\ file \in [Files -> Entries] /\ directory \in Nat
  /\ probe = Probe!Start \/ probe = Probe!Resting
  => ProbeInv
<1> SUFFICES ASSUME file \in [Files -> Entries], directory \in Nat,
                    probe = Probe!Start \/ probe = Probe!Resting
             PROVE  ProbeInv
  OBVIOUS
<1> DEFINE none == [f \in {} |-> NONE]
<1>1. none \in [{} -> Entries] /\ {} \in SUBSET Files /\ DOMAIN none = {}
  OBVIOUS
<1>2. none \in Listings
  BY <1>1, ListingFacts
<1>3. /\ probe.seen = none /\ probe.headers = {} /\ probe.databases = {}
      /\ probe.current = NONE /\ probe.result = NONE /\ probe.warnings = {}
      /\ probe.recognized = FALSE /\ probe.count = NONE /\ probe.blocked = FALSE
      /\ probe.pc \in {"light", "done"}
  BY DEF Probe!Start, Probe!Resting
<1>4. probe \in Inspections
  <2> DEFINE new(pc) == [pc |-> pc, todo |-> (Files \ Nested) \cup {"directory"},
                         preview |-> NONE, seen |-> none, headers |-> {}, databases |-> {},
                         inspected |-> 0, current |-> NONE, result |-> NONE,
                         warnings |-> {}, recognized |-> FALSE, count |-> NONE,
                         blocked |-> FALSE]
  <2>1. probe = new("light") \/ probe = new("done")
    BY DEF Probe!Start, Probe!Resting
  <2> HIDE DEF none
  <2>2. new("light") \in Inspections /\ new("done") \in Inspections
    BY <1>2 DEF Inspections
  <2>3. QED
    BY <2>1, <2>2
<1>5. IsFiniteSet(DOMAIN probe.seen)
  BY <1>1, <1>3, FS_EmptySet
<1> HIDE DEF none
<1>6. Counted = {}
  BY <1>1, <1>3 DEF Counted
<1>7. QED
  BY <1>1, <1>3, <1>4, <1>5, <1>6 DEF ProbeInv, ProbeType, Exact, Reading

(* The same of the state after a step.                                      *)
LEMMA FreshNext ==
  /\ file' \in [Files -> Entries] /\ directory' \in Nat
  /\ probe' = Probe!Start \/ probe' = Probe!Resting
  => ProbeInv'
<1>1. (/\ file \in [Files -> Entries] /\ directory \in Nat
       /\ probe = Probe!Start \/ probe = Probe!Resting
       => ProbeInv)'
  BY Fresh, PTL
<1>2. QED
  BY <1>1 DEF Probe!Start, Probe!Resting

(* A probe past its deadline ends with a warning.                           *)
LEMMA TimeOut ==
  ASSUME ProbeInv, probe' = Probe!TimedOut(probe), UNCHANGED <<file, directory>>
  PROVE  ProbeInv'
<1>1. /\ probe'.seen = probe.seen /\ probe'.headers = probe.headers
      /\ probe'.databases = probe.databases /\ probe'.current = probe.current
      /\ probe'.pc = "done" /\ probe'.warnings # {} /\ probe' \in Inspections
  BY DEF ProbeInv, ProbeType, Inspections, Probe!TimedOut
<1>2. QED
  BY <1>1 DEF ProbeInv, ProbeType, Exact, Reading, AsListed

(* What was listed stays as it was listed when nothing on the disk changes. *)
LEMMA StillListed ==
  ASSUME ProbeInv, UNCHANGED <<file, directory>>, probe'.seen = probe.seen
  PROVE  \A f \in DOMAIN probe'.seen : AsListed(f)'
BY DEF ProbeInv, AsListed

(* The steps that only go on, or warn.                                      *)
LEMMA ProceedsStep ==
  ASSUME ProbeInv, UNCHANGED <<file, directory>>, probe' \in Inspections,
         probe'.seen = probe.seen, probe'.headers = probe.headers,
         probe'.databases = probe.databases, probe'.current = probe.current,
         probe'.count = probe.count, probe'.recognized = probe.recognized,
         probe'.blocked = probe.blocked, probe.warnings \subseteq probe'.warnings,
         \/ /\ probe.pc \in {"light", "root", "walk", "enter"}
            /\ probe'.pc \in {"light", "root", "walk", "enter", "headers"}
         \/ probe.pc = "headers" /\ probe.headers = {} /\ probe'.pc = "databases"
         \/ probe.pc = "databases" /\ probe'.pc = "done"
            /\ (probe.databases = {} \/ probe'.warnings # {})
  PROVE  ProbeInv'
<1>1. ProbeType' /\ Counted' = Counted /\ Total' = Total
  BY DEF ProbeInv, ProbeType, Counted, Total
<1>2. Exact'
  BY <1>1 DEF ProbeInv, Exact
<1>3. Reading'
  BY DEF ProbeInv, Reading
<1>4. QED
  BY <1>1, <1>2, <1>3, StillListed DEF ProbeInv

(* The roots are opened.                                                    *)
LEMMA RootStep ==
  ASSUME ProbeInv, ~late, Probe!InspectLight \/ Probe!OpenRoot
  PROVE  ProbeInv'
<1> USE DEF Probe!Advance, Probe!At, Probe!disk, Probe!Warned
<1>1. CASE Probe!InspectLight
  <2>1. PICK readable \in BOOLEAN :
          probe' = [(IF readable THEN probe ELSE Probe!Warned(probe, "rejected")) EXCEPT !.pc = "root"]
    BY <1>1 DEF Probe!InspectLight
  <2>2. QED
    BY <1>1, <2>1, ProceedsStep, SMTT(60) DEF Probe!InspectLight, ProbeInv, ProbeType, Inspections
<1>2. CASE Probe!OpenRoot
  <2>1. \/ probe' = [probe EXCEPT !.pc = "walk"]
        \/ probe' = [Probe!Warned(probe, "rejected") EXCEPT !.pc = "headers", !.todo = {}]
    BY <1>2 DEF Probe!OpenRoot
  <2>2. probe \in Inspections /\ probe.pc = "root" /\ UNCHANGED <<file, directory>>
    BY <1>2 DEF Probe!OpenRoot, ProbeInv, ProbeType
  <2>3. CASE probe' = [probe EXCEPT !.pc = "walk"]
    BY <2>2, <2>3, ProceedsStep DEF Inspections
  <2>4. CASE probe' = [Probe!Warned(probe, "rejected") EXCEPT !.pc = "headers", !.todo = {}]
    <3>1. probe' = [probe EXCEPT !.warnings = @ \cup {"rejected"}, !.pc = "headers", !.todo = {}]
      BY <2>2, <2>4 DEF Inspections
    <3>2. QED
      BY <2>2, <3>1, ProceedsStep DEF Inspections
  <2>5. QED
    BY <2>1, <2>3, <2>4
<1>3. QED
  BY <1>1, <1>2

(* The directory is entered, or the listing ends, and the reading begins.   *)
LEMMA PhaseStep ==
  ASSUME ProbeInv, ~late,
         Probe!EnterDirectory \/ Probe!Listed \/ Probe!HeadersRead \/ Probe!Inspected
  PROVE  ProbeInv'
<1> USE DEF Probe!Advance, Probe!At, Probe!disk, Probe!Warned
<1>1. CASE Probe!EnterDirectory
  <2>1. \/ probe' = [probe EXCEPT !.pc = "walk", !.todo = @ \cup Nested]
        \/ probe' = [Probe!Warned(probe, "changed") EXCEPT !.pc = "walk"]
    BY <1>1 DEF Probe!EnterDirectory
  <2>2. probe \in Inspections /\ probe.pc = "enter" /\ UNCHANGED <<file, directory>>
    BY <1>1 DEF Probe!EnterDirectory, ProbeInv, ProbeType
  <2>3. CASE probe' = [probe EXCEPT !.pc = "walk", !.todo = @ \cup Nested]
    <3>1. probe' \in Inspections
      BY <2>2, <2>3, ProbeAssumption DEF Inspections
    <3>2. QED
      BY <2>2, <2>3, <3>1, ProceedsStep DEF Inspections
  <2>4. CASE probe' = [Probe!Warned(probe, "changed") EXCEPT !.pc = "walk"]
    BY <2>2, <2>4, ProceedsStep DEF Inspections
  <2>5. QED
    BY <2>1, <2>3, <2>4
<1>2. CASE Probe!Listed
  BY <1>2, ProceedsStep DEF Probe!Listed, ProbeInv, ProbeType, Inspections
<1>3. CASE Probe!HeadersRead
  BY <1>3, ProceedsStep DEF Probe!HeadersRead, ProbeInv, ProbeType, Inspections
<1>4. CASE Probe!Inspected
  BY <1>4, ProceedsStep DEF Probe!Inspected, ProbeInv, ProbeType, Inspections
<1>5. QED
  BY <1>1, <1>2, <1>3, <1>4

(* A step that warns, of an entry that was seen or of a database.           *)
LEMMA WarnsStep ==
  ASSUME ProbeInv, UNCHANGED <<file, directory>>, probe' \in Inspections,
         probe'.seen = probe.seen, probe'.warnings # {},
         probe'.headers \cup probe'.databases \subseteq DOMAIN probe.seen,
         probe'.headers \cap probe'.databases = {}, probe'.current = NONE,
         \/ probe'.pc \in {"headers", "done"}
         \/ probe'.pc = "databases" /\ probe'.headers = {}
  PROVE  ProbeInv'
<1>1. ProbeType' /\ Exact' /\ Reading'
  BY DEF ProbeInv, ProbeType, Exact, Reading
<1>2. QED
  BY <1>1, StillListed DEF ProbeInv

(* An entry is listed.                                                      *)
LEMMA ListStep ==
  ASSUME ProbeInv, ~late, Probe!ListEntry
  PROVE  ProbeInv'
<1> USE DEF Probe!Advance, Probe!At, Probe!disk
<1>1. /\ probe \in Inspections /\ probe.pc = "walk" /\ UNCHANGED <<file, directory>>
      /\ file \in [Files -> Entries] /\ directory \in Nat
  BY DEF Probe!ListEntry, ProbeInv, ProbeType
<1>2. PICK e \in probe.todo :
        LET p == [probe EXCEPT !.todo = @ \ {e}] IN
        probe' = IF e = "directory" THEN [p EXCEPT !.preview = directory, !.pc = "enter"]
                 ELSE IF file[e].kind = "absent" THEN p
                 ELSE IF file[e].kind = "link" THEN Probe!Warned(p, "rejected")
                 ELSE [p EXCEPT !.headers = @ \cup {e},
                         !.seen = [f \in DOMAIN @ \cup {e} |->
                                     IF f = e THEN file[e] ELSE @[f]]]
  BY DEF Probe!ListEntry
<1> DEFINE left == probe.todo \ {e}
<1>3. e \in Files \cup {"directory"} /\ left \in SUBSET (Files \cup {"directory"})
  BY <1>1 DEF Inspections
<1>4. CASE e = "directory"
  <2>1. probe' = [probe EXCEPT !.todo = left, !.preview = directory, !.pc = "enter"]
    BY <1>1, <1>2, <1>4 DEF Inspections
  <2> HIDE DEF left
  <2>2. probe' \in Inspections
    BY <1>1, <1>3, <2>1 DEF Inspections
  <2>3. QED
    BY <1>1, <2>1, <2>2, ProceedsStep DEF Inspections
<1>5. CASE e # "directory" /\ file[e].kind = "absent"
  <2>1. probe' = [probe EXCEPT !.todo = left]
    BY <1>1, <1>2, <1>5 DEF Inspections
  <2> HIDE DEF left
  <2>2. probe' \in Inspections
    BY <1>1, <1>3, <2>1 DEF Inspections
  <2>3. QED
    BY <1>1, <2>1, <2>2, ProceedsStep DEF Inspections
<1>6. CASE e # "directory" /\ file[e].kind = "link"
  <2>1. probe' = [probe EXCEPT !.todo = left, !.warnings = @ \cup {"rejected"}]
    BY <1>1, <1>2, <1>6 DEF Inspections, Probe!Warned
  <2> HIDE DEF left
  <2>2. probe' \in Inspections
    BY <1>1, <1>3, <2>1 DEF Inspections
  <2>3. QED
    BY <1>1, <2>1, <2>2, ProceedsStep DEF Inspections
<1>7. CASE e # "directory" /\ file[e].kind \notin {"absent", "link"}
  <2> DEFINE more == [f \in DOMAIN probe.seen \cup {e} |->
                        IF f = e THEN file[e] ELSE probe.seen[f]]
  <2>1. probe' = [probe EXCEPT !.todo = left, !.headers = @ \cup {e}, !.seen = more]
    BY <1>1, <1>2, <1>7 DEF Inspections
  <2>2. more \in Listings /\ DOMAIN more = DOMAIN probe.seen \cup {e}
    <3>1. /\ e \in Files /\ DOMAIN probe.seen \in SUBSET Files
          /\ \A f \in DOMAIN probe.seen : probe.seen[f] \in Entries
      BY <1>1, <1>3, <1>7, ListingFacts DEF Inspections
    <3>2. /\ DOMAIN probe.seen \cup {e} \in SUBSET Files
          /\ more \in [DOMAIN probe.seen \cup {e} -> Entries]
      BY <1>1, <3>1
    <3>3. QED
      BY <3>2, ListingFacts
  <2>3. \A f \in DOMAIN more : more[f] = IF f = e THEN file[e] ELSE probe.seen[f]
    OBVIOUS
  <2> HIDE DEF left, more
  <2>4. /\ probe' \in Inspections /\ probe'.seen = more /\ probe'.pc = "walk"
        /\ probe'.headers = probe.headers \cup {e} /\ probe'.databases = probe.databases
        /\ probe'.warnings = probe.warnings /\ probe'.count = probe.count
        /\ probe'.recognized = probe.recognized /\ probe'.blocked = probe.blocked
        /\ probe'.current = probe.current
    BY <1>1, <1>3, <1>7, <2>1, <2>2, ZenonT(60) DEF Inspections
  <2>5. IsFiniteSet(DOMAIN probe'.seen)
    BY <2>2, <2>4, FS_AddElement DEF ProbeInv, ProbeType
  <2>6. DOMAIN probe.seen = probe.headers /\ probe.count = NONE /\ Counted = {}
        /\ probe.databases \subseteq probe.headers
    BY <1>1 DEF ProbeInv, Exact, Counted
  <2>7. DOMAIN probe'.seen = probe'.headers /\ Counted' = {} /\ probe.databases = {}
    BY <2>2, <2>4, <2>6 DEF Counted, ProbeInv, Exact
  <2>8. Exact'
    BY <1>1, <2>4, <2>6, <2>7 DEF ProbeInv, Exact
  <2>9. \A f \in DOMAIN probe'.seen : AsListed(f)'
    BY <1>1, <1>3, <1>7, <2>2, <2>3, <2>4 DEF ProbeInv, AsListed, Entries
  <2>10. QED
    BY <1>1, <2>4, <2>5, <2>8, <2>9 DEF ProbeInv, ProbeType, Reading
<1>8. QED
  BY <1>4, <1>5, <1>6, <1>7

(* A header is read.                                                        *)
LEMMA HeaderStep ==
  ASSUME ProbeInv, ~late, Probe!ReadHeader
  PROVE  ProbeInv'
<1> USE DEF Probe!Advance, Probe!At, Probe!disk
<1>1. /\ probe \in Inspections /\ probe.pc = "headers" /\ UNCHANGED <<file, directory>>
      /\ probe.headers \cup probe.databases \subseteq DOMAIN probe.seen
      /\ probe.headers \cap probe.databases = {}
      /\ probe.current = NONE
  BY DEF Probe!ReadHeader, ProbeInv, ProbeType, Exact, Reading
<1>2. PICK f \in probe.headers :
        LET p == [probe EXCEPT !.headers = @ \ {f}] IN
        probe' = IF ~Probe!AsPreviewed(f) THEN Probe!Warned(p, "changed")
                 ELSE IF file[f].kind = "other" THEN Probe!Warned(p, "unsupported")
                 ELSE [p EXCEPT !.databases = @ \cup {f}]
  BY DEF Probe!ReadHeader
<1> DEFINE less == probe.headers \ {f}
           more == probe.databases \cup {f}
<1>3. less \in SUBSET Files /\ more \in SUBSET Files
  BY <1>1, ListingFacts DEF Inspections
<1>4. /\ less \cup more \subseteq DOMAIN probe.seen
      /\ less \cup probe.databases \subseteq DOMAIN probe.seen
      /\ less \cap more = {} /\ less \cap probe.databases = {}
      /\ less \cup more = probe.headers \cup probe.databases
  BY <1>1
<1> HIDE DEF less, more
<1>5. ASSUME NEW code \in {"changed", "unsupported"},
             probe' = [probe EXCEPT !.headers = less, !.warnings = @ \cup {code}]
      PROVE  ProbeInv'
  <2>1. probe' \in Inspections
    BY <1>1, <1>3, <1>5, ZenonT(60) DEF Inspections
  <2>2. QED
    BY <1>1, <1>4, <1>5, <2>1, WarnsStep DEF Inspections
<1>6. CASE probe' = [probe EXCEPT !.headers = less, !.databases = more]
  <2>1. /\ probe'.seen = probe.seen /\ probe'.pc = "headers"
        /\ probe'.headers = less /\ probe'.current = probe.current
        /\ probe'.databases = more
        /\ probe'.warnings = probe.warnings /\ probe'.blocked = probe.blocked
        /\ probe'.count = probe.count /\ probe'.recognized = probe.recognized
    BY <1>1, <1>6 DEF Inspections
  <2>2. probe' \in Inspections
    BY <1>1, <1>3, <1>6, ZenonT(60) DEF Inspections
  <2>3. Counted' = Counted /\ Total' = Total
    BY <1>4, <2>1 DEF Counted, Total
  <2>4. ProbeType' /\ Exact' /\ Reading'
    BY <1>1, <1>4, <2>1, <2>2, <2>3 DEF ProbeInv, ProbeType, Exact, Reading
  <2>5. QED
    BY <1>1, <2>1, <2>4, StillListed DEF ProbeInv
<1>7. \/ \E code \in {"changed", "unsupported"} :
           probe' = [probe EXCEPT !.headers = less, !.warnings = @ \cup {code}]
      \/ probe' = [probe EXCEPT !.headers = less, !.databases = more]
  BY <1>1, <1>2 DEF Inspections, Probe!Warned, less, more
<1>8. QED
  BY <1>5, <1>6, <1>7

(* A database is opened for inspection, or passed over with a warning.      *)
LEMMA BeginStep ==
  ASSUME ProbeInv, ~late, Probe!InspectCandidate
  PROVE  ProbeInv'
<1> USE DEF Probe!Advance, Probe!At, Probe!disk
<1>1. /\ probe \in Inspections /\ probe.pc = "databases" /\ UNCHANGED <<file, directory>>
      /\ probe.databases \subseteq DOMAIN probe.seen /\ probe.headers = {}
      /\ probe.current = NONE /\ probe.databases \subseteq Files
  BY ListingFacts DEF Probe!InspectCandidate, ProbeInv, ProbeType, Exact, Reading, Inspections
<1> DEFINE new == [warnings |-> {}, recognized |-> FALSE, count |-> NONE]
<1>2. PICK f \in probe.databases :
        probe' =
         IF probe.inspected >= limit THEN [Probe!Warned(probe, "budget") EXCEPT !.pc = "done"]
         ELSE LET p == [probe EXCEPT !.databases = @ \ {f}, !.inspected = @ + 1] IN
              IF file[f].log # NONE \/ ~Probe!AsPreviewed(f) THEN Probe!Warned(p, "changed")
              ELSE [p EXCEPT !.pc = "schema", !.current = f, !.result = new]
  BY DEF Probe!InspectCandidate
<1> DEFINE less == probe.databases \ {f}
           next == probe.inspected + 1
<1>3. /\ new \in Results /\ less \in SUBSET Files /\ next \in Nat /\ f \in Files
      /\ less \subseteq DOMAIN probe.seen /\ f \in DOMAIN probe.seen \ less
      /\ less \cup {f} = probe.databases
  BY <1>1 DEF Results, Inspections
<1> HIDE DEF new, less, next
<1>4. CASE probe' = [probe EXCEPT !.warnings = @ \cup {"budget"}, !.pc = "done"]
  BY <1>1, <1>4, WarnsStep, ZenonT(60) DEF Inspections
<1>5. CASE probe' = [probe EXCEPT !.databases = less, !.inspected = next,
                                  !.warnings = @ \cup {"changed"}]
  <2>1. probe' \in Inspections
    BY <1>1, <1>3, <1>5, ZenonT(60) DEF Inspections
  <2>2. /\ probe'.warnings # {} /\ probe'.pc = "databases"
        /\ probe'.seen = probe.seen /\ probe'.headers = {} /\ probe'.current = NONE
        /\ probe'.databases = less
    BY <1>1, <1>5 DEF Inspections
  <2>3. QED
    BY <1>1, <1>3, <2>1, <2>2, WarnsStep
<1>6. CASE probe' = [probe EXCEPT !.databases = less, !.inspected = next,
                                  !.pc = "schema", !.current = f, !.result = new]
  <2>1. probe' \in Inspections
    BY <1>1, <1>3, <1>6, ZenonT(60) DEF Inspections
  <2>2. /\ probe'.pc = "schema" /\ probe'.result = new
        /\ probe'.seen = probe.seen /\ probe'.headers = {} /\ probe'.current = f
        /\ probe'.databases = less
        /\ probe'.warnings = probe.warnings /\ probe'.blocked = probe.blocked
        /\ probe'.count = probe.count /\ probe'.recognized = probe.recognized
    BY <1>1, <1>6 DEF Inspections
  <2>3. Counted' = Counted
    <3>1. NONE \notin DOMAIN probe.seen
      BY <1>1, ListingFacts, ProbeAssumption DEF Inspections
    <3>2. QED
      BY <1>1, <1>3, <2>2, <3>1 DEF Counted
  <2>4. Total' = Total
    BY <2>2, <2>3 DEF Total
  <2>5. ProbeType' /\ Exact'
    BY <1>1, <1>3, <2>1, <2>2, <2>3, <2>4 DEF ProbeInv, ProbeType, Exact
  <2>6. Reading'
    BY <1>1, <1>3, <2>2 DEF Reading, new
  <2>7. QED
    BY <1>1, <2>2, <2>5, <2>6, StillListed DEF ProbeInv
<1>7. \/ probe' = [probe EXCEPT !.warnings = @ \cup {"budget"}, !.pc = "done"]
      \/ probe' = [probe EXCEPT !.databases = less, !.inspected = next,
                                !.warnings = @ \cup {"changed"}]
      \/ probe' = [probe EXCEPT !.databases = less, !.inspected = next,
                                !.pc = "schema", !.current = f, !.result = new]
  BY <1>1, <1>2 DEF Inspections, Probe!Warned, less, next
<1>8. QED
  BY <1>4, <1>5, <1>6, <1>7

(* A step of the inspection of one database, which is in Reading.           *)
LEMMA WithinStep ==
  ASSUME ProbeInv, UNCHANGED <<file, directory>>, probe' \in Inspections,
         probe.pc \in {"schema", "count", "recheck"},
         probe'.pc \in {"count", "recheck", "aggregate"},
         probe'.seen = probe.seen, probe'.headers = probe.headers,
         probe'.databases = probe.databases, probe'.current = probe.current,
         probe'.count = probe.count, probe'.recognized = probe.recognized,
         probe'.blocked = probe.blocked, probe'.warnings = probe.warnings, Reading'
  PROVE  ProbeInv'
<1>1. ProbeType' /\ Counted' = Counted /\ Total' = Total
  BY DEF ProbeInv, ProbeType, Counted, Total
<1>2. Exact'
  BY <1>1 DEF ProbeInv, Exact
<1>3. QED
  BY <1>1, <1>2, StillListed DEF ProbeInv

(* The database is read: its schema, then its count.                        *)
LEMMA ReadStep ==
  ASSUME ProbeInv, ~late, Probe!ReadSchema \/ Probe!ExecuteReviewedCount
  PROVE  ProbeInv'
<1> USE DEF Probe!Advance, Probe!At, Probe!disk
<1> DEFINE f == probe.current
           r == probe.result
           over == [r EXCEPT !.warnings = @ \cup {"budget"}]
           unsupported == [r EXCEPT !.warnings = {"unsupported"}]
           good == [r EXCEPT !.recognized = TRUE]
           counted == [r EXCEPT !.count = file[f].count]
<1>1. /\ probe \in Inspections /\ UNCHANGED <<file, directory>> /\ r \in Results
      /\ f \in DOMAIN probe.seen \ (probe.headers \cup probe.databases)
      /\ probe.headers = {} /\ f \in Files /\ file[f] \in Entries /\ AsListed(f)
      /\ probe.seen[f] \in Entries
  BY ListingFacts DEF Probe!ReadSchema, Probe!ExecuteReviewedCount, ProbeInv, ProbeType,
                      Reading, Inspections
<1>2. over \in Results /\ unsupported \in Results /\ good \in Results /\ counted \in Results
  BY <1>1 DEF Results, Entries
<1>3. over.warnings # {} /\ unsupported.warnings # {} /\ good.recognized
      /\ good.warnings = r.warnings /\ counted.warnings = r.warnings
      /\ counted.recognized = r.recognized /\ counted.count = file[f].count
  BY <1>1 DEF Results
<1> HIDE DEF over, unsupported, good, counted
<1>4. ASSUME NEW step \in {"count", "recheck", "aggregate"}, NEW s \in Results,
             probe' = [probe EXCEPT !.pc = step, !.result = s],
             probe.pc \in {"schema", "count"}
      PROVE  /\ probe' \in Inspections /\ probe'.pc = step /\ probe'.result = s
             /\ probe'.seen = probe.seen /\ probe'.headers = probe.headers
             /\ probe'.databases = probe.databases /\ probe'.current = probe.current
             /\ probe'.count = probe.count /\ probe'.recognized = probe.recognized
             /\ probe'.blocked = probe.blocked /\ probe'.warnings = probe.warnings
             /\ Reading' => ProbeInv'
  BY <1>1, <1>4, WithinStep DEF Inspections
<1>5. CASE Probe!ReadSchema
  <2>1. probe.pc = "schema" /\ r = [warnings |-> {}, recognized |-> FALSE, count |-> NONE]
    BY <1>5 DEF Probe!ReadSchema, ProbeInv, Reading
  <2>2. \/ probe' = [probe EXCEPT !.pc = "aggregate", !.result = over]
        \/ probe' = [probe EXCEPT !.pc = "recheck", !.result = unsupported]
        \/ /\ probe' = [probe EXCEPT !.pc = "count", !.result = good]
           /\ file[f].kind = "reviewed"
    BY <1>1, <1>5 DEF Probe!ReadSchema, Probe!OutOfSteps, Inspections, Results,
                      over, unsupported, good
  <2>3. CASE probe' = [probe EXCEPT !.pc = "aggregate", !.result = over]
    BY <1>1, <1>2, <1>3, <1>4, <2>1, <2>3, ZenonT(60) DEF Reading
  <2>4. CASE probe' = [probe EXCEPT !.pc = "recheck", !.result = unsupported]
    BY <1>1, <1>2, <1>3, <1>4, <2>1, <2>4 DEF Reading
  <2>5. CASE probe' = [probe EXCEPT !.pc = "count", !.result = good]
             /\ file[f].kind = "reviewed"
    <3>1. /\ probe'.pc = "count" /\ probe'.result = good /\ probe'.seen = probe.seen
          /\ probe'.headers = probe.headers /\ probe'.databases = probe.databases
          /\ probe'.current = f
      BY <1>2, <1>4, <2>1, <2>5
    <3>2. /\ r.warnings = {}
          /\ probe.seen[f].version = file[f].version => probe.seen[f].kind = "reviewed"
      BY <1>1, <2>1, <2>5 DEF AsListed
    <3>3. Reading'
      BY <1>1, <1>2, <1>3, <3>1, <3>2 DEF Reading
    <3>4. QED
      BY <1>2, <1>4, <2>1, <2>5, <3>3
  <2>6. QED
    BY <2>2, <2>3, <2>4, <2>5
<1>6. CASE Probe!ExecuteReviewedCount
  <2>1. /\ probe.pc = "count" /\ r.warnings = {} /\ r.recognized
        /\ probe.seen[f].version = file[f].version => probe.seen[f].kind = "reviewed"
    BY <1>6 DEF Probe!ExecuteReviewedCount, ProbeInv, Reading
  <2>2. \/ probe' = [probe EXCEPT !.pc = "recheck", !.result = over]
        \/ probe' = [probe EXCEPT !.pc = "recheck", !.result = counted]
    BY <1>1, <1>6, SMTT(60) DEF Probe!ExecuteReviewedCount, Probe!OutOfSteps, Inspections, Results,
                      over, counted
  <2>3. CASE probe' = [probe EXCEPT !.pc = "recheck", !.result = over]
    BY <1>1, <1>2, <1>3, <1>4, <2>1, <2>3 DEF Reading
  <2>4. CASE probe' = [probe EXCEPT !.pc = "recheck", !.result = counted]
    <3>1. /\ probe'.pc = "recheck" /\ probe'.result = counted /\ probe'.seen = probe.seen
          /\ probe'.headers = probe.headers /\ probe'.databases = probe.databases
          /\ probe'.current = f
      BY <1>2, <1>4, <2>1, <2>4
    <3>2. /\ file[f].count \in Counts
          /\ probe.seen[f].version = file[f].version => probe.seen[f].count = file[f].count
      BY <1>1 DEF AsListed, Entries
    <3>3. Reading'
      BY <1>1, <1>2, <1>3, <2>1, <3>1, <3>2, ZenonT(60) DEF Reading
    <3>4. QED
      BY <1>2, <1>4, <2>1, <2>4, <3>3
  <2>5. QED
    BY <2>2, <2>3, <2>4
<1>7. QED
  BY <1>5, <1>6

(* The database that was read is verified once more.                        *)
LEMMA VerifyStep ==
  ASSUME ProbeInv, ~late, Probe!VerifyOpenCandidate
  PROVE  ProbeInv'
<1> USE DEF Probe!Advance, Probe!At, Probe!disk
<1> DEFINE f == probe.current
           r == probe.result
           withdrawn == [r EXCEPT !.count = NONE, !.warnings = @ \cup {"changed"}]
<1>1. /\ probe \in Inspections /\ UNCHANGED <<file, directory>> /\ r \in Results
      /\ f \in DOMAIN probe.seen \ (probe.headers \cup probe.databases)
      /\ probe.headers = {} /\ probe.pc = "recheck"
      /\ r.warnings = {} =>
           /\ r.recognized
           /\ probe.seen[f].version = file[f].version =>
                probe.seen[f].kind = "reviewed" /\ r.count = probe.seen[f].count
  BY DEF Probe!VerifyOpenCandidate, ProbeInv, ProbeType, Reading
<1>2. withdrawn \in Results /\ withdrawn.warnings # {}
  BY <1>1 DEF Results
<1>3. CASE Probe!StillVerified(f) /\ probe' = [probe EXCEPT !.pc = "aggregate"]
  <2>1. Reading'
    BY <1>1, <1>3 DEF Reading, Inspections, Probe!StillVerified, Probe!AsPreviewed
  <2>2. QED
    BY <1>1, <1>3, <2>1, WithinStep DEF Inspections
<1> HIDE DEF withdrawn
<1>4. CASE probe' = [probe EXCEPT !.pc = "aggregate", !.result = withdrawn]
  <2>1. probe' \in Inspections
    BY <1>1, <1>2, <1>4 DEF Inspections
  <2>2. Reading'
    BY <1>1, <1>2, <1>4 DEF Reading, Inspections
  <2>3. QED
    BY <1>1, <1>4, <2>1, <2>2, WithinStep DEF Inspections
<1>5. \/ Probe!StillVerified(f) /\ probe' = [probe EXCEPT !.pc = "aggregate"]
      \/ probe' = [probe EXCEPT !.pc = "aggregate", !.result = withdrawn]
  BY <1>1, ZenonT(60) DEF Probe!VerifyOpenCandidate, Inspections, Results, withdrawn
<1>6. QED
  BY <1>3, <1>4, <1>5

(* What was read is added up.                                               *)
LEMMA AggregateStep ==
  ASSUME ProbeInv, ~late, Probe!AggregateDatabase
  PROVE  ProbeInv'
<1> USE DEF Probe!Advance, Probe!At, Probe!disk
<1> DEFINE f == probe.current
           r == probe.result
           total == (IF probe.count = NONE THEN 0 ELSE probe.count)
                      + (IF r.count = NONE THEN 0 ELSE r.count)
           failed == r.recognized /\ r.warnings # {} /\ r.count = NONE
           overflow == r.count # NONE /\ ~probe.blocked /\ total > MaxCount
           known == probe.recognized \/ r.recognized
           stuck == probe.blocked \/ failed \/ overflow
           sum == IF failed \/ overflow THEN NONE
                  ELSE IF r.count # NONE /\ ~probe.blocked THEN total ELSE probe.count
           all == probe.warnings \cup r.warnings \cup (IF overflow THEN {"budget"} ELSE {})
           next == IF "budget" \in r.warnings THEN "done" ELSE "databases"
<1>1. /\ probe \in Inspections /\ UNCHANGED <<file, directory>> /\ r \in Results
      /\ f \in DOMAIN probe.seen \ (probe.headers \cup probe.databases)
      /\ probe.headers = {} /\ probe.pc = "aggregate"
      /\ probe.headers \cup probe.databases \subseteq DOMAIN probe.seen
      /\ r.warnings = {} =>
           /\ r.recognized
           /\ probe.seen[f].kind = "reviewed" /\ r.count = probe.seen[f].count
  BY DEF Probe!AggregateDatabase, ProbeInv, ProbeType, Reading, Exact
<1>2. probe' = [probe EXCEPT !.recognized = known, !.blocked = stuck, !.count = sum,
                             !.warnings = all, !.pc = next, !.current = NONE, !.result = NONE]
  BY <1>1 DEF Probe!AggregateDatabase, Probe!Aggregated, Inspections
<1>3. /\ known \in BOOLEAN /\ stuck \in BOOLEAN /\ next \in {"done", "databases"}
      /\ all \in SUBSET {"rejected", "changed", "unsupported", "budget", "timeout"}
  BY <1>1 DEF Inspections, Results
<1>4. sum \in Int \cup {NONE}
  <2>1. probe.count \in Int \cup {NONE} /\ r.count \in Int \cup {NONE}
    <3>1. probe.count \in Int \cup {NONE}
      BY <1>1 DEF Inspections
    <3>2. r.count \in Counts \cup {NONE}
      BY <1>1 DEF Results
    <3>3. Counts \subseteq Int
      BY ProbeAssumption
    <3>4. QED
      BY <3>1, <3>2, <3>3
  <2>2. total \in Int
    BY <2>1
  <2> HIDE DEF total, failed, overflow
  <2>3. QED
    BY <2>1, <2>2
<1> HIDE DEF total, failed, overflow
<1>5. all = {} =>
        /\ probe.warnings = {} /\ r.warnings = {} /\ ~overflow /\ ~failed /\ known
        /\ stuck = probe.blocked
        /\ ~probe.blocked => sum = IF r.count # NONE THEN total ELSE probe.count
  <2>1. all = {} => probe.warnings = {} /\ r.warnings = {} /\ ~overflow
    OBVIOUS
  <2>2. r.warnings = {} => ~failed
    BY DEF failed
  <2>3. probe.blocked \in BOOLEAN /\ (r.warnings = {} => r.recognized)
    BY <1>1 DEF Inspections
  <2>4. QED
    BY <2>1, <2>2, <2>3
<1> HIDE DEF known, stuck, sum, all, next
<1>6. /\ probe'.recognized = known /\ probe'.blocked = stuck /\ probe'.count = sum
      /\ probe'.warnings = all /\ probe'.pc = next /\ probe'.current = NONE
      /\ probe'.seen = probe.seen /\ probe'.headers = probe.headers
      /\ probe'.databases = probe.databases
  BY <1>1, <1>2 DEF Inspections
<1>7. probe' \in Inspections
  BY <1>1, <1>2, <1>3, <1>4, ZenonT(60) DEF Inspections
<1>8. CASE all # {}
  BY <1>1, <1>3, <1>6, <1>7, <1>8, WarnsStep DEF ProbeInv, Exact
<1>9. CASE all = {}
  <2>1. /\ probe.warnings = {} /\ ~probe.blocked /\ r.recognized
        /\ probe.seen[f].kind = "reviewed" /\ r.count = probe.seen[f].count
        /\ known = TRUE /\ stuck = FALSE
    BY <1>1, <1>3, <1>5, <1>9 DEF ProbeInv, Exact
  <2>2. /\ DOMAIN probe.seen \subseteq Files /\ NONE \notin DOMAIN probe.seen
        /\ \A g \in DOMAIN probe.seen : probe.seen[g].count \in Nat
        /\ NONE \notin Int
    BY <1>1, ListingFacts, ProbeAssumption DEF Inspections, Entries
  <2>3. /\ Counted' = Counted \cup {f} /\ f \notin Counted
        /\ Counted' \subseteq DOMAIN probe.seen
    BY <1>1, <1>6, <2>2 DEF Counted
  <2> DEFINE counts == [g \in Counted' |-> probe.seen[g].count]
  <2>4. /\ IsFiniteSet(Counted') /\ IsFiniteSet(Counted)
        /\ counts \in [Counted' -> Int]
        /\ [g \in Counted |-> probe.seen[g].count] \in [Counted -> Int]
    <3>1. IsFiniteSet(DOMAIN probe.seen)
      BY DEF ProbeInv, ProbeType
    <3>2. IsFiniteSet(Counted') /\ IsFiniteSet(Counted)
      BY <2>3, <3>1, FS_Subset
    <3>3. QED
      BY <2>2, <2>3, <3>2
  <2>5. Total' = probe.seen[f].count + Total
    <3>1. Total' = SumFunction(counts)
      BY <1>6 DEF Total
    <3>2. SumFunction(counts) = counts[f] + SumFunction([g \in Counted' \ {f} |-> counts[g]])
      <4>1. f \in Counted'
        BY <2>3
      <4> HIDE DEF counts
      <4>2. IsFiniteSet(Counted') /\ counts \in [Counted' -> Int]
        BY <2>4
      <4>3. QED
        BY <4>1, <4>2, SumTake
    <3>3. Counted' \ {f} = Counted
      BY <2>3
    <3>4. [g \in Counted' \ {f} |-> counts[g]] = [g \in Counted |-> probe.seen[g].count]
      BY <2>3, <3>3
    <3>5. counts[f] = probe.seen[f].count
      BY <2>3
    <3>6. QED
      BY <3>1, <3>2, <3>4, <3>5 DEF Total
  <2>6. Total \in Int /\ (Counted = {} => Total = 0)
    BY <2>4, SumType DEF Total
  <2>7. sum = Total'
    <3>1. r.count \in Int /\ r.count # NONE
      BY <1>1, <2>1, <2>2
    <3>2. sum = (IF probe.count = NONE THEN 0 ELSE probe.count) + r.count
      BY <1>5, <1>9, <2>1, <3>1 DEF total
    <3>3. CASE Counted = {}
      <4>1. probe.count = NONE
        BY <2>1, <3>3 DEF ProbeInv, Exact
      <4>2. QED
        BY <2>1, <2>5, <2>6, <3>1, <3>2, <3>3, <4>1
    <3>4. CASE Counted # {}
      <4>1. probe.count = Total
        BY <2>1, <3>4 DEF ProbeInv, Exact
      <4>2. probe.count # NONE
        BY <2>2, <2>6, <4>1
      <4>3. QED
        BY <2>1, <2>5, <2>6, <3>1, <3>2, <4>1, <4>2
    <3>5. QED
      BY <3>3, <3>4
  <2>8. \A g \in Counted' : probe'.seen[g].kind = "reviewed"
    BY <1>6, <2>1, <2>3 DEF ProbeInv, Exact
  <2>9. next = "databases"
    BY <1>1, <1>5, <1>9 DEF next
  <2>10. Exact'
    BY <1>1, <1>6, <2>1, <2>3, <2>7, <2>8, <2>9 DEF ProbeInv, Exact
  <2>11. ProbeType' /\ Reading'
    BY <1>1, <1>6, <1>7, <2>9 DEF ProbeInv, ProbeType, Reading
  <2>12. QED
    BY <1>1, <1>6, <2>10, <2>11, StillListed DEF ProbeInv
<1>10. QED
  BY <1>8, <1>9

(* One step of the inspection; past the deadline it is the last.            *)
LEMMA InspectionStep ==
  ASSUME ProbeInv, Probe!Inspect
  PROVE  ProbeInv'
<1>1. CASE late
  <2>1. probe' = Probe!TimedOut(probe) /\ UNCHANGED <<file, directory>>
    BY <1>1 DEF Probe!Inspect, Probe!InspectLight, Probe!OpenRoot, Probe!ListEntry,
       Probe!EnterDirectory, Probe!Listed, Probe!ReadHeader, Probe!HeadersRead,
       Probe!InspectCandidate, Probe!ReadSchema, Probe!ExecuteReviewedCount,
       Probe!VerifyOpenCandidate, Probe!AggregateDatabase, Probe!Inspected,
       Probe!Advance, Probe!disk
  <2>2. QED
    BY <2>1, TimeOut
<1>2. CASE ~late
  BY <1>2, RootStep, PhaseStep, ListStep, HeaderStep, BeginStep, ReadStep, VerifyStep,
     AggregateStep DEF Probe!Inspect
<1>3. QED
  BY <1>1, <1>2

(* Whatever the owner of the files does, the version of a file that changes *)
(* for a reader grows.                                                      *)
LEMMA DiskMoves ==
  ASSUME ProbeInv, UNCHANGED probe, file' \in [Files -> Entries], directory' \in Nat,
         \A f \in Files :
           /\ file[f].version <= file'[f].version
           /\ file[f].version = file'[f].version =>
                file[f].kind = file'[f].kind /\ file[f].count = file'[f].count
  PROVE  ProbeInv'
<1>1. /\ ProbeType' /\ Counted' = Counted /\ Total' = Total
  BY DEF ProbeInv, ProbeType, Counted, Total
<1>2. /\ DOMAIN probe.seen \subseteq Files
      /\ \A f \in DOMAIN probe.seen : probe.seen[f] \in Entries
      /\ file \in [Files -> Entries]
  BY ListingFacts DEF ProbeInv, ProbeType, Inspections
<1>3. ASSUME NEW f \in DOMAIN probe.seen
      PROVE  /\ AsListed(f)'
             /\ probe.seen[f].version = file'[f].version =>
                  probe.seen[f].version = file[f].version
  <2>1. /\ probe.seen[f].version \in Nat /\ file[f].version \in Nat
        /\ file'[f].version \in Nat
    BY <1>2 DEF Entries
  <2>2. AsListed(f) /\ f \in Files
    BY <1>2 DEF ProbeInv
  <2>3. probe'.seen[f] = probe.seen[f]
    OBVIOUS
  <2>4. QED
    BY <2>1, <2>2, <2>3 DEF AsListed
<1>4. Exact'
  BY <1>1 DEF ProbeInv, Exact
<1>5. Reading'
  BY <1>3 DEF ProbeInv, Reading
<1>6. QED
  BY <1>1, <1>3, <1>4, <1>5 DEF ProbeInv

(* The owner of the files writes, checkpoints, or replaces.                 *)
LEMMA OwnerStep ==
  ASSUME ProbeInv, \/ Probe!ReplaceDirectory
                   \/ \E f \in Files : Probe!WriteLog(f) \/ Probe!Checkpoint(f) \/ Probe!Replace(f)
  PROVE  ProbeInv'
<1>1. file \in [Files -> Entries] /\ directory \in Nat
  BY DEF ProbeInv, ProbeType
<1>2. CASE Probe!ReplaceDirectory
  BY <1>1, <1>2, DiskMoves DEF Probe!ReplaceDirectory, Probe!Changing, Entries
<1>3. ASSUME NEW f \in Files, NEW e \in Entries, file' = [file EXCEPT ![f] = e],
             UNCHANGED <<probe, directory>>,
             \/ e.version = file[f].version /\ e.kind = file[f].kind /\ e.count = file[f].count
             \/ e.version = file[f].version + 1
      PROVE  ProbeInv'
  <2>1. file' \in [Files -> Entries]
    BY <1>1, <1>3
  <2>2. \A g \in Files : file[g].version \in Nat
    BY <1>1 DEF Entries
  <2>3. ASSUME NEW g \in Files
        PROVE  /\ file[g].version <= file'[g].version
               /\ file[g].version = file'[g].version =>
                    file[g].kind = file'[g].kind /\ file[g].count = file'[g].count
    <3>1. CASE g = f
      BY <1>1, <1>3, <2>2, <3>1
    <3>2. CASE g # f
      BY <1>1, <1>3, <2>2, <3>2
    <3>3. QED
      BY <3>1, <3>2
  <2>4. QED
    BY <1>1, <1>3, <2>1, <2>3, DiskMoves
<1>4. ASSUME NEW f \in Files, Probe!WriteLog(f)
      PROVE  ProbeInv'
  <2>1. PICK n \in Counts : file' = [file EXCEPT ![f].log = n]
    BY <1>4 DEF Probe!WriteLog
  <2> DEFINE e == [file[f] EXCEPT !.log = n]
  <2>2. /\ e \in Entries /\ e.version = file[f].version /\ e.kind = file[f].kind
        /\ e.count = file[f].count
    BY <1>1, <2>1 DEF Entries
  <2>3. file' = [file EXCEPT ![f] = e] /\ UNCHANGED <<probe, directory>>
    BY <1>1, <1>4, <2>1 DEF Probe!WriteLog, Probe!Changing
  <2> HIDE DEF e
  <2>4. QED
    BY <1>3, <2>2, <2>3
<1>5. ASSUME NEW f \in Files, Probe!Checkpoint(f)
      PROVE  ProbeInv'
  <2>1. PICK old \in Entries : old = file[f]
    BY <1>1
  <2>2. PICK n \in Counts : n = old.log
    BY <1>5, <2>1 DEF Probe!Checkpoint, Entries
  <2> DEFINE e == [old EXCEPT !.count = n, !.log = NONE, !.version = @ + 1]
  <2>3. e \in Entries /\ e.version = old.version + 1
    <3>1. old.version + 1 \in Nat /\ n \in Counts
      BY DEF Entries
    <3> DEFINE v == old.version + 1
    <3>2. e = [old EXCEPT !.count = n, !.log = NONE, !.version = v]
      OBVIOUS
    <3> HIDE DEF v, e
    <3>3. e \in Entries /\ e.version = v
      BY <3>1, <3>2 DEF Entries, v
    <3>4. QED
      BY <3>3 DEF v
  <2>4. file' = [file EXCEPT ![f] = e] /\ UNCHANGED <<probe, directory>>
    BY <1>1, <1>5, <2>1, <2>2 DEF Probe!Checkpoint, Probe!Changing
  <2> HIDE DEF e
  <2>5. QED
    BY <1>3, <2>1, <2>3, <2>4
<1>6. ASSUME NEW f \in Files, Probe!Replace(f)
      PROVE  ProbeInv'
  <2>1. PICK k \in Probe!Kinds, n \in Counts :
          file' = [file EXCEPT ![f] = [kind |-> k, version |-> @.version + 1, count |-> n,
                                       log |-> NONE]]
    BY <1>6 DEF Probe!Replace
  <2> DEFINE e == [kind |-> k, version |-> file[f].version + 1, count |-> n, log |-> NONE]
  <2>2. e \in Entries /\ e.version = file[f].version + 1
    BY <1>1, <2>1 DEF Entries
  <2>3. file' = [file EXCEPT ![f] = e] /\ UNCHANGED <<probe, directory>>
    BY <1>6, <2>1 DEF Probe!Replace, Probe!Changing
  <2> HIDE DEF e
  <2>4. QED
    BY <1>3, <2>2, <2>3
<1>7. QED
  BY <1>2, <1>4, <1>5, <1>6

(* A probe is begun and its result is given when nothing on the disk moves. *)
LEMMA ProbesKept ==
  ASSUME ProbeInv, [Probe!Next]_(Probe!vars)
  PROVE  ProbeInv'
<1>1. CASE Probe!Inspect
  BY <1>1, InspectionStep
<1>2. CASE Probe!ReplaceDirectory
            \/ \E f \in Files : Probe!WriteLog(f) \/ Probe!Checkpoint(f) \/ Probe!Replace(f)
  BY <1>2, OwnerStep
<1>3. CASE UNCHANGED <<probe, file, directory>>
  BY <1>3 DEF ProbeInv, ProbeType, Exact, Reading, AsListed, Counted, Total
<1>4. CASE UNCHANGED <<file, directory>> /\ probe' \in {Probe!Start, Probe!Resting}
  BY <1>4, FreshNext DEF ProbeInv, ProbeType
<1>5. QED
  BY <1>1, <1>2, <1>3, <1>4
     DEF Probe!Next, Probe!vars, Probe!Lease, Probe!ReserveStructure, Probe!Run,
         Probe!FinishRun, Probe!Close, Probe!Release, Probe!Expire, Probe!disk

(* At first no probe was made.                                              *)
LEMMA ProbesInit ==
  ASSUME Probe!Init
  PROVE  ProbeInv
<1>1. file \in [Files -> Entries] /\ directory \in Nat
  BY DEF Probe!Init, Entries, Probe!Kinds
<1>2. QED
  BY <1>1, Fresh DEF Probe!Init

(* What the last step of a probe reports as recognised was counted in full. *)
LEMMA RecognizedInFull == ProbeInv => Probe!RecognizedIsExact
<1> DEFINE counts == [f \in DOMAIN probe.seen |-> probe.seen[f].count]
<1>1. ASSUME ProbeInv, probe.pc = "done", Probe!StructureStatus = "recognized"
      PROVE  /\ \A f \in DOMAIN probe.seen : probe.seen[f].kind = "reviewed"
             /\ probe.count = SumFunction(counts)
  <2>1. probe.recognized /\ probe.warnings = {}
    BY <1>1 DEF Probe!StructureStatus
  <2>2. NONE \notin DOMAIN probe.seen
    BY <1>1, ListingFacts, ProbeAssumption DEF ProbeInv, ProbeType, Inspections
  <2>3. Counted = DOMAIN probe.seen
    BY <1>1, <2>1, <2>2 DEF ProbeInv, Exact, Reading, Counted
  <2>4. QED
    BY <1>1, <2>1, <2>3 DEF ProbeInv, Exact, Total
<1>2. Probe!SumFunction(counts) = SumFunction(counts)
  BY DEF Probe!SumFunction, Probe!SumFunctionOnSet, Probe!FoldFunctionOnSet,
         Probe!MapThenFoldSet, SumFunction, SumFunctionOnSet, FoldFunctionOnSet, MapThenFoldSet
<1>3. QED
  BY <1>1, <1>2 DEF Probe!RecognizedIsExact

(* At most one structure probe is reserved or runs, and a source is         *)
(* reported as recognised only if every candidate that was listed is a      *)
(* reviewed database, read as it was when it was listed, and the count is   *)
(* the sum of theirs. (probes/service.py, probes/filesystem.py)             *)
THEOREM ProbesAlwaysExact == Spec => []ProbesAreExact
<1>1. Init => (focus = "probes" => ProbeInv)
  BY ProbesInit DEF Init
<1>2. (focus = "probes" => ProbeInv) /\ [Next]_vars => (focus = "probes" => ProbeInv)'
  BY FocusStays, ProbesMove, ProbesKept
<1>3. (focus = "probes" => Probe!OneStructureProbe) /\ (focus = "probes" => ProbeInv)
        => ProbesAreExact
  BY RecognizedInFull DEF ProbesAreExact
<1>4. QED
  BY <1>1, <1>2, <1>3, OneProbeAtATime, PTL DEF Spec

-----------------------------------------------------------------------------
(* The parser.  Folds of lines, units and chunks.                           *)

(* The last number of a set is folded last.                                 *)
Greatest(T) == CHOOSE x \in T : \A y \in T : x >= y

(* The operations of the folds, with a parameter where there is one.       *)
CompletedOp(p, ls, u) == Codex!Completed(ls, u)
ProcessOp(p, st, l) == Codex!ProcessLine(st, l)
ParseOp(p, a, u) == Codex!ParseUnit(a, u)
NextOp(bytes, p, n) == Codex!NextChunk(bytes, p)
ScanOp(thread, s, l) == Codex!ScanLine(thread, s, l)

LineSet == {Lines[n] : n \in DOMAIN Lines}
LinesInv(q, s, a) == a \in Seq(LineSet)

LinesFold == INSTANCE FoldTheorems WITH Op <- CompletedOp, Pick <- Greatest, Inv <- LinesInv

(* The lines read from a state.                                             *)
Read(ls) == Codex!FoldLeft(Codex!ProcessLine, Codex!Fresh, ls)

(* Making lines out of units is a fold.                                    *)
LEMMA LinesIsFold ==
  ASSUME NEW bytes
  PROVE  Codex!LinesOf(bytes) = LinesFold!Folded(0, <<>>, bytes)
BY DEF Codex!LinesOf, Codex!FoldLeft, Codex!MapThenFoldSet, Codex!Max, LinesFold!Folded,
       LinesFold!FoldOf, LinesFold!MapThenFoldSet, Greatest, CompletedOp

(* The greatest number of an interval is its end.                           *)
LEMMA GreatestLast ==
  ASSUME NEW n \in Nat \ {0}
  PROVE  /\ Greatest(1..n) = n
         /\ \A T \in SUBSET (1..n) : T # {} => Greatest(T) \in T
<1>1. Greatest(1..n) = n
  <2>1. n \in 1..n /\ \A y \in 1..n : n >= y
    OBVIOUS
  <2>2. \A x \in 1..n : (\A y \in 1..n : x >= y) => x = n
    OBVIOUS
  <2>3. QED
    BY <2>1, <2>2 DEF Greatest
<1>2. ASSUME NEW T \in SUBSET (1..n), T # {} PROVE Greatest(T) \in T
  <2>1. \E x \in T : \A y \in T : x >= y
    <3>1. T \in SUBSET (0..n)
      OBVIOUS
    <3>2. QED
      BY <1>2, <3>1, LinesFold!GreatestExists
  <2>2. QED
    BY <2>1 DEF Greatest
<1>3. QED
  BY <1>1, <1>2

(* So the folds over sequences go from the first element to the last.       *)
LEMMA LinesInOrder == LinesFold!PicksLast
BY GreatestLast DEF LinesFold!PicksLast, LinesFold!Picks

(* The lines of a file are those of what was there before and the one that  *)
(* the new unit completes.                                                  *)
LEMMA LinesGrow ==
  ASSUME NEW X, NEW b \in Seq(X), NEW u \in X
  PROVE  Codex!LinesOf(Append(b, u)) = Codex!Completed(Codex!LinesOf(b), u)
BY LinesIsFold, LinesInOrder, LinesFold!FoldAppend DEF CompletedOp

(* No units make no lines.                                                 *)
LEMMA NoLines == Codex!LinesOf(<<>>) = <<>>
BY LinesIsFold, LinesFold!FoldEmpty

(* What a line may say, and what is kept of it.                             *)
Turns == {Lines[n].turn : n \in {m \in DOMAIN Lines : Lines[m].type = "context"}}
Sessions == {NONE} \cup UNION {{Lines[n].session, Lines[n].id} : n \in DOMAIN Lines}
Contexts == [turn : Turns, session : Sessions,
             cwd : {NONE} \cup {Lines[n].cwd : n \in DOMAIN Lines},
             model : {NONE} \cup {Lines[n].model : n \in DOMAIN Lines}]
States == [session : Sessions, meta : Sessions, contexts : Seq(Contexts),
           records : Seq(Contexts)]

(* A turn has one context.                                                  *)
Distinct(cs) == \A i, j \in DOMAIN cs : cs[i].turn = cs[j].turn => i = j
Others(cs, t) == {c \in Codex!ToSet(cs) : c.turn # t}

(* The elements of a sequence that grows.                                   *)
LEMMA ElementsOfAppend ==
  ASSUME NEW X, NEW s \in Seq(X), NEW x \in X
  PROVE  Codex!ToSet(Append(s, x)) = Codex!ToSet(s) \cup {x}
<1>1. /\ DOMAIN Append(s, x) = 1..Len(s) + 1 /\ DOMAIN s = 1..Len(s)
      /\ Append(s, x)[Len(s) + 1] = x /\ Len(s) \in Nat
      /\ \A i \in 1..Len(s) : Append(s, x)[i] = s[i]
  OBVIOUS
<1> DEFINE a == Append(s, x)
<1> HIDE DEF a
<1>2. ASSUME NEW y \in Codex!ToSet(a) PROVE y \in Codex!ToSet(s) \cup {x}
  <2>1. PICK i \in 1..Len(s) + 1 : y = a[i]
    BY <1>1 DEF Codex!ToSet, a
  <2>2. i = Len(s) + 1 \/ i \in 1..Len(s)
    BY <1>1
  <2>3. QED
    BY <1>1, <2>1, <2>2 DEF Codex!ToSet, a
<1>3. ASSUME NEW y \in Codex!ToSet(s) PROVE y \in Codex!ToSet(a)
  <2>1. PICK i \in 1..Len(s) : y = s[i]
    BY <1>1 DEF Codex!ToSet
  <2>2. i \in 1..Len(s) + 1 /\ a[i] = y
    BY <1>1, <2>1 DEF a
  <2>3. QED
    BY <1>1, <2>2 DEF Codex!ToSet, a
<1>4. x \in Codex!ToSet(a)
  <2>1. Len(s) + 1 \in 1..Len(s) + 1 /\ a[Len(s) + 1] = x
    BY <1>1 DEF a
  <2>2. QED
    BY <1>1, <2>1 DEF Codex!ToSet, a
<1>5. QED
  BY <1>2, <1>3, <1>4 DEF a

(* A new turn at the end.                                                   *)
LEMMA DistinctAppend ==
  ASSUME NEW cs \in Seq(Contexts), Distinct(cs), NEW c \in Contexts,
         Codex!Of(cs, c.turn) = {}
  PROVE  Distinct(Append(cs, c))
<1>1. \A i \in DOMAIN cs : cs[i].turn # c.turn
  BY DEF Codex!Of
<1>2. /\ DOMAIN Append(cs, c) = 1..Len(cs) + 1 /\ DOMAIN cs = 1..Len(cs)
      /\ Append(cs, c)[Len(cs) + 1] = c /\ Len(cs) \in Nat
      /\ \A i \in 1..Len(cs) : Append(cs, c)[i] = cs[i]
  OBVIOUS
<1>3. \A i \in 1..Len(cs) + 1 : i = Len(cs) + 1 \/ i \in 1..Len(cs)
  BY <1>2
<1> DEFINE a == Append(cs, c)
<1> HIDE DEF a
<1>4. ASSUME NEW i \in DOMAIN a, NEW j \in DOMAIN a, a[i].turn = a[j].turn
      PROVE  i = j
  <2>1. CASE i \in 1..Len(cs) /\ j \in 1..Len(cs)
    BY <1>2, <1>4, <2>1 DEF Distinct, a
  <2>2. CASE i \in 1..Len(cs) /\ j = Len(cs) + 1
    BY <1>1, <1>2, <1>4, <2>2 DEF a
  <2>3. CASE j \in 1..Len(cs) /\ i = Len(cs) + 1
    BY <1>1, <1>2, <1>4, <2>3 DEF a
  <2>4. QED
    BY <1>2, <1>3, <2>1, <2>2, <2>3 DEF a
<1>5. QED
  BY <1>4 DEF Distinct, a

(* The oldest context is dropped.                                           *)
LEMMA TailFacts ==
  ASSUME NEW cs \in Seq(Contexts), Distinct(cs), cs # <<>>
  PROVE  /\ Tail(cs) \in Seq(Contexts) /\ Distinct(Tail(cs))
         /\ Codex!ToSet(Tail(cs)) \subseteq Codex!ToSet(cs)
<1> DEFINE r == Tail(cs)
<1>1. /\ r \in Seq(Contexts) /\ Len(cs) \in Nat /\ DOMAIN cs = 1..Len(cs)
      /\ DOMAIN r = 1..Len(cs) - 1
      /\ \A i \in 1..Len(cs) - 1 : r[i] = cs[i + 1] /\ i + 1 \in 1..Len(cs)
  BY HeadTailProperties
<1> HIDE DEF r
<1>2. Distinct(r)
  <2>1. ASSUME NEW i \in DOMAIN r, NEW j \in DOMAIN r, r[i].turn = r[j].turn
        PROVE  i = j
    <3>1. /\ i + 1 \in DOMAIN cs /\ j + 1 \in DOMAIN cs
          /\ cs[i + 1].turn = cs[j + 1].turn
      BY <1>1, <2>1
    <3>2. i + 1 = j + 1 /\ i \in Int /\ j \in Int
      BY <1>1, <3>1 DEF Distinct
    <3>3. QED
      BY <3>2
  <2>2. QED
    BY <2>1 DEF Distinct
<1>3. Codex!ToSet(r) \subseteq Codex!ToSet(cs)
  BY <1>1 DEF Codex!ToSet
<1>4. QED
  BY <1>1, <1>2, <1>3 DEF r

(* A sequence without one of its elements.                                  *)
LEMMA RemovedFacts ==
  ASSUME NEW X, NEW s \in Seq(X), NEW i \in DOMAIN s
  PROVE  LET r == Codex!RemoveAt(s, i) IN
         /\ r \in Seq(X) /\ DOMAIN r = 1..Len(s) - 1 /\ Len(s) \in Nat \ {0}
         /\ \A k \in 1..Len(s) - 1 : r[k] = IF k < i THEN s[k] ELSE s[k + 1]
<1> DEFINE a == SubSeq(s, 1, i - 1)
           b == SubSeq(s, i + 1, Len(s))
<1>1. Len(s) \in Nat \ {0} /\ DOMAIN s = 1..Len(s) /\ i \in 1..Len(s)
  OBVIOUS
<1>2. a \in Seq(X) /\ Len(a) = i - 1 /\ \A k \in 1..i - 1 : a[k] = s[k]
  BY <1>1
<1>3. b \in Seq(X) /\ Len(b) = Len(s) - i /\ \A k \in 1..Len(s) - i : b[k] = s[i + k]
  BY <1>1, SMTT(60)
<1> DEFINE r == a \o b
<1> HIDE DEF a, b
<1>4. /\ r \in Seq(X) /\ Len(r) = Len(s) - 1 /\ DOMAIN r = 1..Len(s) - 1
      /\ \A k \in 1..Len(s) - 1 : r[k] = IF k <= i - 1 THEN a[k] ELSE b[k - (i - 1)]
  <2>1. /\ r \in Seq(X) /\ Len(r) = Len(a) + Len(b)
        /\ \A k \in 1..Len(a) + Len(b) : r[k] = IF k <= Len(a) THEN a[k] ELSE b[k - Len(a)]
    BY <1>2, <1>3, ConcatProperties
  <2>2. Len(a) + Len(b) = Len(s) - 1 /\ Len(a) = i - 1
    BY <1>1, <1>2, <1>3
  <2> HIDE DEF r
  <2>3. DOMAIN r = 1..Len(r)
    BY <2>1
  <2>4. QED
    BY <2>1, <2>2, <2>3
<1>5. Codex!RemoveAt(s, i) = r
  BY DEF Codex!RemoveAt, a, b
<1> HIDE DEF r
<1>6. ASSUME NEW k \in 1..Len(s) - 1
      PROVE  r[k] = IF k < i THEN s[k] ELSE s[k + 1]
  <2>1. CASE k < i
    <3>1. k \in 1..i - 1 /\ k <= i - 1
      BY <1>1, <2>1
    <3>2. QED
      BY <1>2, <1>4, <2>1, <3>1
  <2>2. CASE ~(k < i)
    <3>1. k - (i - 1) \in 1..Len(s) - i /\ ~(k <= i - 1) /\ i + (k - (i - 1)) = k + 1
      BY <1>1, <2>2
    <3>2. r[k] = b[k - (i - 1)]
      BY <1>4, <3>1
    <3>3. b[k - (i - 1)] = s[i + (k - (i - 1))]
      BY <1>3, <3>1
    <3>4. QED
      BY <2>2, <3>1, <3>2, <3>3
  <2>3. QED
    BY <2>1, <2>2
<1>7. QED
  BY <1>1, <1>4, <1>5, <1>6

(* A turn that is over has no context any more, and no other has less.      *)
LEMMA WithoutFacts ==
  ASSUME NEW cs \in Seq(Contexts), Distinct(cs), NEW t
  PROVE  /\ Codex!Without(cs, t) \in Seq(Contexts) /\ Distinct(Codex!Without(cs, t))
         /\ Codex!ToSet(Codex!Without(cs, t)) = Others(cs, t)
<1>1. CASE Codex!Of(cs, t) = {}
  <2>1. Codex!Without(cs, t) = cs
    BY <1>1 DEF Codex!Without
  <2>2. \A i \in DOMAIN cs : cs[i].turn # t
    BY <1>1 DEF Codex!Of
  <2>3. Codex!ToSet(cs) = Others(cs, t)
    BY <2>2 DEF Codex!ToSet, Others
  <2>4. QED
    BY <2>1, <2>3
<1>2. CASE Codex!Of(cs, t) # {}
  <2> DEFINE i == CHOOSE k \in Codex!Of(cs, t) : TRUE
             r == Codex!RemoveAt(cs, i)
  <2>1. i \in DOMAIN cs /\ cs[i].turn = t
    BY <1>2 DEF Codex!Of
  <2>2. Codex!Without(cs, t) = r
    BY <1>2 DEF Codex!Without
  <2> HIDE DEF i
  <2>3. /\ r \in Seq(Contexts) /\ DOMAIN r = 1..Len(cs) - 1 /\ Len(cs) \in Nat \ {0}
        /\ \A k \in 1..Len(cs) - 1 : r[k] = IF k < i THEN cs[k] ELSE cs[k + 1]
    BY <2>1, RemovedFacts
  <2>4. DOMAIN cs = 1..Len(cs) /\ i \in 1..Len(cs)
    BY <2>1
  <2> HIDE DEF r
  <2>5. ASSUME NEW k \in DOMAIN r
        PROVE  LET m == IF k < i THEN k ELSE k + 1
               IN  m \in DOMAIN cs /\ m # i /\ r[k] = cs[m]
    BY <2>3, <2>4
  <2>6. Distinct(r)
    <3>1. ASSUME NEW k \in DOMAIN r, NEW m \in DOMAIN r, r[k].turn = r[m].turn
          PROVE  k = m
      <4>1. (IF k < i THEN k ELSE k + 1) = (IF m < i THEN m ELSE m + 1)
        BY <2>5, <3>1 DEF Distinct
      <4>2. QED
        BY <2>3, <2>4, <4>1
    <3>2. QED
      BY <3>1 DEF Distinct
  <2>7. Codex!ToSet(r) \subseteq Others(cs, t)
    <3>1. ASSUME NEW k \in DOMAIN r PROVE r[k] \in Codex!ToSet(cs) /\ r[k].turn # t
      BY <2>1, <2>5 DEF Distinct, Codex!ToSet
    <3>2. QED
      BY <3>1 DEF Codex!ToSet, Others
  <2>8. Others(cs, t) \subseteq Codex!ToSet(r)
    <3>1. ASSUME NEW m \in DOMAIN cs, cs[m].turn # t PROVE \E k \in DOMAIN r : r[k] = cs[m]
      <4>1. m # i /\ m \in 1..Len(cs)
        BY <2>1, <2>4, <3>1
      <4>2. CASE m < i
        <5>1. m \in 1..Len(cs) - 1
          BY <2>3, <2>4, <4>1, <4>2
        <5>2. QED
          BY <2>3, <4>2, <5>1
      <4>3. CASE ~(m < i)
        <5>1. m - 1 \in 1..Len(cs) - 1 /\ ~(m - 1 < i) /\ (m - 1) + 1 = m
          BY <2>3, <2>4, <4>1, <4>3
        <5>2. QED
          BY <2>3, <5>1
      <4>4. QED
        BY <4>2, <4>3
    <3>2. QED
      BY <3>1 DEF Codex!ToSet, Others
  <2>9. QED
    BY <2>2, <2>3, <2>6, <2>7, <2>8
<1>3. QED
  BY <1>1, <1>2

(* Turns are numbered.                                                      *)
LEMMA TurnNumbers == Turns \subseteq Int
BY ParserAssumption DEF Turns

(* As many contexts as turns.                                               *)
LEMMA AsManyTurns ==
  ASSUME NEW cs \in Seq(Contexts), Distinct(cs)
  PROVE  LET T == {c.turn : c \in Codex!ToSet(cs)} IN
         /\ IsFiniteSet(T) /\ Cardinality(T) = Len(cs)
         /\ IsFiniteSet(Codex!ToSet(cs)) /\ Cardinality(Codex!ToSet(cs)) = Len(cs)
<1> DEFINE n == Len(cs)
           T == {c.turn : c \in Codex!ToSet(cs)}
           C == Codex!ToSet(cs)
           f == [i \in 1..n |-> cs[i].turn]
           g == [i \in 1..n |-> cs[i]]
<1>1. n \in Nat /\ DOMAIN cs = 1..n
  OBVIOUS
<1>2. IsFiniteSet(1..n) /\ Cardinality(1..n) = n
  BY <1>1, FS_Interval, SMTT(60)
<1>3. f \in Surjection(1..n, T) /\ g \in Surjection(1..n, C)
  BY <1>1 DEF Surjection, Codex!ToSet
<1>4. f \in Injection(1..n, T) /\ g \in Injection(1..n, C)
  BY <1>1, <1>3 DEF Injection, IsInjective, Surjection, Distinct
<1> HIDE DEF f, g, T, C, n
<1>5. IsFiniteSet(T) /\ Cardinality(T) = n
  BY <1>2, <1>3, <1>4, FS_Surjection
<1>6. IsFiniteSet(C) /\ Cardinality(C) = n
  BY <1>2, <1>3, <1>4, FS_Surjection
<1>7. QED
  BY <1>5, <1>6 DEF n, T, C

(* The order in which a checkpoint has the contexts.                       *)
Sorted(s) == \A i, j \in DOMAIN s : i < j => s[i].turn < s[j].turn

(* Contexts can be put in the order of their turns.                         *)
LEMMA CanBeSorted ==
  ASSUME NEW cs \in Seq(Contexts), Distinct(cs)
  PROVE  \E s \in [DOMAIN cs -> Codex!ToSet(cs)] : Sorted(s)
<1> DEFINE n == Len(cs)
           Below(i) == {j \in 1..n : cs[j].turn <= cs[i].turn}
           R == [i \in 1..n |-> Cardinality(Below(i))]
<1>1. n \in Nat /\ DOMAIN cs = 1..n /\ \A i \in 1..n : cs[i].turn \in Int
  <2>1. n \in Nat /\ DOMAIN cs = 1..n /\ \A i \in 1..n : cs[i] \in Contexts
    OBVIOUS
  <2>2. QED
    BY <2>1, TurnNumbers DEF Contexts
<1>2. IsFiniteSet(1..n) /\ Cardinality(1..n) = n
  BY <1>1, FS_Interval, SMTT(60)
<1> HIDE DEF n
<1>3. \A i \in 1..n : IsFiniteSet(Below(i)) /\ Cardinality(Below(i)) \in Nat
  <2>1. \A i \in 1..n : Below(i) \in SUBSET (1..n)
    OBVIOUS
  <2>2. QED
    BY <1>2, <2>1, FS_Subset, FS_CardinalityType
<1>4. R \in [1..n -> 1..n]
  <2>1. ASSUME NEW i \in 1..n PROVE Cardinality(Below(i)) \in 1..n
    <3>1. Below(i) \in SUBSET (1..n) /\ i \in Below(i)
      BY <1>1
    <3>2. Cardinality(Below(i)) <= n /\ Cardinality(Below(i)) # 0
      <4> DEFINE B == Below(i)
      <4>1. B \in SUBSET (1..n) /\ IsFiniteSet(B) /\ B # {}
        BY <1>3, <3>1
      <4> HIDE DEF B
      <4>2. Cardinality(B) <= n
        BY <1>2, <4>1, FS_Subset, ZenonT(60)
      <4>3. Cardinality(B) # 0
        BY <4>1, FS_EmptySet
      <4>4. QED
        BY <4>2, <4>3 DEF B
    <3>3. Cardinality(Below(i)) \in Nat
      BY <1>3
    <3> DEFINE m == Cardinality(Below(i))
    <3> HIDE DEF m
    <3>4. m \in Nat /\ m <= n /\ m # 0
      BY <3>2, <3>3 DEF m
    <3>5. m \in 1..n
      BY <1>1, <3>4
    <3>6. QED
      BY <3>5 DEF m
  <2>2. QED
    BY <2>1
<1>5. \A i, j \in 1..n : cs[i].turn <= cs[j].turn => R[i] <= R[j]
  <2>1. ASSUME NEW i \in 1..n, NEW j \in 1..n, cs[i].turn <= cs[j].turn
        PROVE  R[i] <= R[j]
    <3>1. Below(i) \in SUBSET Below(j)
      BY <1>1, <2>1
    <3>2. QED
      BY <1>3, <3>1, FS_Subset
  <2>2. QED
    BY <2>1
<1>6. R \in Injection(1..n, 1..n)
  <2>1. ASSUME NEW i \in 1..n, NEW j \in 1..n, cs[i].turn < cs[j].turn
        PROVE  R[i] # R[j]
    <3>1. Below(i) \in SUBSET Below(j) /\ j \in Below(j) /\ j \notin Below(i)
      BY <1>1, <2>1
    <3>2. Below(i) # Below(j)
      BY <3>1
    <3>3. QED
      BY <1>3, <3>1, <3>2, FS_Subset
  <2>2. ASSUME NEW i \in 1..n, NEW j \in 1..n, R[i] = R[j]
        PROVE  i = j
    <3> HIDE DEF R
    <3>1. cs[i].turn = cs[j].turn
      BY <1>1, <2>1, <2>2
    <3>2. QED
      BY <1>1, <3>1 DEF Distinct
  <2> HIDE DEF R
  <2>3. QED
    BY <1>4, <2>2 DEF Injection, IsInjective
<1> HIDE DEF R
<1>7. \A k \in 1..n : \E i \in 1..n : R[i] = k
  <2>1. R \in Surjection(1..n, 1..n)
    BY <1>2, <1>6, FS_Injection
  <2>2. QED
    BY <2>1 DEF Surjection
<1> DEFINE At(k) == CHOOSE i \in 1..n : R[i] = k
           s == [k \in 1..n |-> cs[At(k)]]
<1>8. \A k \in 1..n : At(k) \in 1..n /\ R[At(k)] = k
  BY <1>7
<1> HIDE DEF At
<1>9. s \in [DOMAIN cs -> Codex!ToSet(cs)]
  BY <1>1, <1>8 DEF Codex!ToSet
<1>10. ASSUME NEW k \in 1..n, NEW m \in 1..n, k < m
       PROVE  s[k].turn < s[m].turn
  <2>1. ~(R[At(m)] <= R[At(k)])
    BY <1>8, <1>10
  <2>2. ~(cs[At(m)].turn <= cs[At(k)].turn)
    BY <1>5, <1>8, <2>1
  <2>3. QED
    BY <1>1, <1>8, <2>2
<1>11. Sorted(s)
  <2>1. DOMAIN s = 1..n
    OBVIOUS
  <2> HIDE DEF s
  <2>2. QED
    BY <1>10, <2>1 DEF Sorted
<1>12. QED
  BY <1>9, <1>11

(* Sorting neither loses a context nor makes one.                           *)
LEMMA SortedFacts ==
  ASSUME NEW cs \in Seq(Contexts), Distinct(cs)
  PROVE  /\ Codex!ByTurn(cs) \in Seq(Contexts) /\ Distinct(Codex!ByTurn(cs))
         /\ Codex!ToSet(Codex!ByTurn(cs)) = Codex!ToSet(cs)
<1> DEFINE s == Codex!ByTurn(cs)
           n == Len(cs)
           C == Codex!ToSet(cs)
<1>1. s \in [DOMAIN cs -> C] /\ Sorted(s)
  BY CanBeSorted DEF Codex!ByTurn, Sorted
<1>2. n \in Nat /\ DOMAIN cs = 1..n /\ C \subseteq Contexts
  BY DEF Codex!ToSet
<1>3. IsFiniteSet(C) /\ Cardinality(C) = n /\ IsFiniteSet(1..n) /\ Cardinality(1..n) = n
  <2>1. IsFiniteSet(C) /\ Cardinality(C) = n
    BY AsManyTurns
  <2>2. IsFiniteSet(1..n) /\ Cardinality(1..n) = n
    BY <1>2, FS_Interval, SMTT(60)
  <2>3. QED
    BY <2>1, <2>2
<1> HIDE DEF s, n, C
<1>4. s \in Seq(Contexts) /\ DOMAIN s = 1..n
  BY <1>1, <1>2
<1>5. Distinct(s)
  <2>1. ASSUME NEW i \in 1..n, NEW j \in 1..n, s[i].turn = s[j].turn
        PROVE  i = j
    <3>1. ~(s[i].turn < s[j].turn) /\ ~(s[j].turn < s[i].turn)
      <4>1. s[i] \in Contexts /\ s[j] \in Contexts
        BY <1>1, <1>2
      <4>2. s[i].turn \in Int
        BY <4>1, TurnNumbers DEF Contexts
      <4>3. QED
        BY <2>1, <4>2
    <3>2. ~(i < j) /\ ~(j < i)
      BY <1>1, <1>4, <3>1 DEF Sorted
    <3>3. QED
      BY <1>2, <3>2
  <2>2. QED
    BY <1>4, <2>1 DEF Distinct
<1>6. s \in Injection(1..n, C)
  BY <1>1, <1>2, <1>5 DEF Injection, IsInjective, Distinct
<1>7. s \in Surjection(1..n, C)
  BY <1>3, <1>6, FS_Injection
<1>8. Codex!ToSet(s) = C
  BY <1>1, <1>4, <1>7 DEF Surjection, Codex!ToSet
<1>9. QED
  BY <1>4, <1>5, <1>8 DEF s, C

Load(S) == Codex!SumFunction([c \in S |-> Weight(c)])

(* A blocked turn keeps one mark, or none does, if the mark does not fit.   *)
LEMMA BlockedFacts ==
  ASSUME NEW st \in States, Distinct(st.contexts), NEW t \in Turns
  PROVE  LET mark == [turn |-> t, session |-> st.session, cwd |-> NONE, model |-> NONE]
             all == Others(st.contexts, t) \cup {mark}
             b == Codex!Blocked(st, t)
         IN  /\ b \in States /\ Distinct(b.contexts)
             /\ b.session = st.session /\ b.meta = st.meta /\ b.records = st.records
             /\ Codex!ToSet(b.contexts) = IF Load(all) > MaxContext THEN {} ELSE all
<1> DEFINE cs == st.contexts
           mark == [turn |-> t, session |-> st.session, cwd |-> NONE, model |-> NONE]
           all == Others(cs, t) \cup {mark}
           new == IF Codex!Of(cs, t) = {} THEN Append(cs, mark)
                  ELSE [i \in DOMAIN cs |-> IF i \in Codex!Of(cs, t) THEN mark ELSE cs[i]]
           b == Codex!Blocked(st, t)
<1>1. cs \in Seq(Contexts) /\ mark \in Contexts /\ mark.turn = t /\ Distinct(cs)
  <2>1. cs \in Seq(Contexts) /\ st.session \in Sessions
    BY DEF States
  <2>2. mark \in Contexts
    BY <2>1 DEF Contexts
  <2>3. QED
    BY <2>1, <2>2
<1>2. b = [st EXCEPT !.contexts = IF Codex!Bytes(new) > MaxContext THEN <<>> ELSE new]
  BY DEF Codex!Blocked
<1> HIDE DEF mark, cs, b
<1>3. new \in Seq(Contexts) /\ Distinct(new) /\ Codex!ToSet(new) = all
  <2>1. CASE Codex!Of(cs, t) = {}
    <3>1. \A c \in Codex!ToSet(cs) : c.turn # t
      BY <2>1 DEF Codex!Of, Codex!ToSet
    <3>2. Others(cs, t) = Codex!ToSet(cs)
      BY <3>1 DEF Others
    <3>3. new = Append(cs, mark)
      BY <2>1
    <3>4. Append(cs, mark) \in Seq(Contexts) /\ Distinct(Append(cs, mark))
      BY <1>1, <2>1, DistinctAppend
    <3>5. Codex!ToSet(Append(cs, mark)) = Codex!ToSet(cs) \cup {mark}
      BY <1>1, ElementsOfAppend
    <3>6. QED
      BY <3>2, <3>3, <3>4, <3>5
  <2>2. CASE Codex!Of(cs, t) # {}
    <3> DEFINE f == [i \in DOMAIN cs |-> IF i \in Codex!Of(cs, t) THEN mark ELSE cs[i]]
    <3>1. new = f
      BY <2>2
    <3>2. f \in Seq(Contexts) /\ DOMAIN f = DOMAIN cs
      <4>1. /\ cs \in [1..Len(cs) -> Contexts] /\ Len(cs) \in Nat
            /\ DOMAIN cs = 1..Len(cs)
        BY <1>1
      <4>2. f \in [1..Len(cs) -> Contexts]
        BY <1>1, <4>1
      <4>3. QED
        BY <4>1, <4>2
    <3>3. \A i \in DOMAIN cs : f[i] = (IF cs[i].turn = t THEN mark ELSE cs[i])
                               /\ f[i].turn = cs[i].turn
      BY <1>1 DEF Codex!Of
    <3> HIDE DEF f
    <3>4. Distinct(f)
      BY <1>1, <3>2, <3>3 DEF Distinct
    <3>5. PICK k \in DOMAIN cs : cs[k].turn = t
      BY <2>2 DEF Codex!Of
    <3>6. Codex!ToSet(f) = all
      <4>1. ASSUME NEW i \in DOMAIN cs PROVE f[i] \in all
        BY <3>3 DEF Others, Codex!ToSet
      <4>2. ASSUME NEW c \in all PROVE \E i \in DOMAIN cs : f[i] = c
        <5>1. CASE c = mark
          BY <3>3, <3>5, <5>1
        <5>2. CASE c \in Others(cs, t)
          BY <3>3, <5>2 DEF Others, Codex!ToSet
        <5>3. QED
          BY <5>1, <5>2
      <4> HIDE DEF all
      <4>3. QED
        BY <3>2, <4>1, <4>2 DEF Codex!ToSet
    <3>7. QED
      BY <3>1, <3>2, <3>4, <3>6
  <2>3. QED
    BY <2>1, <2>2
<1> HIDE DEF new
<1>4. Codex!Bytes(new) = Load(all)
  BY <1>3 DEF Codex!Bytes, Load
<1>5. /\ <<>> \in Seq(Contexts) /\ Distinct(<<>>) /\ Codex!ToSet(<<>>) = {}
  BY DEF Distinct, Codex!ToSet
<1> HIDE DEF all
<1> DEFINE kept == IF Codex!Bytes(new) > MaxContext THEN <<>> ELSE new
<1>6. /\ kept \in Seq(Contexts) /\ Distinct(kept)
      /\ Codex!ToSet(kept) = IF Load(all) > MaxContext THEN {} ELSE all
  BY <1>3, <1>4, <1>5
<1> HIDE DEF kept
<1>7. b = [st EXCEPT !.contexts = kept]
  BY <1>2 DEF kept
<1>8. /\ b \in States /\ b.contexts = kept
      /\ b.session = st.session /\ b.meta = st.meta /\ b.records = st.records
  BY <1>6, <1>7 DEF States
<1>9. QED
  BY <1>6, <1>8 DEF b, all, mark, cs

(* What is kept of a line.                                                  *)
LEMMA LineFacts ==
  ASSUME NEW l \in LineSet
  PROVE  /\ l.size \in Nat \ {0}
         /\ l.type \in {"ignored", "unsafe", "meta", "context", "end"}
         /\ l.type = "context" => l.turn \in Turns
         /\ l.session \in Sessions /\ l.id \in Sessions
         /\ l.cwd \in {NONE} \cup {Lines[n].cwd : n \in DOMAIN Lines}
         /\ l.model \in {NONE} \cup {Lines[n].model : n \in DOMAIN Lines}
<1>1. PICK n \in DOMAIN Lines : l = Lines[n]
  BY DEF LineSet
<1>2. /\ l.size \in Nat \ {0}
      /\ l.type \in {"ignored", "unsafe", "meta", "context", "end"}
  BY <1>1, ParserAssumption
<1>3. l.type = "context" => l.turn \in Turns
  BY <1>1 DEF Turns
<1>4. l.session \in Sessions /\ l.id \in Sessions
  BY <1>1 DEF Sessions
<1>5. QED
  BY <1>1, <1>2, <1>3, <1>4

(* What decides what a state takes from a line: the session and the set of  *)
(* its contexts.                                                            *)
View(st) == [session |-> st.session, meta |-> st.meta, open |-> Codex!ToSet(st.contexts)]
NothingKnown == [session |-> NONE, meta |-> NONE, open |-> {}]

MarkOf(session, t) == [turn |-> t, session |-> session, cwd |-> NONE, model |-> NONE]
ContextOf(session, l) ==
  [turn |-> l.turn, session |-> session, cwd |-> l.cwd, model |-> l.model]

(* What each type of line makes of it.                                     *)
BlockedView(v, t) ==
  LET all == {d \in v.open : d.turn # t} \cup {MarkOf(v.session, t)}
  IN  [v EXCEPT !.open = IF Load(all) > MaxContext THEN {} ELSE all]

MetaView(v, l) ==
  LET session == IF l.session # NONE THEN l.session ELSE l.id
  IN  IF session # v.session
      THEN [session |-> session, meta |-> IF l.id # NONE THEN l.id ELSE session, open |-> {}]
      ELSE IF l.id \in {NONE, v.meta, v.session} THEN v ELSE NothingKnown

ContextView(v, l) ==
  LET c == ContextOf(v.session, l)
      known == {d \in v.open : d.turn = l.turn}
  IN  IF v.session = NONE THEN v
      ELSE IF l.cwd = NONE \/ \E d \in known : d # c THEN BlockedView(v, l.turn)
      ELSE IF known # {} THEN v
      ELSE IF Load(v.open \cup {c}) > MaxContext THEN NothingKnown
      ELSE [v EXCEPT !.open = @ \cup {c}]

EndView(v, l) == [v EXCEPT !.open = {d \in v.open : d.turn # l.turn}]

(* A dict of contexts that has the turn, or room for one more.              *)
HasRoom(st, l) ==
  l.type = "context" /\ l.size <= MaxRecord =>
    Codex!Of(st.contexts, l.turn) # {} \/ Len(st.contexts) < MaxRecords

(* What is forgotten.                                                       *)
LEMMA InvalidatedFacts ==
  ASSUME NEW st \in States
  PROVE  LET b == Codex!Invalidated(st) IN
         /\ b \in States /\ Distinct(b.contexts) /\ b.contexts = <<>>
         /\ b.records = st.records /\ View(b) = NothingKnown
<1> DEFINE b == Codex!Invalidated(st)
<1>1. b = [st EXCEPT !.session = NONE, !.meta = NONE, !.contexts = <<>>]
  BY DEF Codex!Invalidated
<1>2. NONE \in Sessions /\ <<>> \in Seq(Contexts) /\ Codex!ToSet(<<>>) = {}
  BY DEF Sessions, Codex!ToSet
<1> HIDE DEF b
<1>a. /\ b.session = NONE /\ b.meta = NONE /\ b.contexts = <<>> /\ b.records = st.records
      /\ b \in States
  BY <1>1, <1>2 DEF States
<1>3. View(b) = NothingKnown
  BY <1>2, <1>a DEF View, NothingKnown
<1>4. Distinct(b.contexts)
  BY <1>a DEF Distinct
<1>5. QED
  BY <1>a, <1>3, <1>4 DEF b

(* What a session line makes of a state.                                   *)
LEMMA MetaFacts ==
  ASSUME NEW st \in States, Distinct(st.contexts), NEW l \in LineSet
  PROVE  LET b == Codex!SessionMeta(st, l) IN
         /\ b \in States /\ Distinct(b.contexts) /\ b.records = st.records
         /\ View(b) = MetaView(View(st), l)
<1> DEFINE session == IF l.session # NONE THEN l.session ELSE l.id
           meta == IF l.id # NONE THEN l.id ELSE session
           b == Codex!SessionMeta(st, l)
<1>1. session \in Sessions /\ meta \in Sessions
  BY LineFacts
<1>2. b = IF session # st.session
          THEN [st EXCEPT !.contexts = <<>>, !.session = session, !.meta = meta]
          ELSE IF l.id \in {NONE, st.meta, st.session} THEN st ELSE Codex!Invalidated(st)
  BY DEF Codex!SessionMeta
<1>3. MetaView(View(st), l) =
        IF session # st.session THEN [session |-> session, meta |-> meta, open |-> {}]
        ELSE IF l.id \in {NONE, st.meta, st.session} THEN View(st) ELSE NothingKnown
  BY DEF MetaView, View
<1> HIDE DEF session, meta, b
<1>4. CASE session # st.session
  <2>1. b = [st EXCEPT !.contexts = <<>>, !.session = session, !.meta = meta]
    BY <1>2, <1>4
  <2>2. /\ b \in States /\ b.contexts = <<>> /\ b.records = st.records
        /\ b.session = session /\ b.meta = meta
    <3>1. <<>> \in Seq(Contexts)
      OBVIOUS
    <3>2. QED
      BY <1>1, <2>1, <3>1 DEF States
  <2>3. Distinct(b.contexts) /\ Codex!ToSet(b.contexts) = {}
    BY <2>2 DEF Distinct, Codex!ToSet
  <2>4. QED
    BY <1>3, <1>4, <2>2, <2>3 DEF View, b
<1>5. CASE session = st.session /\ l.id \in {NONE, st.meta, st.session}
  BY <1>2, <1>3, <1>5 DEF b
<1>6. CASE session = st.session /\ l.id \notin {NONE, st.meta, st.session}
  BY <1>2, <1>3, <1>6, InvalidatedFacts DEF b
<1>7. QED
  BY <1>4, <1>5, <1>6

(* What the end of a turn makes of a state: a record, if the turn has a    *)
(* context that is not blocked and the line is one that is captured.       *)
LEMMA EndFacts ==
  ASSUME NEW st \in States, Distinct(st.contexts), NEW l \in LineSet
  PROVE  LET b == Codex!TurnEnd(st, l)
             made == {c \in Codex!ToSet(st.contexts) :
                        c.turn = l.turn /\ c.cwd # NONE /\ l.captured}
         IN  /\ b \in States /\ Distinct(b.contexts)
             /\ View(b) = EndView(View(st), l)
             /\ b.records = IF made = {} THEN st.records
                            ELSE Append(st.records, CHOOSE c \in made : TRUE)
<1> DEFINE b == Codex!TurnEnd(st, l)
           made == {c \in Codex!ToSet(st.contexts) :
                      c.turn = l.turn /\ c.cwd # NONE /\ l.captured}
           rs == IF made = {} THEN st.records
                 ELSE Append(st.records, CHOOSE c \in made : TRUE)
           cs == Codex!Without(st.contexts, l.turn)
<1>1. b = [st EXCEPT !.contexts = cs, !.records = rs]
  BY DEF Codex!TurnEnd
<1>2. st.contexts \in Seq(Contexts) /\ st.records \in Seq(Contexts)
  BY DEF States
<1>3. /\ cs \in Seq(Contexts) /\ Distinct(cs)
      /\ Codex!ToSet(cs) = Others(st.contexts, l.turn)
  BY <1>2, WithoutFacts
<1>4. made \subseteq Contexts
  BY <1>2 DEF Codex!ToSet
<1> HIDE DEF made, cs
<1>5. rs \in Seq(Contexts)
  <2>1. made # {} => (CHOOSE c \in made : TRUE) \in Contexts
    BY <1>4
  <2>2. QED
    BY <1>2, <2>1
<1> HIDE DEF rs, b
<1>6. /\ b \in States /\ b.contexts = cs /\ b.records = rs
      /\ b.session = st.session /\ b.meta = st.meta
  BY <1>1, <1>3, <1>5 DEF States
<1>7. View(b) = EndView(View(st), l)
  <2> DEFINE rest == Others(st.contexts, l.turn)
  <2>1. EndView(View(st), l) = [session |-> st.session, meta |-> st.meta, open |-> rest]
    <3> DEFINE open == {d \in View(st).open : d.turn # l.turn}
    <3>1. open = rest
      BY DEF View, Others
    <3>2. EndView(View(st), l) = [View(st) EXCEPT !.open = open]
      BY DEF EndView
    <3> HIDE DEF open, rest
    <3>3. QED
      BY <3>1, <3>2 DEF View
  <2>2. Codex!ToSet(b.contexts) = rest
    BY <1>3, <1>6
  <2> HIDE DEF rest
  <2>3. QED
    BY <1>6, <2>1, <2>2 DEF View
<1>8. QED
  BY <1>3, <1>6, <1>7 DEF b, rs, made

(* What a context line makes of a state.  Where the dict has no room for   *)
(* one more turn, its oldest goes.                                         *)
LEMMA ContextFacts ==
  ASSUME NEW st \in States, Distinct(st.contexts), NEW l \in LineSet,
         l.type = "context", l.size <= MaxRecord
  PROVE  LET b == Codex!TurnContext(st, l)
             c == ContextOf(st.session, l)
         IN  /\ b \in States /\ Distinct(b.contexts) /\ b.records = st.records
             /\ HasRoom(st, l) => View(b) = ContextView(View(st), l)
             /\ \/ View(b) = ContextView(View(st), l)
                \/ /\ View(b) = NothingKnown
                \/ /\ b.session = st.session /\ b.meta = st.meta
                   /\ st.session # NONE /\ l.cwd # NONE
                   /\ \A d \in Codex!ToSet(st.contexts) : d.turn # l.turn
                   /\ Codex!ToSet(b.contexts) \subseteq Codex!ToSet(st.contexts) \cup {c}
<1> DEFINE b == Codex!TurnContext(st, l)
           c == ContextOf(st.session, l)
           cs == st.contexts
           kept == IF Len(cs) >= MaxRecords THEN Tail(cs) ELSE cs
           known == Codex!Of(cs, l.turn)
           C == Codex!ToSet(cs)
           K == {d \in C : d.turn = l.turn}
           more == Append(kept, c)
<1>1. /\ cs \in Seq(Contexts) /\ Len(cs) \in Nat /\ st.session \in Sessions
      /\ l.turn \in Turns /\ MaxRecords \in Nat \ {0}
  BY LineFacts, ParserAssumption DEF States
<1>2. c \in Contexts /\ c.turn = l.turn
  BY <1>1, LineFacts DEF Contexts, ContextOf
<1>3. /\ (known # {}) <=> (K # {})
      /\ (\A i \in known : cs[i] = c) <=> (\A d \in K : d = c)
  BY DEF Codex!Of, Codex!ToSet
<1>4. CASE st.session = NONE
  <2>1. b = st
    BY <1>4 DEF Codex!TurnContext
  <2>2. ContextView(View(st), l) = View(st)
    BY <1>4 DEF ContextView, View
  <2>3. QED
    BY <2>1, <2>2
<1>5. CASE st.session # NONE /\ (l.cwd = NONE \/ \E d \in K : d # c)
  <2>1. b = Codex!Blocked(st, l.turn)
    <3>1. CASE l.cwd = NONE
      BY <1>5, <3>1 DEF Codex!TurnContext
    <3>2. CASE l.cwd # NONE
      <4>1. known # {} /\ ~(\A i \in known : cs[i] = c)
        BY <1>3, <1>5, <3>2
      <4>2. QED
        BY <1>5, <3>2, <4>1 DEF Codex!TurnContext, ContextOf
    <3>3. QED
      BY <3>1, <3>2
  <2>2. ContextView(View(st), l) = BlockedView(View(st), l.turn)
    BY <1>5 DEF ContextView, View
  <2>3. /\ b \in States /\ Distinct(b.contexts) /\ b.records = st.records
        /\ View(b) = BlockedView(View(st), l.turn)
    <3> DEFINE all == Others(cs, l.turn) \cup {MarkOf(st.session, l.turn)}
    <3>1. /\ b \in States /\ Distinct(b.contexts)
          /\ b.session = st.session /\ b.meta = st.meta /\ b.records = st.records
          /\ Codex!ToSet(b.contexts) = IF Load(all) > MaxContext THEN {} ELSE all
      BY <1>1, <2>1, BlockedFacts, ZenonT(60) DEF MarkOf
    <3>2. QED
      BY <3>1 DEF View, BlockedView, Others
  <2>4. QED
    BY <2>2, <2>3
<1>6. CASE st.session # NONE /\ l.cwd # NONE /\ K # {} /\ \A d \in K : d = c
  <2>1. b = st
    BY <1>3, <1>6 DEF Codex!TurnContext, ContextOf
  <2>2. ContextView(View(st), l) = View(st)
    BY <1>6 DEF ContextView, View
  <2>3. QED
    BY <2>1, <2>2
<1>7. CASE st.session # NONE /\ l.cwd # NONE /\ K = {}
  <2>1. b = IF Codex!Bytes(more) > MaxContext THEN Codex!Invalidated(st)
            ELSE [st EXCEPT !.contexts = more]
    BY <1>3, <1>7 DEF Codex!TurnContext, ContextOf
  <2>2. /\ kept \in Seq(Contexts) /\ Distinct(kept)
        /\ Codex!ToSet(kept) \subseteq C
    <3>1. CASE Len(cs) >= MaxRecords
      <4>1. cs # <<>>
        BY <1>1, <3>1
      <4>2. QED
        BY <1>1, <3>1, <4>1, TailFacts
    <3>2. CASE ~(Len(cs) >= MaxRecords)
      BY <1>1, <3>2
    <3>3. QED
      BY <3>1, <3>2
  <2>3. HasRoom(st, l) => kept = cs
    <3>1. ASSUME HasRoom(st, l) PROVE Len(cs) < MaxRecords
      BY <1>3, <1>7, <3>1 DEF HasRoom
    <3>2. QED
      BY <1>1, <3>1
  <2> HIDE DEF kept
  <2>4. Codex!Of(kept, c.turn) = {}
    BY <1>2, <1>7, <2>2 DEF Codex!Of, Codex!ToSet
  <2>5. more \in Seq(Contexts) /\ Distinct(more)
    BY <1>2, <2>2, <2>4, DistinctAppend
  <2>6. Codex!ToSet(more) = Codex!ToSet(kept) \cup {c}
    BY <1>2, <2>2, ElementsOfAppend
  <2>7. Codex!Bytes(more) = Load(Codex!ToSet(more))
    BY DEF Codex!Bytes, Load
  <2> HIDE DEF more, b
  <2>8. ContextView(View(st), l) =
          IF Load(C \cup {c}) > MaxContext THEN NothingKnown
          ELSE [View(st) EXCEPT !.open = C \cup {c}]
    BY <1>7 DEF ContextView, View
  <2> HIDE DEF c
  <2>9. CASE Codex!Bytes(more) > MaxContext
    <3>1. b = Codex!Invalidated(st)
      BY <2>1, <2>9
    <3>2. /\ b \in States /\ Distinct(b.contexts) /\ b.records = st.records
          /\ View(b) = NothingKnown
      BY <3>1, InvalidatedFacts
    <3>3. HasRoom(st, l) => ContextView(View(st), l) = NothingKnown
      BY <2>3, <2>6, <2>7, <2>8, <2>9
    <3>4. QED
      BY <3>2, <3>3 DEF b
  <2>10. CASE ~(Codex!Bytes(more) > MaxContext)
    <3>1. b = [st EXCEPT !.contexts = more]
      BY <2>1, <2>10
    <3>2. /\ b \in States /\ b.contexts = more /\ b.records = st.records
          /\ b.session = st.session /\ b.meta = st.meta
      BY <2>5, <3>1 DEF States
    <3>3. HasRoom(st, l) => View(b) = ContextView(View(st), l)
      <4>1. ASSUME HasRoom(st, l)
            PROVE  View(b) = [View(st) EXCEPT !.open = C \cup {c}]
        BY <2>3, <2>6, <3>2, <4>1 DEF View
      <4>2. HasRoom(st, l) => ~(Load(C \cup {c}) > MaxContext)
        BY <2>3, <2>6, <2>7, <2>10
      <4>3. QED
        BY <2>8, <4>1, <4>2
    <3>4. Codex!ToSet(b.contexts) \subseteq C \cup {c}
      BY <2>2, <2>6, <3>2
    <3>5. \A d \in C : d.turn # l.turn
      BY <1>7
    <3>6. QED
      BY <1>7, <2>5, <3>2, <3>3, <3>4, <3>5 DEF b, c
  <2>11. QED
    BY <2>9, <2>10
<1>8. QED
  BY <1>4, <1>5, <1>6, <1>7

(* What a line makes of a state.                                            *)
LineView(v, l) ==
  IF l.size > MaxRecord
  THEN IF l.type = "ignored" /\ l.size <= MaxNonsemantic THEN v ELSE NothingKnown
  ELSE IF l.type = "ignored" THEN v
  ELSE IF l.type = "unsafe" THEN NothingKnown
  ELSE IF l.type = "meta" THEN MetaView(v, l)
  ELSE IF l.type = "context" THEN ContextView(v, l)
  ELSE EndView(v, l)

(* The contexts that the end of a turn makes records of, and the records.  *)
Made(open, l) == {c \in open : c.turn = l.turn /\ c.cwd # NONE /\ l.captured}
Recorded(rs, open, l) ==
  IF l.size <= MaxRecord /\ l.type = "end" /\ Made(open, l) # {}
  THEN Append(rs, CHOOSE c \in Made(open, l) : TRUE) ELSE rs

(* What a line makes of a state, by its size and type.                     *)
LEMMA ProcessFacts ==
  ASSUME NEW st \in States, Distinct(st.contexts), NEW l \in LineSet
  PROVE  LET b == Codex!ProcessLine(st, l) IN
         /\ b \in States /\ Distinct(b.contexts)
         /\ b.records = Recorded(st.records, View(st).open, l)
         /\ HasRoom(st, l) => View(b) = LineView(View(st), l)
         /\ l.type # "context" \/ l.size > MaxRecord => View(b) = LineView(View(st), l)
         /\ l.type = "context" /\ l.size <= MaxRecord => b = Codex!TurnContext(st, l)
<1> DEFINE b == Codex!ProcessLine(st, l)
<1>1. /\ l.size \in Nat /\ MaxRecord \in Nat /\ View(st).open = Codex!ToSet(st.contexts)
      /\ l.type \in {"ignored", "unsafe", "meta", "context", "end"}
  BY LineFacts, ParserAssumption DEF View
<1>2. CASE l.size > MaxRecord
  <2>1. b = IF l.type = "ignored" /\ l.size <= MaxNonsemantic THEN st
            ELSE Codex!Invalidated(st)
    BY <1>2 DEF Codex!ProcessLine
  <2>2. /\ LineView(View(st), l) =
             IF l.type = "ignored" /\ l.size <= MaxNonsemantic THEN View(st)
             ELSE NothingKnown
        /\ Recorded(st.records, View(st).open, l) = st.records
    BY <1>1, <1>2 DEF LineView, Recorded
  <2>3. CASE l.type = "ignored" /\ l.size <= MaxNonsemantic
    BY <1>1, <1>2, <2>1, <2>2, <2>3
  <2>4. CASE ~(l.type = "ignored" /\ l.size <= MaxNonsemantic)
    BY <1>1, <1>2, <2>1, <2>2, <2>4, InvalidatedFacts
  <2>5. QED
    BY <2>3, <2>4
<1>3. CASE l.size <= MaxRecord /\ l.type = "ignored"
  <2>1. b = st
    BY <1>1, <1>3 DEF Codex!ProcessLine, Codex!ProcessRecord
  <2>2. /\ LineView(View(st), l) = View(st)
        /\ Recorded(st.records, View(st).open, l) = st.records
    BY <1>1, <1>3 DEF LineView, Recorded
  <2>3. QED
    BY <1>3, <2>1, <2>2
<1>4. CASE l.size <= MaxRecord /\ l.type = "unsafe"
  <2>1. b = Codex!Invalidated(st)
    BY <1>1, <1>4 DEF Codex!ProcessLine, Codex!ProcessRecord
  <2>2. /\ LineView(View(st), l) = NothingKnown
        /\ Recorded(st.records, View(st).open, l) = st.records
    BY <1>1, <1>4 DEF LineView, Recorded
  <2>3. QED
    BY <1>4, <2>1, <2>2, InvalidatedFacts
<1>5. CASE l.size <= MaxRecord /\ l.type = "meta"
  <2>1. b = Codex!SessionMeta(st, l)
    BY <1>1, <1>5 DEF Codex!ProcessLine, Codex!ProcessRecord
  <2>2. /\ LineView(View(st), l) = MetaView(View(st), l)
        /\ Recorded(st.records, View(st).open, l) = st.records
    BY <1>1, <1>5 DEF LineView, Recorded
  <2>3. QED
    BY <1>5, <2>1, <2>2, MetaFacts
<1>6. CASE l.size <= MaxRecord /\ l.type = "context"
  <2>1. b = Codex!TurnContext(st, l)
    BY <1>1, <1>6 DEF Codex!ProcessLine, Codex!ProcessRecord
  <2>2. /\ LineView(View(st), l) = ContextView(View(st), l)
        /\ Recorded(st.records, View(st).open, l) = st.records
    BY <1>1, <1>6 DEF LineView, Recorded
  <2>3. /\ b \in States /\ Distinct(b.contexts) /\ b.records = st.records
        /\ HasRoom(st, l) => View(b) = ContextView(View(st), l)
    BY <1>6, <2>1, ContextFacts
  <2>4. ~(l.size > MaxRecord)
    BY <1>1, <1>6
  <2>5. QED
    BY <1>6, <2>1, <2>2, <2>3, <2>4
<1>7. CASE l.size <= MaxRecord /\ l.type = "end"
  <2>1. b = Codex!TurnEnd(st, l)
    BY <1>1, <1>7 DEF Codex!ProcessLine, Codex!ProcessRecord
  <2>2. LineView(View(st), l) = EndView(View(st), l)
    BY <1>1, <1>7 DEF LineView
  <2>3. Recorded(st.records, View(st).open, l) =
          IF Made(Codex!ToSet(st.contexts), l) = {} THEN st.records
          ELSE Append(st.records, CHOOSE c \in Made(Codex!ToSet(st.contexts), l) : TRUE)
    BY <1>1, <1>7 DEF Recorded
  <2>4. /\ b \in States /\ Distinct(b.contexts) /\ View(b) = EndView(View(st), l)
        /\ b.records =
             IF Made(Codex!ToSet(st.contexts), l) = {} THEN st.records
             ELSE Append(st.records, CHOOSE c \in Made(Codex!ToSet(st.contexts), l) : TRUE)
    BY <2>1, EndFacts DEF Made
  <2>5. QED
    BY <1>7, <2>2, <2>3, <2>4
<1>8. QED
  BY <1>1, <1>2, <1>3, <1>4, <1>5, <1>6, <1>7

-----------------------------------------------------------------------------
(* Where a context comes from.                                              *)

TurnsOf(ls) ==
  {l.turn : l \in {k \in Codex!ToSet(ls) : k.type = "context" /\ k.size <= MaxRecord}}

(* What line k has nothing against.                                         *)
Leaves(l, c) ==
  /\ ~Codex!Breaks(l, c.turn)
  /\ l.type = "context" /\ l.turn = c.turn => l.cwd = c.cwd /\ l.model = c.model
  /\ l.type = "meta" => c.session \in {l.session, l.id}

(* What line l states.  A context is open since a line gave it and none    *)
(* after was against it, and closed by the end of its turn.                *)
Gives(l, c) == l.type = "context" /\ l.turn = c.turn /\ l.cwd = c.cwd /\ l.model = c.model

OpenSince(ls, c) ==
  \E j \in DOMAIN ls : Gives(ls[j], c) /\ \A k \in j + 1..Len(ls) : Leaves(ls[k], c)
ClosedIn(ls, c) ==
  \E i, j \in DOMAIN ls :
    /\ j < i /\ ls[i].type = "end" /\ ls[i].turn = c.turn /\ ls[i].captured
    /\ Gives(ls[j], c) /\ \A k \in j + 1..i - 1 : Leaves(ls[k], c)

(* The lines ls and l are those of ls and then l.                          *)
Grown(ls, l) ==
  /\ DOMAIN ls = 1..Len(ls) /\ Len(ls) \in Nat /\ Len(Append(ls, l)) = Len(ls) + 1
  /\ DOMAIN Append(ls, l) = 1..Len(ls) + 1
  /\ Append(ls, l)[Len(ls) + 1] = l
  /\ \A i \in 1..Len(ls) : Append(ls, l)[i] = ls[i]

(* The lines of a sequence that grows.                                     *)
LEMMA GrownFacts ==
  ASSUME NEW ls \in Seq(LineSet), NEW l \in LineSet
  PROVE  Grown(ls, l)
BY DEF Grown

(* A line that is not against a context leaves it open.                     *)
LEMMA StaysOpen ==
  ASSUME NEW ls \in Seq(LineSet), NEW l \in LineSet, NEW c,
         OpenSince(ls, c), Leaves(l, c)
  PROVE  OpenSince(Append(ls, l), c)
<1> DEFINE t == Append(ls, l)
<1>1. /\ DOMAIN ls = 1..Len(ls) /\ Len(ls) \in Nat /\ Len(t) = Len(ls) + 1
      /\ DOMAIN t = 1..Len(ls) + 1 /\ t[Len(ls) + 1] = l
      /\ \A i \in 1..Len(ls) : t[i] = ls[i]
  BY GrownFacts DEF Grown
<1> HIDE DEF t
<1>2. PICK j \in DOMAIN ls : Gives(ls[j], c) /\ \A k \in j + 1..Len(ls) : Leaves(ls[k], c)
  BY DEF OpenSince
<1>3. j \in DOMAIN t /\ Gives(t[j], c)
  BY <1>1, <1>2
<1>4. ASSUME NEW k \in j + 1..Len(t) PROVE Leaves(t[k], c)
  <2>1. k = Len(ls) + 1 \/ k \in j + 1..Len(ls)
    BY <1>1
  <2>2. CASE k = Len(ls) + 1
    BY <1>1, <2>2
  <2>3. CASE k \in j + 1..Len(ls)
    <3>1. k \in 1..Len(ls)
      BY <1>1, <1>2, <2>3
    <3>2. QED
      BY <1>1, <1>2, <2>3, <3>1
  <2>4. QED
    BY <2>1, <2>2, <2>3
<1>5. QED
  BY <1>3, <1>4 DEF OpenSince, t

(* A line opens the context that it states.                                 *)
LEMMA OpensNow ==
  ASSUME NEW ls \in Seq(LineSet), NEW l \in LineSet, NEW c, Gives(l, c)
  PROVE  OpenSince(Append(ls, l), c)
<1> DEFINE t == Append(ls, l)
           j == Len(ls) + 1
<1>1. /\ Len(ls) \in Nat /\ Len(t) = j /\ j \in DOMAIN t /\ t[j] = l
  BY GrownFacts DEF Grown
<1>2. \A k \in j + 1..Len(t) : FALSE
  BY <1>1
<1> HIDE DEF t, j
<1>3. QED
  BY <1>1, <1>2 DEF OpenSince, t

(* A completion closes the context that is open.                            *)
LEMMA ClosesNow ==
  ASSUME NEW ls \in Seq(LineSet), NEW l \in LineSet, NEW c, OpenSince(ls, c),
         l.type = "end", l.turn = c.turn, l.captured
  PROVE  ClosedIn(Append(ls, l), c)
<1> DEFINE t == Append(ls, l)
           i == Len(ls) + 1
<1>1. /\ DOMAIN ls = 1..Len(ls) /\ Len(ls) \in Nat
      /\ i \in DOMAIN t /\ t[i] = l
      /\ \A k \in 1..Len(ls) : k \in DOMAIN t /\ t[k] = ls[k]
  BY GrownFacts DEF Grown
<1> HIDE DEF t
<1>2. PICK j \in DOMAIN ls : Gives(ls[j], c) /\ \A k \in j + 1..Len(ls) : Leaves(ls[k], c)
  BY DEF OpenSince
<1>3. j \in DOMAIN t /\ Gives(t[j], c) /\ j < i
  BY <1>1, <1>2
<1>4. ASSUME NEW k \in j + 1..i - 1 PROVE Leaves(t[k], c)
  <2>1. k \in j + 1..Len(ls) /\ k \in 1..Len(ls)
    BY <1>1, <1>2
  <2>2. QED
    BY <1>1, <1>2, <2>1
<1> HIDE DEF i
<1>5. QED
  BY <1>1, <1>3, <1>4 DEF ClosedIn, t

(* What is closed stays closed.                                             *)
LEMMA StaysClosed ==
  ASSUME NEW ls \in Seq(LineSet), NEW l \in LineSet, NEW c, ClosedIn(ls, c)
  PROVE  ClosedIn(Append(ls, l), c)
<1> DEFINE t == Append(ls, l)
<1>1. /\ DOMAIN ls = 1..Len(ls) /\ Len(ls) \in Nat
      /\ \A k \in 1..Len(ls) : k \in DOMAIN t /\ t[k] = ls[k]
  BY GrownFacts DEF Grown
<1> HIDE DEF t
<1>2. PICK i \in DOMAIN ls, j \in DOMAIN ls :
        /\ j < i /\ ls[i].type = "end" /\ ls[i].turn = c.turn /\ ls[i].captured
        /\ Gives(ls[j], c) /\ \A k \in j + 1..i - 1 : Leaves(ls[k], c)
  BY DEF ClosedIn
<1>3. /\ i \in DOMAIN t /\ j \in DOMAIN t /\ t[i] = ls[i] /\ t[j] = ls[j]
  BY <1>1
<1>4. ASSUME NEW k \in j + 1..i - 1 PROVE Leaves(t[k], c)
  <2>1. k \in 1..Len(ls)
    BY <1>1, <1>2
  <2>2. QED
    BY <1>1, <1>2, <2>1
<1>5. QED
  BY <1>2, <1>3, <1>4 DEF ClosedIn, t

(* The turns that lines give contexts of.                                   *)
LEMMA TurnsGrow ==
  ASSUME NEW ls \in Seq(LineSet), NEW l \in LineSet
  PROVE  /\ TurnsOf(ls) \subseteq TurnsOf(Append(ls, l))
         /\ l.type = "context" /\ l.size <= MaxRecord => l.turn \in TurnsOf(Append(ls, l))
BY ElementsOfAppend DEF TurnsOf

(* A file has finitely many turns.                                         *)
LEMMA FiniteTurns ==
  ASSUME NEW ls \in Seq(LineSet)
  PROVE  IsFiniteSet(TurnsOf(ls)) /\ Cardinality(TurnsOf(ls)) \in Nat
<1> DEFINE n == Len(ls)
           R == {ls[i].turn : i \in 1..n}
           f == [i \in 1..n |-> ls[i].turn]
<1>1. n \in Nat /\ DOMAIN ls = 1..n
  OBVIOUS
<1>2. IsFiniteSet(1..n)
  BY <1>1, FS_Interval
<1>3. f \in Surjection(1..n, R)
  BY DEF Surjection
<1>4. TurnsOf(ls) \in SUBSET R
  BY <1>1 DEF TurnsOf, Codex!ToSet
<1> HIDE DEF f, R
<1>5. IsFiniteSet(R)
  BY <1>2, <1>3, FS_Surjection
<1>6. QED
  BY <1>4, <1>5, FS_Subset, FS_CardinalityType

(* A file with too many turns keeps having too many.                       *)
LEMMA StaysCrowded ==
  ASSUME NEW ls \in Seq(LineSet), NEW l \in LineSet, Codex!Crowded(ls)
  PROVE  Codex!Crowded(Append(ls, l))
<1> DEFINE t == Append(ls, l)
<1>1. t \in Seq(LineSet) /\ TurnsOf(ls) \in SUBSET TurnsOf(t)
  BY TurnsGrow
<1> HIDE DEF t
<1>2. Cardinality(TurnsOf(ls)) <= Cardinality(TurnsOf(t))
  BY <1>1, FiniteTurns, FS_Subset
<1>3. /\ Cardinality(TurnsOf(ls)) \in Nat /\ Cardinality(TurnsOf(t)) \in Nat
      /\ MaxRecords \in Nat
  BY <1>1, FiniteTurns, ParserAssumption
<1>4. Cardinality(TurnsOf(ls)) > MaxRecords
  BY DEF Codex!Crowded, TurnsOf, Codex!Cardinality, Cardinality
<1>5. Cardinality(TurnsOf(t)) > MaxRecords
  BY <1>2, <1>3, <1>4
<1>6. QED
  BY <1>5 DEF Codex!Crowded, TurnsOf, t, Codex!Cardinality, Cardinality

(* A state after the lines ls: its contexts are of the session, and each    *)
(* that is not blocked was given by one of the lines and never contradicted.*)
Good(ls, st) ==
  /\ st \in States /\ Distinct(st.contexts)
  /\ st.session = NONE => View(st).open = {}
  /\ \A c \in View(st).open :
       /\ c.session = st.session /\ c.turn \in TurnsOf(ls)
       /\ c.cwd # NONE => OpenSince(ls, c)

(* Records are of contexts that were open until the end of their turn.     *)
Honest(ls, rs) == \A r \in Codex!ToSet(rs) : ClosedIn(ls, r)

(* A state without contexts is good.                                       *)
LEMMA GoodWhenEmpty ==
  ASSUME NEW ls, NEW st \in States, Distinct(st.contexts), View(st).open = {}
  PROVE  Good(ls, st)
BY DEF Good

(* So is one that lost some contexts to a line with nothing against the    *)
(* rest.                                                                   *)
LEMMA GoodWhenKept ==
  ASSUME NEW ls \in Seq(LineSet), NEW l \in LineSet, NEW st, Good(ls, st),
         NEW b \in States, Distinct(b.contexts), b.session = st.session,
         View(b).open \subseteq View(st).open,
         \A c \in View(b).open : c.cwd # NONE => Leaves(l, c)
  PROVE  Good(Append(ls, l), b)
<1>1. ASSUME NEW c \in View(b).open
      PROVE  /\ c.session = b.session /\ c.turn \in TurnsOf(Append(ls, l))
             /\ c.cwd # NONE => OpenSince(Append(ls, l), c)
  <2>1. /\ c \in View(st).open /\ c.session = st.session /\ c.turn \in TurnsOf(ls)
        /\ c.cwd # NONE => OpenSince(ls, c)
    BY DEF Good
  <2>2. c.turn \in TurnsOf(Append(ls, l))
    BY <2>1, TurnsGrow
  <2>3. c.cwd # NONE => OpenSince(Append(ls, l), c)
    BY <2>1, StaysOpen
  <2>4. QED
    BY <2>1, <2>2, <2>3
<1>2. b.session = NONE => View(b).open = {}
  BY DEF Good
<1>3. QED
  BY <1>1, <1>2 DEF Good

(* A context line keeps a state good.                                       *)
LEMMA GoodAfterContext ==
  ASSUME NEW ls \in Seq(LineSet), NEW l \in LineSet, NEW st, Good(ls, st),
         l.type = "context", l.size <= MaxRecord
  PROVE  Good(Append(ls, l), Codex!TurnContext(st, l))
<1> DEFINE b == Codex!TurnContext(st, l)
           c == ContextOf(st.session, l)
           C == View(st).open
           v == View(st)
           w == View(b)
<1>1. st \in States /\ Distinct(st.contexts)
  BY DEF Good
<1>2. /\ b \in States /\ Distinct(b.contexts)
      /\ \/ w = ContextView(v, l)
         \/ w = NothingKnown
         \/ /\ b.session = st.session /\ st.session # NONE /\ l.cwd # NONE
            /\ \A d \in C : d.turn # l.turn
            /\ w.open \subseteq C \cup {c}
  BY <1>1, ContextFacts DEF View
<1>3. /\ v.session = st.session /\ w.session = b.session
      /\ l.size \in Nat /\ MaxRecord \in Nat
  BY LineFacts, ParserAssumption DEF View
<1> HIDE DEF b
<1>4. CASE w = NothingKnown
  <2>1. w.open = {}
    BY <1>4 DEF NothingKnown
  <2>2. QED
    BY <1>2, <2>1, GoodWhenEmpty DEF b
<1>5. \A d : d.turn # l.turn \/ (d.cwd = l.cwd /\ d.model = l.model) => Leaves(l, d)
  BY <1>3 DEF Leaves, Codex!Breaks
<1>6. CASE w = v
  <2>1. CASE v.session = NONE
    <3>1. w.open = {}
      BY <1>3, <1>6, <2>1 DEF Good
    <3>2. QED
      BY <1>2, <3>1, GoodWhenEmpty DEF b
  <2>2. CASE \A d \in C : d.turn # l.turn \/ d = c
    <3>1. \A d \in w.open : Leaves(l, d)
      BY <1>5, <1>6, <2>2 DEF ContextOf
    <3>2. b.session = st.session
      BY <1>3, <1>6
    <3>3. QED
      BY <1>2, <1>6, <3>1, <3>2, GoodWhenKept DEF b
  <2>3. CASE v.session # NONE /\ \E d \in C : d.turn = l.turn /\ d # c
    <3>1. w = ContextView(v, l) \/ \A d \in C : d.turn # l.turn
      <4>1. w # NothingKnown
        BY <1>6, <2>3 DEF NothingKnown
      <4>2. QED
        BY <1>2, <4>1
    <3>2. w = BlockedView(v, l.turn)
      BY <1>3, <2>3, <3>1 DEF ContextView
    <3>3. \A d \in w.open : d.turn # l.turn \/ d.cwd = NONE
      BY <3>2 DEF BlockedView, View, MarkOf
    <3>4. \A d \in w.open : d.cwd # NONE => Leaves(l, d)
      BY <1>5, <3>3
    <3>5. b.session = st.session
      BY <1>3, <1>6
    <3>6. QED
      BY <1>2, <1>6, <3>4, <3>5, GoodWhenKept DEF b
  <2>4. QED
    BY <2>1, <2>2, <2>3
<1>7. \A d : d \in C => d.session = st.session /\ d.turn \in TurnsOf(ls)
                        /\ (d.cwd # NONE => OpenSince(ls, d))
  BY DEF Good
<1>8. l.turn \in TurnsOf(Append(ls, l)) /\ TurnsOf(ls) \subseteq TurnsOf(Append(ls, l))
  BY TurnsGrow
<1>9. CASE w = BlockedView(v, l.turn)
  <2>1. b.session = st.session
    BY <1>3, <1>9 DEF BlockedView, View
  <2>2. \A d \in w.open : (d \in C /\ d.turn # l.turn) \/ d = MarkOf(st.session, l.turn)
    BY <1>3, <1>9 DEF BlockedView, View
  <2>3. CASE st.session = NONE
    <3>1. C = {}
      BY <2>3 DEF Good
    <3>2. w = ContextView(v, l) \/ w = NothingKnown
      BY <1>2, <2>3
    <3>3. w = v \/ w = NothingKnown
      BY <1>3, <2>3, <3>2 DEF ContextView
    <3>4. QED
      BY <1>4, <1>6, <3>3
  <2>4. CASE st.session # NONE
    <3>1. ASSUME NEW d \in w.open
          PROVE  /\ d.session = b.session /\ d.turn \in TurnsOf(Append(ls, l))
                 /\ d.cwd # NONE => OpenSince(Append(ls, l), d)
      <4>1. CASE d \in C /\ d.turn # l.turn
        <5>1. d.cwd # NONE => OpenSince(Append(ls, l), d)
          BY <1>5, <1>7, <4>1, StaysOpen
        <5>2. QED
          BY <1>7, <1>8, <2>1, <4>1, <5>1
      <4>2. CASE d = MarkOf(st.session, l.turn)
        BY <1>8, <2>1, <4>2 DEF MarkOf
      <4>3. QED
        BY <2>2, <4>1, <4>2
    <3>2. QED
      BY <1>2, <2>1, <2>4, <3>1 DEF Good, b
  <2>5. QED
    BY <2>3, <2>4
<1>10. CASE /\ b.session = st.session /\ st.session # NONE /\ l.cwd # NONE
            /\ \A d \in C : d.turn # l.turn
            /\ w.open \subseteq C \cup {c}
  <2>1. ASSUME NEW d \in w.open
        PROVE  /\ d.session = b.session /\ d.turn \in TurnsOf(Append(ls, l))
               /\ d.cwd # NONE => OpenSince(Append(ls, l), d)
    <3>1. CASE d \in C
      <4>1. d.cwd # NONE => OpenSince(Append(ls, l), d)
        BY <1>5, <1>7, <1>10, <3>1, StaysOpen
      <4>2. QED
        BY <1>7, <1>8, <1>10, <3>1, <4>1
    <3>2. CASE d = c
      <4>1. d.session = b.session /\ d.turn = l.turn /\ Gives(l, d)
        BY <1>10, <3>2 DEF ContextOf, Gives
      <4>2. QED
        BY <1>8, <4>1, OpensNow
    <3>3. QED
      BY <1>10, <3>1, <3>2
  <2>2. QED
    BY <1>2, <1>10, <2>1 DEF Good, b
<1>11. CASE w = ContextView(v, l)
  <2>1. \/ w = v \/ w = NothingKnown \/ w = BlockedView(v, l.turn)
        \/ /\ w = [v EXCEPT !.open = @ \cup {c}] /\ v.session # NONE /\ l.cwd # NONE
           /\ \A d \in C : d.turn # l.turn
    BY <1>3, <1>11 DEF ContextView
  <2>2. CASE /\ w = [v EXCEPT !.open = @ \cup {c}] /\ v.session # NONE /\ l.cwd # NONE
             /\ \A d \in C : d.turn # l.turn
    <3>1. w.open = C \cup {c} /\ w.session = v.session
      BY <2>2 DEF View
    <3>2. QED
      BY <1>3, <1>10, <2>2, <3>1
  <2>3. QED
    BY <1>4, <1>6, <1>9, <2>1, <2>2
<1>12. QED
  BY <1>2, <1>4, <1>10, <1>11

(* Every line does.                                                         *)
LEMMA GoodGrows ==
  ASSUME NEW ls \in Seq(LineSet), NEW l \in LineSet, NEW st, Good(ls, st)
  PROVE  Good(Append(ls, l), Codex!ProcessLine(st, l))
<1> DEFINE b == Codex!ProcessLine(st, l)
           v == View(st)
           w == View(b)
<1>1. st \in States /\ Distinct(st.contexts)
  BY DEF Good
<1>2. /\ b \in States /\ Distinct(b.contexts)
      /\ l.type # "context" \/ l.size > MaxRecord => w = LineView(v, l)
      /\ l.type = "context" /\ l.size <= MaxRecord => b = Codex!TurnContext(st, l)
  BY <1>1, ProcessFacts
<1>3. /\ v.session = st.session /\ w.session = b.session
      /\ l.size \in Nat /\ MaxRecord \in Nat
      /\ l.type \in {"ignored", "unsafe", "meta", "context", "end"}
  BY LineFacts, ParserAssumption DEF View
<1> HIDE DEF b
<1>4. CASE w.open = {}
  BY <1>2, <1>4, GoodWhenEmpty DEF b
<1>5. CASE l.type = "context" /\ l.size <= MaxRecord
  BY <1>2, <1>5, GoodAfterContext DEF b
<1>6. CASE l.type # "context" \/ l.size > MaxRecord
  <2>1. w = LineView(v, l)
    BY <1>2, <1>6
  <2>2. CASE w = NothingKnown
    BY <1>4, <2>2 DEF NothingKnown
  <2>3. CASE w = v /\ l.type = "ignored" /\ (l.size > MaxRecord => l.size <= MaxNonsemantic)
    <3>1. \A c \in w.open : Leaves(l, c)
      BY <1>3, <2>3 DEF Leaves, Codex!Breaks
    <3>2. QED
      BY <1>2, <1>3, <2>3, <3>1, GoodWhenKept DEF b
  <2>4. CASE l.type = "meta" /\ w = MetaView(v, l) /\ l.size <= MaxRecord
    <3>1. \/ w.open = {}
          \/ w = v /\ v.session = IF l.session # NONE THEN l.session ELSE l.id
      BY <2>4 DEF MetaView, NothingKnown
    <3>2. CASE w = v /\ v.session = IF l.session # NONE THEN l.session ELSE l.id
      <4>1. v.session \in {l.session, l.id}
        BY <3>2
      <4>2. \A c \in w.open : Leaves(l, c)
        BY <1>3, <2>4, <3>2, <4>1 DEF Leaves, Codex!Breaks, Good
      <4>3. QED
        BY <1>2, <1>3, <3>2, <4>2, GoodWhenKept DEF b
    <3>3. QED
      BY <1>4, <3>1, <3>2
  <2>5. CASE l.type = "end" /\ w = EndView(v, l) /\ l.size <= MaxRecord
    <3>1. w.session = v.session /\ w.open = {d \in v.open : d.turn # l.turn}
      BY <2>5 DEF EndView, View
    <3>2. \A c \in w.open : Leaves(l, c)
      BY <1>3, <2>5, <3>1 DEF Leaves, Codex!Breaks
    <3>3. QED
      BY <1>2, <1>3, <3>1, <3>2, GoodWhenKept DEF b
  <2>6. QED
    BY <1>3, <1>6, <2>1, <2>2, <2>3, <2>4, <2>5 DEF LineView
<1>7. QED
  BY <1>3, <1>5, <1>6

(* What is recorded is honest.                                              *)
LEMMA HonestGrows ==
  ASSUME NEW ls \in Seq(LineSet), NEW l \in LineSet, NEW st, Good(ls, st),
         NEW rs \in Seq(Contexts), Honest(ls, rs)
  PROVE  LET new == Recorded(rs, View(st).open, l) IN
         new \in Seq(Contexts) /\ Honest(Append(ls, l), new)
<1> DEFINE made == Made(View(st).open, l)
           c == CHOOSE d \in made : TRUE
           new == Recorded(rs, View(st).open, l)
<1>1. Honest(Append(ls, l), rs)
  BY StaysClosed DEF Honest
<1>2. CASE new = rs
  BY <1>1, <1>2
<1>3. CASE l.type = "end" /\ made # {} /\ new = Append(rs, c)
  <2>1. c \in View(st).open /\ c.turn = l.turn /\ c.cwd # NONE /\ l.captured
    BY <1>3 DEF Made
  <2> HIDE DEF c
  <2>2. c \in Contexts
    BY <2>1 DEF Good, View, States, Codex!ToSet
  <2>3. OpenSince(ls, c)
    BY <2>1 DEF Good
  <2>4. ClosedIn(Append(ls, l), c)
    BY <1>3, <2>1, <2>3, ClosesNow
  <2>5. Codex!ToSet(Append(rs, c)) = Codex!ToSet(rs) \cup {c}
    BY <2>2, ElementsOfAppend
  <2>6. QED
    BY <1>1, <1>3, <2>2, <2>4, <2>5 DEF Honest
<1>4. QED
  BY <1>2, <1>3 DEF Recorded

(* A context has room, or there are too many turns.                         *)
LEMMA RoomEnough ==
  ASSUME NEW ls \in Seq(LineSet), NEW l \in LineSet, NEW st, Good(ls, st),
         ~Codex!Crowded(Append(ls, l))
  PROVE  HasRoom(st, l)
<1> DEFINE cs == st.contexts
           T == {c.turn : c \in Codex!ToSet(cs)}
           t == Append(ls, l)
<1>1. SUFFICES ASSUME l.type = "context", l.size <= MaxRecord,
                      Codex!Of(cs, l.turn) = {}, ~(Len(cs) < MaxRecords)
               PROVE  FALSE
  BY DEF HasRoom
<1>2. cs \in Seq(Contexts) /\ Distinct(cs) /\ Len(cs) \in Nat
  BY DEF Good, States
<1>3. IsFiniteSet(T) /\ Cardinality(T) = Len(cs)
  BY <1>2, AsManyTurns
<1>4. l.turn \notin T
  BY <1>1 DEF Codex!Of, Codex!ToSet
<1>5. T \cup {l.turn} \subseteq TurnsOf(t)
  <2>1. \A c \in Codex!ToSet(cs) : c.turn \in TurnsOf(ls)
    BY DEF Good, View
  <2>2. QED
    BY <1>1, <2>1, TurnsGrow
<1>6. t \in Seq(LineSet)
  OBVIOUS
<1> HIDE DEF T, t
<1>7. IsFiniteSet(T \cup {l.turn}) /\ Cardinality(T \cup {l.turn}) = Len(cs) + 1
  BY <1>3, <1>4, FS_AddElement
<1>8. IsFiniteSet(TurnsOf(t)) /\ Cardinality(TurnsOf(t)) \in Nat
  BY <1>6, FiniteTurns
<1>9. Cardinality(T \cup {l.turn}) <= Cardinality(TurnsOf(t))
  BY <1>5, <1>8, FS_Subset
<1>10. Cardinality(TurnsOf(t)) > MaxRecords
  BY <1>1, <1>2, <1>7, <1>8, <1>9, ParserAssumption
<1>11. QED
  BY <1>10 DEF Codex!Crowded, TurnsOf, Codex!Cardinality, Cardinality, t

(* The units of lines that programs write.                                 *)
Units == {u \in (DOMAIN Lines) \X (Nat \ {0}) : u[2] <= Lines[u[1]].size}

GoodInv(q, ls, st) == Good(ls, st)
ReadFold == INSTANCE FoldTheorems WITH Op <- ProcessOp, Pick <- Greatest, Inv <- GoodInv

(* Its fold goes from the first line to the last.                          *)
LEMMA ReadInOrder == ReadFold!PicksLast
BY GreatestLast DEF ReadFold!PicksLast, ReadFold!Picks

(* Reading lines is a fold of them.                                        *)
LEMMA ReadIsFold ==
  ASSUME NEW ls
  PROVE  Read(ls) = ReadFold!Folded(0, Codex!Fresh, ls)
BY DEF Read, Codex!FoldLeft, Codex!MapThenFoldSet, Codex!Max, ReadFold!Folded,
       ReadFold!FoldOf, ReadFold!MapThenFoldSet, Greatest, ProcessOp

(* A line more is read after those before it.                              *)
LEMMA ReadGrows ==
  ASSUME NEW X, NEW ls \in Seq(X), NEW l \in X
  PROVE  Read(Append(ls, l)) = Codex!ProcessLine(Read(ls), l)
BY ReadIsFold, ReadInOrder, ReadFold!FoldAppend DEF ProcessOp

(* Without lines nothing is read.                                          *)
LEMMA ReadNothing == Read(<<>>) = Codex!Fresh
BY ReadIsFold, ReadFold!FoldEmpty

(* The lines of a file are lines.                                           *)
LEMMA LinesType == \A b \in Seq(Units) : Codex!LinesOf(b) \in Seq(LineSet)
<1>1. LinesInv(0, <<>>, <<>>)
  BY DEF LinesInv
<1>2. ASSUME NEW s \in Seq(Units), NEW u \in Units, NEW a, LinesInv(0, s, a)
      PROVE  LinesInv(0, Append(s, u), CompletedOp(0, a, u))
  <2>1. a \in Seq(LineSet) /\ Lines[u[1]] \in LineSet
    BY <1>2 DEF LinesInv, LineSet, Units
  <2>2. QED
    BY <2>1 DEF LinesInv, CompletedOp, Codex!Completed
<1>3. \A s \in Seq(Units) : LinesInv(0, s, LinesFold!Folded(0, <<>>, s))
  BY <1>1, <1>2, LinesInOrder, LinesFold!SeqInduction
<1>4. QED
  BY <1>3, LinesIsFold DEF LinesInv

(* Nothing is known at the start of a file.                                 *)
LEMMA FreshFacts ==
  /\ Codex!Fresh \in States /\ Distinct(Codex!Fresh.contexts)
  /\ View(Codex!Fresh) = NothingKnown /\ Codex!Fresh.records = <<>>
  /\ \A ls : Good(ls, Codex!Fresh)
<1> DEFINE f == Codex!Fresh
<1>1. NONE \in Sessions /\ <<>> \in Seq(Contexts) /\ Codex!ToSet(<<>>) = {}
  BY DEF Sessions, Codex!ToSet
<1>2. /\ f \in States /\ f.session = NONE /\ f.meta = NONE /\ f.contexts = <<>>
      /\ f.records = <<>>
  BY <1>1 DEF Codex!Fresh, States
<1> HIDE DEF f
<1>3. Distinct(f.contexts) /\ View(f) = NothingKnown /\ View(f).open = {}
  <2>1. Distinct(f.contexts)
    BY <1>2 DEF Distinct
  <2>2. View(f) = NothingKnown
    BY <1>1, <1>2 DEF View, NothingKnown
  <2>3. QED
    BY <2>1, <2>2 DEF NothingKnown
<1>4. QED
  BY <1>2, <1>3, GoodWhenEmpty DEF f

(* Reading lines gives a good state.                                        *)
LEMMA ReadIsGood == \A ls \in Seq(LineSet) : Good(ls, Read(ls))
<1>1. GoodInv(0, <<>>, Codex!Fresh)
  BY FreshFacts DEF GoodInv
<1>2. ASSUME NEW s \in Seq(LineSet), NEW l \in LineSet, NEW a, GoodInv(0, s, a)
      PROVE  GoodInv(0, Append(s, l), ProcessOp(0, a, l))
  BY <1>2, GoodGrows DEF GoodInv, ProcessOp
<1>3. \A s \in Seq(LineSet) : GoodInv(0, s, ReadFold!Folded(0, Codex!Fresh, s))
  BY <1>1, <1>2, ReadInOrder, ReadFold!SeqInduction
<1>4. QED
  BY <1>3, ReadIsFold DEF GoodInv

(* Records taken before and after.                                          *)
LEMMA RecordedAfter ==
  ASSUME NEW T \in Seq(Contexts), NEW rs \in Seq(Contexts),
         NEW open \in SUBSET Contexts, NEW l
  PROVE  T \o Recorded(rs, open, l) = Recorded(T \o rs, open, l)
<1> DEFINE c == CHOOSE d \in Made(open, l) : TRUE
<1>1. CASE Made(open, l) # {}
  <2>1. c \in Contexts
    BY <1>1 DEF Made
  <2> HIDE DEF c
  <2>2. T \o Append(rs, c) = Append(T \o rs, c)
    BY <2>1
  <2>3. QED
    BY <2>2 DEF Recorded, c
<1>2. CASE Made(open, l) = {}
  BY <1>2 DEF Recorded
<1>3. QED
  BY <1>1, <1>2

-----------------------------------------------------------------------------
(* What is so when the units P have been parsed.                            *)

(* The reading stops behind a line, or within one that is passed over.      *)
Cut(P, disc) ==
  IF disc THEN /\ P # <<>> /\ ~Codex!Newline(P[Len(P)])
               /\ P[Len(P)][2] >= MaxNonsemantic
  ELSE P = <<>> \/ Codex!Newline(P[Len(P)])

AfterLines(ls, disc) == IF disc THEN Codex!Invalidated(Read(ls)) ELSE Read(ls)

(* The state is that of one read of the lines: the same one, or, as turns   *)
(* are sorted in between, one with the same contexts, unless there are too  *)
(* many; and the records of T come before those of the state.               *)
Agrees(exact, ls, disc, T, st) ==
  LET t == AfterLines(ls, disc) IN
  IF exact THEN T = <<>> /\ st = t
  ELSE Codex!Crowded(ls) \/ (View(st) = View(t) /\ T \o st.records = t.records)

Follows(exact, ls, disc, T, st) ==
  /\ Good(ls, st)
  /\ Honest(ls, T \o st.records)
  /\ disc => st.contexts = <<>>
  /\ Agrees(exact, ls, disc, T, st)

SoFar(exact, P, disc, T, st) ==
  disc \in BOOLEAN /\ Cut(P, disc) /\ Follows(exact, Codex!LinesOf(P), disc, T, st)

(* One more line.                                                           *)
LEMMA FollowsLine ==
  ASSUME NEW exact, NEW ls \in Seq(LineSet), NEW T \in Seq(Contexts), NEW st,
         Follows(exact, ls, FALSE, T, st), NEW l \in LineSet
  PROVE  Follows(exact, Append(ls, l), FALSE, T, Codex!ProcessLine(st, l))
<1> DEFINE b == Codex!ProcessLine(st, l)
           t == Read(ls)
           more == Append(ls, l)
<1>1. /\ Good(ls, st) /\ Good(ls, t) /\ st \in States /\ t \in States
      /\ Distinct(st.contexts) /\ Distinct(t.contexts)
  BY ReadIsGood DEF Good, Follows
<1>2. Good(more, b)
  BY <1>1, GoodGrows
<1>3. /\ View(st).open \in SUBSET Contexts /\ st.records \in Seq(Contexts)
      /\ t.records \in Seq(Contexts)
  BY <1>1 DEF View, States, Codex!ToSet
<1>4. b.records = Recorded(st.records, View(st).open, l)
  BY <1>1, ProcessFacts
<1>5. T \o b.records = Recorded(T \o st.records, View(st).open, l)
  <2> DEFINE open == View(st).open
             rs == st.records
  <2>1. open \in SUBSET Contexts /\ rs \in Seq(Contexts)
    BY <1>3
  <2> HIDE DEF open, rs
  <2>2. T \o Recorded(rs, open, l) = Recorded(T \o rs, open, l)
    BY <2>1, RecordedAfter, ZenonT(60)
  <2>3. QED
    BY <1>4, <2>2 DEF open, rs
<1>6. Honest(more, T \o b.records)
  <2>1. T \o st.records \in Seq(Contexts) /\ Honest(ls, T \o st.records)
    BY <1>3 DEF Follows
  <2>2. QED
    BY <1>1, <1>5, <2>1, HonestGrows
<1>7. Read(more) = Codex!ProcessLine(t, l)
  BY ReadGrows
<1>8. Agrees(exact, more, FALSE, T, b)
  <2>1. CASE exact
    <3>1. T = <<>> /\ st = t
      BY <2>1 DEF Follows, Agrees, AfterLines
    <3>2. QED
      BY <1>7, <2>1, <3>1 DEF Agrees, AfterLines
  <2>2. CASE ~exact /\ Codex!Crowded(more)
    BY <2>2 DEF Agrees
  <2>3. CASE ~exact /\ ~Codex!Crowded(more)
    <3>1. View(st) = View(t) /\ T \o st.records = t.records
      BY <2>3, StaysCrowded DEF Follows, Agrees, AfterLines
    <3>2. HasRoom(st, l) /\ HasRoom(t, l)
      BY <1>1, <2>3, RoomEnough
    <3>3. View(b) = LineView(View(st), l)
      BY <1>1, <3>2, ProcessFacts
    <3>4. /\ View(Read(more)) = LineView(View(t), l)
          /\ Read(more).records = Recorded(t.records, View(t).open, l)
      BY <1>1, <1>7, <3>2, ProcessFacts
    <3> HIDE DEF b, t, more
    <3>5. View(b) = View(Read(more)) /\ T \o b.records = Read(more).records
      BY <1>5, <3>1, <3>3, <3>4
    <3>6. QED
      BY <2>3, <3>5 DEF Agrees, AfterLines
  <2>4. QED
    BY <2>1, <2>2, <2>3
<1>9. QED
  BY <1>2, <1>6, <1>8 DEF Follows

(* The end of a line that was passed over.                                  *)
LEMMA FollowsLongLine ==
  ASSUME NEW exact, NEW ls \in Seq(LineSet), NEW T \in Seq(Contexts), NEW st,
         Follows(exact, ls, TRUE, T, st), NEW l \in LineSet, l.size > MaxNonsemantic
  PROVE  Follows(exact, Append(ls, l), FALSE, T, st)
<1> DEFINE t == Codex!Invalidated(Read(ls))
           more == Append(ls, l)
<1>1. /\ l.size \in Nat /\ MaxRecord \in Nat /\ MaxNonsemantic \in Nat
      /\ MaxRecord <= MaxNonsemantic
  BY LineFacts, ParserAssumption
<1>2. l.size > MaxRecord /\ ~(l.size <= MaxNonsemantic)
  BY <1>1
<1>3. Read(more) = t
  BY <1>2, ReadGrows DEF Codex!ProcessLine
<1>4. st \in States /\ Distinct(st.contexts) /\ st.contexts = <<>>
  BY DEF Follows, Good
<1>5. Good(more, st)
  <2>1. View(st).open = {}
    BY <1>4 DEF View, Codex!ToSet
  <2>2. QED
    BY <1>4, <2>1, GoodWhenEmpty
<1>6. Honest(more, T \o st.records)
  BY StaysClosed DEF Follows, Honest
<1>7. Agrees(exact, more, FALSE, T, st)
  <2>1. Agrees(exact, ls, TRUE, T, st)
    BY DEF Follows
  <2>2. QED
    BY <1>3, <2>1, StaysCrowded DEF Agrees, AfterLines
<1>8. QED
  BY <1>5, <1>6, <1>7 DEF Follows

(* The start of one.                                                        *)
LEMMA FollowsDropped ==
  ASSUME NEW exact, NEW ls \in Seq(LineSet), NEW T \in Seq(Contexts), NEW st,
         Follows(exact, ls, FALSE, T, st)
  PROVE  Follows(exact, ls, TRUE, T, Codex!Invalidated(st))
<1> DEFINE t == Read(ls)
           b == Codex!Invalidated(st)
<1>1. st \in States /\ t \in States
  BY ReadIsGood DEF Follows, Good
<1>2. /\ b \in States /\ Distinct(b.contexts) /\ b.contexts = <<>>
      /\ b.records = st.records /\ View(b) = NothingKnown
      /\ Codex!Invalidated(t).records = t.records
      /\ View(Codex!Invalidated(t)) = NothingKnown
  BY <1>1, InvalidatedFacts
<1> HIDE DEF b, t
<1>3. Good(ls, b)
  BY <1>2, GoodWhenEmpty DEF NothingKnown
<1>4. Honest(ls, T \o b.records)
  BY <1>2 DEF Follows
<1>5. Agrees(exact, ls, TRUE, T, b)
  <2>1. CASE exact
    <3>1. T = <<>> /\ st = t
      BY <2>1 DEF Follows, Agrees, AfterLines, t
    <3>2. QED
      BY <2>1, <3>1 DEF Agrees, AfterLines, t, b
  <2>2. CASE ~exact
    <3>1. Codex!Crowded(ls) \/ (View(st) = View(t) /\ T \o st.records = t.records)
      BY <2>2 DEF Follows, Agrees, AfterLines, t
    <3>2. QED
      BY <1>2, <2>2, <3>1 DEF Agrees, AfterLines, t
  <2>3. QED
    BY <2>1, <2>2
<1>6. QED
  BY <1>2, <1>3, <1>4, <1>5 DEF Follows, b

(* The units of a line follow each other.                                   *)
Numbered(b) ==
  /\ b \in Seq(Units)
  /\ \A i \in DOMAIN b :
       IF i = 1 \/ Codex!Newline(b[i - 1]) THEN b[i][2] = 1
       ELSE b[i][1] = b[i - 1][1] /\ b[i][2] = b[i - 1][2] + 1

(* What is so of a chunk when the units s of it have been looked at.        *)
ParseFacts(exact, P, T, s, a) ==
  LET whole == P \o s
      done == P \o SubSeq(s, 1, a.used)
  IN  /\ a \in [st : States, discarding : BOOLEAN, seen : Nat, used : Nat, lines : Nat]
      /\ a.seen = Len(s) /\ a.used <= a.seen
      /\ SoFar(exact, done, a.discarding, T, a.st)
      /\ a.discarding \/ a.lines # MaxRecords => Codex!LinesOf(whole) = Codex!LinesOf(done)
      /\ a.discarding => a.used = 0 /\ a.lines = 0 /\ Cut(whole, TRUE)
      /\ ~a.discarding /\ a.lines # MaxRecords /\ a.used < a.seen =>
           /\ ~Codex!Newline(whole[Len(whole)])
           /\ whole[Len(whole)][2] = a.seen - a.used

ParseInv(q, s, a) ==
  Numbered(q.before \o s) => ParseFacts(q.exact, q.before, q.taken, s, a)

ParseFold == INSTANCE FoldTheorems WITH Op <- ParseOp, Pick <- Greatest, Inv <- ParseInv

(* The units of a chunk are looked at from the first to the last.          *)
LEMMA UnitsInOrder == ParseFold!PicksLast
BY GreatestLast DEF ParseFold!PicksLast, ParseFold!Picks

(* A file that is numbered is so without its last unit.                     *)
LEMMA NumberedBefore ==
  ASSUME NEW b \in Seq(Units), NEW u \in Units, Numbered(Append(b, u))
  PROVE  /\ Numbered(b)
         /\ IF b = <<>> \/ Codex!Newline(b[Len(b)]) THEN u[2] = 1
            ELSE u[1] = b[Len(b)][1] /\ u[2] = b[Len(b)][2] + 1
<1> DEFINE t == Append(b, u)
           n == Len(b) + 1
<1>1. /\ Len(b) \in Nat /\ DOMAIN b = 1..Len(b) /\ DOMAIN t = 1..n
      /\ t[n] = u /\ n \in 1..n /\ \A i \in 1..Len(b) : i \in 1..n /\ t[i] = b[i]
      /\ n - 1 = Len(b)
  OBVIOUS
<1>2. \A i \in DOMAIN t :
        IF i = 1 \/ Codex!Newline(t[i - 1]) THEN t[i][2] = 1
        ELSE t[i][1] = t[i - 1][1] /\ t[i][2] = t[i - 1][2] + 1
  BY DEF Numbered
<1> HIDE DEF t, n
<1>3. ASSUME NEW i \in 1..Len(b)
      PROVE  IF i = 1 \/ Codex!Newline(b[i - 1]) THEN b[i][2] = 1
             ELSE b[i][1] = b[i - 1][1] /\ b[i][2] = b[i - 1][2] + 1
  <2>1. i = 1 \/ (i - 1 \in 1..Len(b) /\ t[i - 1] = b[i - 1])
    BY <1>1
  <2>2. i \in DOMAIN t /\ t[i] = b[i]
    BY <1>1
  <2>3. QED
    BY <1>2, <2>1, <2>2
<1>4. Numbered(b)
  BY <1>1, <1>3 DEF Numbered
<1>5. CASE b = <<>>
  <2>1. n = 1
    BY <1>1, <1>5 DEF n
  <2>2. QED
    BY <1>1, <1>2, <1>4, <1>5, <2>1
<1>6. CASE b # <<>>
  <2>1. Len(b) \in 1..Len(b) /\ n # 1
    BY <1>1, <1>6 DEF n
  <2>2. t[n - 1] = b[Len(b)]
    BY <1>1, <2>1
  <2>3. QED
    BY <1>1, <1>2, <1>4, <1>6, <2>1, <2>2
<1>7. QED
  BY <1>5, <1>6

(* The last element of a sequence that has grown.                           *)
LEMMA LastOfAppend ==
  ASSUME NEW X, NEW s \in Seq(X), NEW x \in X
  PROVE  Append(s, x)[Len(Append(s, x))] = x /\ Append(s, x) # <<>>
OBVIOUS

(* One more unit of the chunk.                                              *)
LEMMA ParseStep ==
  ASSUME NEW exact, NEW P \in Seq(Units), NEW T \in Seq(Contexts), NEW s \in Seq(Units),
         NEW a, ParseFacts(exact, P, T, s, a), NEW u \in Units,
         Numbered(P \o Append(s, u))
  PROVE  ParseFacts(exact, P, T, Append(s, u), Codex!ParseUnit(a, u))
<1> DEFINE more == Append(s, u)
           whole == P \o s
           next == P \o more
           done == P \o SubSeq(s, 1, a.used)
           b == Codex!ParseUnit(a, u)
           l == Lines[u[1]]
           Accs == [st : States, discarding : BOOLEAN, seen : Nat, used : Nat, lines : Nat]
           looked == [a EXCEPT !.seen = a.seen + 1]
<1>1. /\ a \in Accs /\ a.seen = Len(s) /\ a.used <= a.seen
      /\ SoFar(exact, done, a.discarding, T, a.st)
      /\ a.discarding \/ a.lines # MaxRecords => Codex!LinesOf(whole) = Codex!LinesOf(done)
      /\ a.discarding => a.used = 0 /\ a.lines = 0 /\ Cut(whole, TRUE)
      /\ ~a.discarding /\ a.lines # MaxRecords /\ a.used < a.seen =>
           /\ ~Codex!Newline(whole[Len(whole)])
           /\ whole[Len(whole)][2] = a.seen - a.used
  BY DEF ParseFacts
<1>2. /\ whole \in Seq(Units) /\ next = Append(whole, u) /\ more \in Seq(Units)
      /\ Len(more) = Len(s) + 1 /\ next \in Seq(Units)
  OBVIOUS
<1>3. /\ a.seen \in Nat /\ a.used \in Nat /\ a.lines \in Nat /\ a.discarding \in BOOLEAN
      /\ a.st \in States
  BY <1>1
<1>4. SubSeq(more, 1, a.used) = SubSeq(s, 1, a.used) /\ done \in Seq(Units)
  <2>1. /\ \A i \in 1..a.used : more[i] = s[i] /\ i \in 1..Len(s) /\ i \in 1..Len(more)
    BY <1>1, <1>3
  <2> HIDE DEF more
  <2>2. SubSeq(more, 1, a.used) = SubSeq(s, 1, a.used)
    BY <1>1, <1>2, <1>3, <2>1
  <2>3. SubSeq(s, 1, a.used) \in Seq(Units)
    BY <1>1, <1>3
  <2>4. QED
    BY <2>2, <2>3
<1>5. SubSeq(more, 1, a.seen + 1) = more /\ a.seen + 1 \in Nat /\ a.used <= a.seen + 1
  <2> HIDE DEF more
  <2>1. SubSeq(more, 1, Len(more)) = more
    BY <1>2
  <2>2. QED
    BY <1>1, <1>2, <1>3, <2>1
<1>6. next[Len(next)] = u /\ next # <<>>
  <2> HIDE DEF whole, next
  <2>1. Append(whole, u)[Len(Append(whole, u))] = u /\ Append(whole, u) # <<>>
    BY <1>2, LastOfAppend
  <2>2. QED
    BY <1>2, <2>1
<1>7. Codex!LinesOf(next) = IF Codex!Newline(u) THEN Append(Codex!LinesOf(whole), l)
                            ELSE Codex!LinesOf(whole)
  BY <1>2, LinesGrow, ZenonT(60) DEF Codex!Completed
<1>8. /\ Numbered(whole)
      /\ IF whole = <<>> \/ Codex!Newline(whole[Len(whole)]) THEN u[2] = 1
         ELSE u[1] = whole[Len(whole)][1] /\ u[2] = whole[Len(whole)][2] + 1
  BY <1>2, NumberedBefore
<1>9. l \in LineSet /\ Codex!LinesOf(done) \in Seq(LineSet) /\ MaxNonsemantic \in Nat \ {0}
      /\ MaxRecords \in Nat \ {0} /\ u[2] \in Nat
  BY <1>4, LinesType, ParserAssumption, ZenonT(60) DEF Units, LineSet
<1>10. /\ looked \in Accs /\ looked.st = a.st /\ looked.discarding = a.discarding
       /\ looked.seen = a.seen + 1 /\ looked.used = a.used /\ looked.lines = a.lines
  BY <1>1, <1>3, SMTT(60)
<1> HIDE DEF whole, next, done, more, l
<1>11. CASE a.lines = MaxRecords
  <2>1. b = looked /\ ~a.discarding
    BY <1>1, <1>9, <1>11 DEF Codex!ParseUnit
  <2> HIDE DEF b, looked, Accs
  <2>2. QED
    BY <1>1, <1>2, <1>4, <1>5, <1>10, <1>11, <2>1 DEF ParseFacts, done, more, b, Accs
<1>12. CASE a.lines # MaxRecords /\ ~Codex!Newline(u)
  <2>1. b = looked
    BY <1>12 DEF Codex!ParseUnit
  <2>2. a.discarding => Cut(next, TRUE)
    <3>1. ASSUME a.discarding PROVE u[2] >= MaxNonsemantic
      <4>1. /\ whole # <<>> /\ ~Codex!Newline(whole[Len(whole)])
            /\ whole[Len(whole)][2] >= MaxNonsemantic
        BY <1>1, <3>1 DEF Cut
      <4>2. whole[Len(whole)] \in Units /\ whole[Len(whole)][2] \in Nat
        BY <1>2, <4>1 DEF Units
      <4>3. u[2] = whole[Len(whole)][2] + 1
        BY <1>8, <4>1
      <4> HIDE DEF whole
      <4>4. QED
        BY <1>9, <4>1, <4>2, <4>3
    <3>2. QED
      BY <1>6, <1>12, <3>1 DEF Cut
  <2>3. ~a.discarding => u[2] = (a.seen + 1) - a.used
    <3>1. CASE ~a.discarding /\ a.used < a.seen
      <4>1. /\ ~Codex!Newline(whole[Len(whole)])
            /\ whole[Len(whole)][2] = a.seen - a.used
        BY <1>1, <1>12, <3>1
      <4>2. whole # <<>>
        <5>1. Len(whole) = Len(P) + Len(s) /\ Len(P) \in Nat
          BY DEF whole
        <5>2. QED
          BY <1>1, <1>3, <3>1, <5>1
      <4>3. u[2] = whole[Len(whole)][2] + 1
        BY <1>8, <4>1, <4>2
      <4>4. QED
        BY <1>3, <4>1, <4>3
    <3>2. CASE ~a.discarding /\ a.used = a.seen
      <4>1. SubSeq(s, 1, a.used) = s
        BY <1>1, <3>2
      <4>2. done = whole
        BY <4>1 DEF done, whole
      <4>3. whole = <<>> \/ Codex!Newline(whole[Len(whole)])
        BY <1>1, <3>2, <4>2 DEF SoFar, Cut
      <4>4. u[2] = 1
        BY <1>8, <4>3
      <4>5. QED
        BY <1>3, <3>2, <4>4
    <3>3. QED
      BY <1>1, <1>3, <3>1, <3>2
  <2>4. Codex!LinesOf(next) = Codex!LinesOf(done)
    BY <1>1, <1>7, <1>12
  <2> HIDE DEF b, looked, Accs
  <2>5. QED
    BY <1>1, <1>2, <1>4, <1>5, <1>6, <1>10, <1>12, <2>1, <2>2, <2>3, <2>4
       DEF ParseFacts, done, more, next, b, Accs
<1>13. CASE a.lines # MaxRecords /\ Codex!Newline(u) /\ a.discarding
  <2>1. b = [looked EXCEPT !.discarding = FALSE, !.used = a.seen + 1]
    BY <1>10, <1>13 DEF Codex!ParseUnit
  <2>2. /\ b \in Accs /\ b.st = a.st /\ b.discarding = FALSE /\ b.seen = a.seen + 1
        /\ b.used = a.seen + 1 /\ b.lines = a.lines
    BY <1>5, <1>10, <2>1
  <2>3. l.size > MaxNonsemantic
    <3>1. /\ whole # <<>> /\ ~Codex!Newline(whole[Len(whole)])
          /\ whole[Len(whole)][2] >= MaxNonsemantic
      BY <1>1, <1>13 DEF Cut
    <3>2. whole[Len(whole)] \in Units /\ whole[Len(whole)][2] \in Nat
      BY <1>2, <3>1 DEF Units
    <3>3. u[2] = whole[Len(whole)][2] + 1 /\ l.size = u[2]
      BY <1>8, <1>13, <3>1 DEF Codex!Newline, l
    <3> DEFINE k == whole[Len(whole)][2]
    <3> HIDE DEF k
    <3>4. k \in Nat /\ k >= MaxNonsemantic /\ l.size = k + 1
      BY <3>1, <3>2, <3>3 DEF k
    <3>5. QED
      BY <1>9, <3>4
  <2>4. Codex!LinesOf(next) = Append(Codex!LinesOf(done), l)
    BY <1>1, <1>7, <1>13
  <2>5. Follows(exact, Codex!LinesOf(next), FALSE, T, a.st)
    <3>1. a.discarding = TRUE
      BY <1>3, <1>13
    <3>2. Follows(exact, Codex!LinesOf(done), TRUE, T, a.st)
      BY <1>1, <3>1 DEF SoFar
    <3>3. QED
      BY <1>9, <2>3, <2>4, <3>2, FollowsLongLine
  <2>6. SoFar(exact, next, FALSE, T, a.st)
    BY <1>6, <1>13, <2>5 DEF SoFar, Cut
  <2> HIDE DEF b, looked, Accs
  <2>7. P \o SubSeq(more, 1, b.used) = next /\ P \o more = next
    BY <1>5, <2>2 DEF next
  <2> HIDE DEF more
  <2>8. ParseFacts(exact, P, T, more, b)
    <3>1. SoFar(exact, P \o SubSeq(more, 1, b.used), b.discarding, T, b.st)
      BY <2>2, <2>6, <2>7
    <3>2. b.seen = Len(more) /\ b.used <= b.seen /\ ~(b.used < b.seen)
      BY <1>1, <1>2, <1>3, <2>2, <2>6, <2>7
    <3>3. ~b.discarding /\ b \in Accs
      BY <2>2, <2>6, <2>7
    <3>4. Codex!LinesOf(P \o more) = Codex!LinesOf(P \o SubSeq(more, 1, b.used))
      BY <2>7
    <3>5. QED
      BY <3>1, <3>2, <3>3, <3>4 DEF ParseFacts, Accs
  <2>9. QED
    BY <2>8 DEF more, b
<1>14. CASE a.lines # MaxRecords /\ Codex!Newline(u) /\ ~a.discarding
  <2> DEFINE st == Codex!ProcessLine(a.st, l)
  <2>1. b = [looked EXCEPT !.used = a.seen + 1, !.lines = a.lines + 1, !.st = st]
    BY <1>10, <1>14 DEF Codex!ParseUnit, l
  <2>2. Follows(exact, Codex!LinesOf(done), FALSE, T, a.st)
    BY <1>1, <1>14 DEF SoFar
  <2>3. Codex!LinesOf(next) = Append(Codex!LinesOf(done), l)
    BY <1>1, <1>7, <1>14
  <2>4. Follows(exact, Codex!LinesOf(next), FALSE, T, st)
    BY <1>9, <2>2, <2>3, FollowsLine
  <2>5. SoFar(exact, next, FALSE, T, st) /\ st \in States
    BY <1>6, <1>14, <2>4 DEF SoFar, Cut, Follows, Good
  <2> HIDE DEF st
  <2>6. /\ b \in Accs /\ b.st = st /\ b.discarding = FALSE /\ b.seen = a.seen + 1
        /\ b.used = a.seen + 1 /\ b.lines = a.lines + 1
    <3>1. a.lines + 1 \in Nat /\ a.seen + 1 \in Nat /\ looked.discarding = FALSE
      BY <1>3, <1>10, <1>14
    <3> HIDE DEF looked, b
    <3>2. /\ b.st = st /\ b.discarding = FALSE /\ b.seen = a.seen + 1
          /\ b.used = a.seen + 1 /\ b.lines = a.lines + 1
      BY <1>10, <2>1, <3>1
    <3>3. b \in Accs
      BY <1>10, <2>1, <2>5, <3>1
    <3>4. QED
      BY <3>2, <3>3
  <2> HIDE DEF b, looked, Accs
  <2>7. P \o SubSeq(more, 1, b.used) = next /\ P \o more = next
    BY <1>5, <2>6 DEF next
  <2> HIDE DEF more
  <2>8. ParseFacts(exact, P, T, more, b)
    <3>1. SoFar(exact, P \o SubSeq(more, 1, b.used), b.discarding, T, b.st)
      BY <2>5, <2>6, <2>7
    <3>2. b.seen = Len(more) /\ b.used <= b.seen /\ ~(b.used < b.seen)
      BY <1>1, <1>2, <1>3, <2>5, <2>6, <2>7
    <3>3. ~b.discarding /\ b \in Accs
      BY <2>5, <2>6, <2>7
    <3>4. Codex!LinesOf(P \o more) = Codex!LinesOf(P \o SubSeq(more, 1, b.used))
      BY <2>7
    <3>5. QED
      BY <3>1, <3>2, <3>3, <3>4 DEF ParseFacts, Accs
  <2>9. QED
    BY <2>8 DEF more, b
<1>15. QED
  BY <1>3, <1>11, <1>12, <1>13, <1>14

(* A chunk continues where the last one ended.                              *)
LEMMA Chunked ==
  ASSUME NEW exact, NEW P \in Seq(Units), NEW T \in Seq(Contexts),
         NEW from,
         SoFar(exact, P, from.discarding, T, from.st),
         NEW data \in Seq(Units), Numbered(P \o data),
         NEW c, c = Codex!ParseChunk(data, from)
  PROVE  /\ c.used \in 0..Len(data) /\ c.st \in States
         /\ SoFar(exact, P \o SubSeq(data, 1, c.used), c.discarding, T, c.st)
<1> DEFINE start == [st |-> from.st, discarding |-> from.discarding, seen |-> 0,
                     used |-> 0, lines |-> 0]
           q == [before |-> P, exact |-> exact, taken |-> T]
           a == ParseFold!Folded(0, start, data)
<1>1. ParseInv(q, <<>>, start)
  <2>1. /\ P \o <<>> = P /\ SubSeq(<<>>, 1, 0) = <<>> /\ Len(<<>>) = 0
    OBVIOUS
  <2>2. from.st \in States /\ from.discarding \in BOOLEAN
    BY DEF SoFar, Follows, Good
  <2>3. /\ start \in [st : States, discarding : BOOLEAN, seen : Nat, used : Nat, lines : Nat]
        /\ start.st = from.st /\ start.discarding = from.discarding /\ start.seen = 0
        /\ start.used = 0 /\ start.lines = 0
    BY <2>2
  <2>4. from.discarding => Cut(P, TRUE)
    BY DEF SoFar, Cut
  <2> HIDE DEF start
  <2>5. ParseFacts(exact, P, T, <<>>, start)
    <3>1. P \o SubSeq(<<>>, 1, start.used) = P
      BY <2>1, <2>3
    <3>2. QED
      <4>1. SoFar(exact, P \o SubSeq(<<>>, 1, start.used), start.discarding, T, start.st)
        BY <2>3, <3>1
      <4>2. start.seen = Len(<<>>) /\ start.used <= start.seen /\ ~(start.used < start.seen)
        BY <2>1, <2>3
      <4>3. start.discarding => Cut(P \o <<>>, TRUE)
        BY <2>1, <2>3, <2>4
      <4>4. Codex!LinesOf(P \o <<>>) = Codex!LinesOf(P \o SubSeq(<<>>, 1, start.used))
        BY <2>1, <3>1
      <4>5. QED
        BY <2>3, <4>1, <4>2, <4>3, <4>4 DEF ParseFacts
  <2>6. QED
    BY <2>5 DEF ParseInv
<1>2. ASSUME NEW s \in Seq(Units), NEW u \in Units, NEW b, ParseInv(q, s, b)
      PROVE  ParseInv(q, Append(s, u), ParseOp(0, b, u))
  <2>1. SUFFICES ASSUME Numbered(P \o Append(s, u))
                 PROVE  ParseFacts(exact, P, T, Append(s, u), Codex!ParseUnit(b, u))
    BY DEF ParseInv, ParseOp
  <2>2. P \o s \in Seq(Units) /\ P \o Append(s, u) = Append(P \o s, u)
    OBVIOUS
  <2>3. Numbered(P \o s)
    BY <2>1, <2>2, NumberedBefore
  <2>4. ParseFacts(exact, P, T, s, b)
    BY <1>2, <2>3 DEF ParseInv
  <2>5. QED
    BY <2>1, <2>4, ParseStep
<1>3. \A s \in Seq(Units) : ParseInv(q, s, ParseFold!Folded(0, start, s))
  <2> HIDE DEF q, start
  <2> QED BY <1>1, <1>2, UnitsInOrder, ParseFold!SeqInduction
<1>4. ParseFacts(exact, P, T, data, a)
  BY <1>3 DEF ParseInv
<1>5. c = Codex!PassOver(a)
  BY DEF Codex!ParseChunk, Codex!FoldLeft, Codex!MapThenFoldSet, Codex!Max,
    ParseFold!Folded, ParseFold!FoldOf, ParseFold!MapThenFoldSet, Greatest, ParseOp
<1> HIDE DEF a, start, q
<1> DEFINE whole == P \o data
           done == P \o SubSeq(data, 1, a.used)
<1>6. /\ a \in [st : States, discarding : BOOLEAN, seen : Nat, used : Nat, lines : Nat]
      /\ a.seen = Len(data) /\ a.used <= a.seen
      /\ SoFar(exact, done, a.discarding, T, a.st)
      /\ a.discarding \/ a.lines # MaxRecords => Codex!LinesOf(whole) = Codex!LinesOf(done)
      /\ a.discarding => a.used = 0 /\ a.lines = 0 /\ Cut(whole, TRUE)
      /\ ~a.discarding /\ a.lines # MaxRecords /\ a.used < a.seen =>
           /\ ~Codex!Newline(whole[Len(whole)])
           /\ whole[Len(whole)][2] = a.seen - a.used
  BY <1>4 DEF ParseFacts
<1>7. /\ a.seen \in Nat /\ a.used \in Nat /\ a.lines \in Nat /\ a.discarding \in BOOLEAN
      /\ a.st \in States /\ MaxNonsemantic \in Nat \ {0} /\ MaxRecords \in Nat \ {0}
  BY <1>6, ParserAssumption
<1>8. SubSeq(data, 1, a.seen) = data /\ whole \in Seq(Units) /\ done \in Seq(Units)
      /\ Len(whole) = Len(P) + Len(data) /\ Len(P) \in Nat /\ Len(data) \in Nat
  <2>1. SubSeq(data, 1, a.used) \in Seq(Units)
    BY <1>6, <1>7
  <2>2. QED
    BY <1>6, <2>1
<1>9. Codex!LinesOf(done) \in Seq(LineSet)
  BY <1>8, LinesType
<1> HIDE DEF whole, done
<1>10. CASE a.discarding
  <2>1. c = [a EXCEPT !.used = a.seen]
    BY <1>5, <1>10 DEF Codex!PassOver
  <2>2. c.used = a.seen /\ c.discarding = a.discarding /\ c.st = a.st
    BY <1>6, <2>1
  <2>3. SoFar(exact, whole, TRUE, T, a.st)
    BY <1>6, <1>10 DEF SoFar
  <2>4. P \o SubSeq(data, 1, c.used) = whole /\ c.used \in 0..Len(data)
    <3>1. c.used = Len(data) /\ SubSeq(data, 1, c.used) = data
      BY <1>6, <1>8, <2>2
    <3>2. P \o SubSeq(data, 1, c.used) = P \o data
      BY <3>1
    <3>3. Len(data) \in 0..Len(data)
      BY <1>8
    <3>4. QED
      BY <3>1, <3>2, <3>3 DEF whole
  <2>5. c.discarding = TRUE /\ c.st \in States
    BY <1>7, <1>10, <2>2
  <2>6. QED
    BY <2>2, <2>3, <2>4, <2>5
<1>11. CASE ~a.discarding /\ a.lines < MaxRecords /\ a.seen - a.used >= MaxNonsemantic
  <2> DEFINE st == Codex!Invalidated(a.st)
  <2>1. c = [a EXCEPT !.used = a.seen, !.discarding = TRUE, !.st = st]
    BY <1>5, <1>11 DEF Codex!PassOver
  <2>2. st \in States
    BY <1>7, InvalidatedFacts
  <2> HIDE DEF st
  <2>3. c.used = a.seen /\ c.discarding = TRUE /\ c.st = st
    BY <1>6, <2>1
  <2>4. a.used < a.seen /\ a.lines # MaxRecords
    BY <1>6, <1>7, <1>11
  <2>5. Codex!LinesOf(whole) = Codex!LinesOf(done)
    BY <1>6, <2>4
  <2>6. Follows(exact, Codex!LinesOf(done), FALSE, T, a.st)
    BY <1>6, <1>11 DEF SoFar
  <2>7. Follows(exact, Codex!LinesOf(done), TRUE, T, st)
    BY <1>9, <2>6, FollowsDropped DEF st
  <2>8. Cut(whole, TRUE)
    <3>1. whole # <<>>
      BY <1>6, <1>7, <1>8, <2>4
    <3>2. QED
      BY <1>6, <1>11, <2>4, <3>1 DEF Cut
  <2>9. SoFar(exact, whole, TRUE, T, st)
    BY <2>5, <2>7, <2>8 DEF SoFar
  <2>10. P \o SubSeq(data, 1, c.used) = whole /\ c.used \in 0..Len(data)
    <3>1. c.used = Len(data) /\ SubSeq(data, 1, c.used) = data
      BY <1>6, <1>8, <2>3
    <3>2. P \o SubSeq(data, 1, c.used) = P \o data
      BY <3>1
    <3>3. Len(data) \in 0..Len(data)
      BY <1>8
    <3>4. QED
      BY <3>1, <3>2, <3>3 DEF whole
  <2>11. QED
    BY <2>2, <2>3, <2>9, <2>10
<1>12. CASE ~a.discarding /\ ~(a.lines < MaxRecords /\ a.seen - a.used >= MaxNonsemantic)
  <2>1. c = a
    BY <1>5, <1>12 DEF Codex!PassOver
  <2>2. QED
    BY <1>6, <1>7, <2>1 DEF done
<1>13. QED
  BY <1>7, <1>10, <1>11, <1>12

(* The first n units of a file.                                             *)
LEMMA FirstUnits ==
  ASSUME NEW b \in Seq(Units), NEW n \in 0..Len(b)
  PROVE  /\ SubSeq(b, 1, n) \in Seq(Units) /\ Len(SubSeq(b, 1, n)) = n
         /\ \A i \in 1..n : SubSeq(b, 1, n)[i] = b[i]
OBVIOUS

(* The first units of a numbered file are numbered.                        *)
LEMMA NumberedFirst ==
  ASSUME NEW b, Numbered(b), NEW n \in 0..Len(b)
  PROVE  Numbered(SubSeq(b, 1, n))
<1> DEFINE s == SubSeq(b, 1, n)
<1>1. b \in Seq(Units) /\ Len(b) \in Nat /\ DOMAIN b = 1..Len(b) /\ n \in Nat /\ n <= Len(b)
  BY DEF Numbered
<1>2. s \in Seq(Units) /\ DOMAIN s = 1..n /\ \A i \in 1..n : s[i] = b[i] /\ i \in DOMAIN b
  <2>1. s \in Seq(Units) /\ Len(s) = n /\ \A i \in 1..n : s[i] = b[i]
    BY <1>1, FirstUnits
  <2> HIDE DEF s
  <2>2. QED
    BY <1>1, <2>1
<1> HIDE DEF s
<1>3. ASSUME NEW i \in 1..n
      PROVE  IF i = 1 \/ Codex!Newline(s[i - 1]) THEN s[i][2] = 1
             ELSE s[i][1] = s[i - 1][1] /\ s[i][2] = s[i - 1][2] + 1
  <2>1. i = 1 \/ (i - 1 \in 1..n /\ s[i - 1] = b[i - 1])
    BY <1>1, <1>2
  <2>2. i \in DOMAIN b /\ s[i] = b[i]
    BY <1>2
  <2>3. QED
    BY <2>1, <2>2 DEF Numbered
<1>4. QED
  BY <1>2, <1>3 DEF Numbered, s

(* The least of two numbers.                                               *)
LEMMA MinOfTwo ==
  ASSUME NEW a \in Int, NEW b \in Int
  PROVE  Codex!Min({a, b}) = IF a <= b THEN a ELSE b
<1>1. (IF a <= b THEN a ELSE b) \in {a, b}
      /\ \A y \in {a, b} : (IF a <= b THEN a ELSE b) <= y
  OBVIOUS
<1>2. \A x \in {a, b} : (\A y \in {a, b} : x <= y) => x = IF a <= b THEN a ELSE b
  OBVIOUS
<1>3. QED
  BY <1>1, <1>2 DEF Codex!Min

(* And of three.                                                           *)
LEMMA MinOfThree ==
  ASSUME NEW a \in Int, NEW b \in Int, NEW c \in Int
  PROVE  LET m == Codex!Min({a, b, c}) IN m \in {a, b, c} /\ m <= a /\ m <= b /\ m <= c
<1>1. \E x \in {a, b, c} : \A y \in {a, b, c} : x <= y
  <2>1. CASE a <= b /\ a <= c
    BY <2>1
  <2>2. CASE b <= a /\ b <= c
    BY <2>2
  <2>3. CASE c <= a /\ c <= b
    BY <2>3
  <2>4. QED
    BY <2>1, <2>2, <2>3
<1>2. Codex!Min({a, b, c}) \in {a, b, c} /\ \A y \in {a, b, c} : Codex!Min({a, b, c}) <= y
  BY <1>1 DEF Codex!Min
<1>3. QED
  BY <1>2

(* A prefix of a file, and the prefix that a checkpoint has.                *)
LEMMA PrefixFacts ==
  ASSUME NEW b \in Seq(Units), NEW n \in Nat
  PROVE  /\ Codex!Prefix(b, n) \in Seq(Units)
         /\ n <= Len(b) => Codex!Prefix(b, n) = SubSeq(b, 1, n) /\ n \in 0..Len(b)
         /\ n > Len(b) => Codex!Prefix(b, n) = b
         /\ Len(Codex!Prefix(b, n)) <= Len(b)
<1>1. Len(b) \in Nat /\ Codex!Min({n, Len(b)}) = IF n <= Len(b) THEN n ELSE Len(b)
  BY MinOfTwo
<1>2. Codex!Prefix(b, n) = SubSeq(b, 1, IF n <= Len(b) THEN n ELSE Len(b))
  BY <1>1 DEF Codex!Prefix
<1>3. CASE n <= Len(b)
  <2>1. Codex!Prefix(b, n) = SubSeq(b, 1, n) /\ n \in 0..Len(b)
    BY <1>1, <1>2, <1>3
  <2>2. SubSeq(b, 1, n) \in Seq(Units) /\ Len(SubSeq(b, 1, n)) = n
    BY <2>1, FirstUnits
  <2>3. Codex!Prefix(b, n) \in Seq(Units) /\ Len(Codex!Prefix(b, n)) = n
    BY <2>1, <2>2
  <2>4. QED
    BY <1>1, <1>3, <2>1, <2>3
<1>4. CASE n > Len(b)
  <2>1. SubSeq(b, 1, Len(b)) = b
    BY SMTT(60)
  <2>2. Codex!Prefix(b, n) = b
    <3>1. ~(n <= Len(b))
      BY <1>1, <1>4
    <3>2. (IF n <= Len(b) THEN n ELSE Len(b)) = Len(b)
      BY <3>1
    <3>3. QED
      BY <1>2, <2>1, <3>2, ZenonT(60)
  <2>3. QED
    BY <1>1, <1>4, <2>2
<1>5. QED
  BY <1>1, <1>3, <1>4

(* A chunk is what follows the first units.                                 *)
LEMMA ChunkFacts ==
  ASSUME NEW b, Numbered(b), NEW n \in 0..Len(b), NEW size \in Nat
  PROVE  LET data == Codex!Chunk(b, size, n) IN
         /\ data \in Seq(Units) /\ n + Len(data) \in 0..Len(b)
         /\ Numbered(SubSeq(b, 1, n) \o data)
         /\ \A k \in 0..Len(data) :
              SubSeq(b, 1, n) \o SubSeq(data, 1, k) = SubSeq(b, 1, n + k)
<1> DEFINE m == Codex!Min({n + MaxRead, size, Len(b)})
           data == SubSeq(b, n + 1, m)
           P == SubSeq(b, 1, n)
<1>1. b \in Seq(Units) /\ Len(b) \in Nat /\ n \in Nat /\ n <= Len(b) /\ MaxRead \in Nat
  BY ParserAssumption DEF Numbered
<1>2. m \in Nat /\ m <= Len(b)
  <2> DEFINE x == n + MaxRead
             y == Len(b)
  <2>1. x \in Nat /\ x \in Int /\ y \in Nat /\ y \in Int /\ size \in Int
    BY <1>1
  <2>2. m = Codex!Min({x, size, y})
    OBVIOUS
  <2> HIDE DEF x, m
  <2>3. Codex!Min({x, size, y}) \in {x, size, y} /\ Codex!Min({x, size, y}) <= y
    <3> HIDE DEF y
    <3> QED BY <2>1, MinOfThree
  <2>4. QED
    BY <2>1, <2>2, <2>3
<1> HIDE DEF m
<1>3. /\ data \in Seq(Units) /\ Len(data) = IF n + 1 <= m THEN m - n ELSE 0
      /\ \A i \in 1..Len(data) : data[i] = b[n + i]
  BY <1>1, <1>2, SMTT(60)
<1>4. n + Len(data) \in 0..Len(b)
  <2> HIDE DEF data
  <2> QED BY <1>1, <1>2, <1>3
<1>5. P \in Seq(Units) /\ Len(P) = n /\ \A i \in 1..n : P[i] = b[i]
  BY <1>1, FirstUnits
<1> HIDE DEF data, P
<1>6. ASSUME NEW k \in 0..Len(data)
      PROVE  P \o SubSeq(data, 1, k) = SubSeq(b, 1, n + k)
  <2> DEFINE d == SubSeq(data, 1, k)
             r == P \o d
             w == SubSeq(b, 1, n + k)
  <2>1. d \in Seq(Units) /\ Len(d) = k /\ \A i \in 1..k : d[i] = data[i]
    BY <1>3, FirstUnits
  <2>2. k \in Nat /\ k <= Len(data) /\ Len(data) \in Nat /\ n + k \in 0..Len(b)
    BY <1>1, <1>3, <1>4
  <2>3. w \in Seq(Units) /\ Len(w) = n + k /\ \A i \in 1..n + k : w[i] = b[i]
    BY <1>1, <2>2, FirstUnits
  <2> HIDE DEF d, w
  <2>4. /\ r \in Seq(Units) /\ Len(r) = Len(P) + Len(d)
        /\ \A i \in 1..Len(P) + Len(d) : r[i] = IF i <= Len(P) THEN P[i] ELSE d[i - Len(P)]
    BY <1>5, <2>1, ConcatProperties
  <2> HIDE DEF r
  <2>5. ASSUME NEW i \in 1..n + k PROVE r[i] = w[i]
    <3>1. CASE i <= n
      <4>1. i \in 1..n
        BY <1>1, <2>2, <3>1
      <4>2. QED
        BY <1>5, <2>1, <2>3, <2>4, <3>1, <4>1
    <3>2. CASE ~(i <= n)
      <4>1. i - n \in 1..k /\ i - n \in 1..Len(data) /\ n + (i - n) = i
        BY <1>1, <2>2, <3>2
      <4>2. d[i - n] = b[n + (i - n)]
        BY <1>3, <2>1, <4>1
      <4>3. r[i] = d[i - n]
        BY <1>5, <2>1, <2>4, <3>2
      <4>4. QED
        BY <2>3, <4>1, <4>2, <4>3
    <3>3. QED
      BY <3>1, <3>2
  <2>6. Len(r) = Len(w)
    BY <1>5, <2>1, <2>3, <2>4
  <2>7. r = w
    BY <2>3, <2>4, <2>5, <2>6, SeqEqual
  <2>8. QED
    BY <2>7 DEF r, w, d
<1>7. Numbered(P \o data)
  <2>1. SubSeq(data, 1, Len(data)) = data /\ Len(data) \in 0..Len(data)
    BY <1>3
  <2>2. P \o data = SubSeq(b, 1, n + Len(data))
    BY <1>6, <2>1
  <2>3. QED
    BY <1>4, <2>2, NumberedFirst
<1>8. QED
  BY <1>3, <1>4, <1>6, <1>7 DEF Codex!Chunk, data, m, P

-----------------------------------------------------------------------------
(* Replays.                                                                 *)

(* After n chunks of a replay, or fewer where the file ended or it is      *)
(* given up.                                                               *)
ReplayFacts(bytes, n, p) ==
  /\ p.offset \in 0..Len(bytes) /\ p.ok \in BOOLEAN
  /\ SoFar(TRUE, SubSeq(bytes, 1, p.offset), p.at.discarding, <<>>, p.at.st)
  /\ p.ok => p.offset >= n \/ p.offset = Len(bytes)

ReplayInv(bytes, s, p) == Numbered(bytes) => ReplayFacts(bytes, Len(s), p)

ReplayFold == INSTANCE FoldTheorems WITH Op <- NextOp, Pick <- Greatest, Inv <- ReplayInv

(* The chunks of a replay are taken from the first to the last.            *)
LEMMA ChunksInOrder == ReplayFold!PicksLast
BY GreatestLast DEF ReplayFold!PicksLast, ReplayFold!Picks

(* One more chunk of a replay, or none where the replay is over.           *)
LEMMA ReplayStep ==
  ASSUME NEW bytes, Numbered(bytes), NEW n \in Nat, NEW p, ReplayFacts(bytes, n, p)
  PROVE  ReplayFacts(bytes, n + 1, Codex!NextChunk(bytes, p))
<1>1. bytes \in Seq(Units) /\ Len(bytes) \in Nat
  BY DEF Numbered
<1>2. /\ p.offset \in 0..Len(bytes) /\ p.offset \in Nat /\ p.ok \in BOOLEAN
      /\ SoFar(TRUE, SubSeq(bytes, 1, p.offset), p.at.discarding, <<>>, p.at.st)
      /\ p.ok => p.offset >= n \/ p.offset = Len(bytes)
  <2>1. /\ p.offset \in 0..Len(bytes) /\ p.ok \in BOOLEAN
        /\ SoFar(TRUE, SubSeq(bytes, 1, p.offset), p.at.discarding, <<>>, p.at.st)
        /\ p.ok => p.offset >= n \/ p.offset = Len(bytes)
    BY DEF ReplayFacts
  <2>2. \A k \in 0..Len(bytes) : k \in Nat
    BY <1>1
  <2>3. QED
    BY <2>1, <2>2
<1>3. CASE ~p.ok \/ p.offset >= Len(bytes)
  <2>1. Codex!NextChunk(bytes, p) = p
    BY <1>3 DEF Codex!NextChunk
  <2>2. p.ok => p.offset = Len(bytes)
    BY <1>1, <1>2, <1>3
  <2>3. QED
    BY <1>2, <2>1, <2>2 DEF ReplayFacts
<1>4. CASE p.ok /\ ~(p.offset >= Len(bytes))
  <2> DEFINE data == Codex!Chunk(bytes, Len(bytes), p.offset)
             c == Codex!ParseChunk(data, p.at)
             r == Codex!NextChunk(bytes, p)
             P == SubSeq(bytes, 1, p.offset)
  <2>1. /\ r.offset = p.offset + c.used /\ r.ok = (c.used > 0)
        /\ r.at.st = c.st /\ r.at.discarding = c.discarding
    BY <1>4 DEF Codex!NextChunk, Codex!Advance, Codex!Resumed
  <2> HIDE DEF r
  <2>2. /\ data \in Seq(Units) /\ p.offset + Len(data) \in 0..Len(bytes)
        /\ Numbered(P \o data)
        /\ \A k \in 0..Len(data) :
             P \o SubSeq(data, 1, k) = SubSeq(bytes, 1, p.offset + k)
    BY <1>1, <1>2, ChunkFacts
  <2>3. P \in Seq(Units)
    BY <1>1, <1>2, FirstUnits
  <2> HIDE DEF data, P
  <2>4. /\ c.used \in 0..Len(data)
        /\ SoFar(TRUE, P \o SubSeq(data, 1, c.used), c.discarding, <<>>, c.st)
    <3> DEFINE all == TRUE
               T == <<>>
               from == p.at
    <3>1. T \in Seq(Contexts)
      OBVIOUS
    <3>2. SoFar(TRUE, P, from.discarding, T, from.st)
      BY <1>2 DEF P
    <3>3. c = Codex!ParseChunk(data, from)
      BY <1>2
    <3>4. SoFar(all, P, from.discarding, T, from.st)
      BY <3>2
    <3>5. data \in Seq(Units) /\ Numbered(P \o data)
      BY <2>2
    <3> HIDE DEF all, T, from, c
    <3>6. /\ c.used \in 0..Len(data)
          /\ SoFar(all, P \o SubSeq(data, 1, c.used), c.discarding, T, c.st)
      BY <2>3, <3>1, <3>3, <3>4, <3>5, Chunked
    <3>7. QED
      BY <3>6 DEF all, T
  <2> HIDE DEF c
  <2>5. r.offset \in 0..Len(bytes) /\ r.offset >= p.offset /\ (r.ok => r.offset >= n + 1)
    <3>1. Len(data) \in Nat /\ c.used \in Nat /\ c.used <= Len(data)
      BY <2>2, <2>4
    <3>2. p.offset + Len(data) <= Len(bytes)
      BY <1>1, <1>2, <2>2, <3>1
    <3>3. r.offset = p.offset + c.used /\ (r.ok => c.used > 0) /\ p.offset >= n
      <4>1. r.offset = p.offset + c.used /\ (r.ok => c.used > 0)
        BY <2>1
      <4>2. p.offset >= n \/ p.offset = Len(bytes)
        BY <1>2, <1>4
      <4>3. p.offset # Len(bytes)
        BY <1>1, <1>2, <1>4
      <4>4. QED
        BY <4>1, <4>2, <4>3
    <3> DEFINE o == p.offset
               u == c.used
               d == Len(data)
               m == Len(bytes)
    <3>4. o \in Nat /\ u \in Nat /\ d \in Nat /\ m \in Nat /\ u <= d /\ o + d <= m
          /\ r.offset = o + u /\ (r.ok => u > 0) /\ o >= n
      BY <1>1, <1>2, <3>1, <3>2, <3>3
    <3> HIDE DEF o, u, d, m
    <3>5. r.offset \in 0..m /\ r.offset >= o /\ (r.ok => r.offset >= n + 1)
      BY <3>4
    <3>6. QED
      BY <3>5 DEF o, m
  <2>6. SoFar(TRUE, SubSeq(bytes, 1, r.offset), r.at.discarding, <<>>, r.at.st)
    BY <2>1, <2>2, <2>4
  <2>7. r.ok \in BOOLEAN
    BY <2>1, <2>4
  <2>8. QED
    BY <2>5, <2>6, <2>7 DEF ReplayFacts, r
<1>5. QED
  BY <1>2, <1>3, <1>4

(* A replay that is not given up has read the whole.                        *)
LEMMA Replayed ==
  ASSUME NEW bytes, Numbered(bytes), Len(bytes) <= MaxUnits, Codex!Replay(bytes).ok
  PROVE  Codex!Replay(bytes).at.st.records = Codex!OneRead(bytes).records
<1> DEFINE start == [offset |-> 0, ok |-> TRUE, at |-> Codex!Resumed(Codex!Fresh, FALSE)]
           all == [n \in 1..MaxUnits |-> n]
           p == Codex!Replay(bytes)
<1>1. bytes \in Seq(Units) /\ Len(bytes) \in Nat /\ MaxUnits \in Nat
  BY ParserAssumption DEF Numbered
<1>2. all \in Seq(Nat) /\ Len(all) = MaxUnits
  <2>1. all \in [1..MaxUnits -> Nat]
    BY <1>1
  <2>2. QED
    BY <1>1, <2>1
<1>3. p = ReplayFold!Folded(bytes, start, all)
  BY DEF Codex!Replay, Codex!FoldLeft, Codex!MapThenFoldSet, Codex!Max,
    ReplayFold!Folded, ReplayFold!FoldOf, ReplayFold!MapThenFoldSet, Greatest, NextOp
<1>4. ReplayInv(bytes, <<>>, start)
  <2>1. /\ start.offset = 0 /\ start.ok = TRUE /\ start.at.st = Codex!Fresh
        /\ start.at.discarding = FALSE
    BY DEF Codex!Resumed
  <2> HIDE DEF start
  <2>2. SubSeq(bytes, 1, 0) = <<>> /\ Len(<<>>) = 0 /\ <<>> \o <<>> = <<>>
    BY <1>1
  <2>3. SoFar(TRUE, <<>>, FALSE, <<>>, Codex!Fresh)
    <3>1. Honest(<<>>, <<>> \o Codex!Fresh.records)
      BY <2>2, FreshFacts DEF Honest, Codex!ToSet
    <3>2. Agrees(TRUE, <<>>, FALSE, <<>>, Codex!Fresh)
      BY ReadNothing DEF Agrees, AfterLines
    <3>3. QED
      BY <3>1, <3>2, FreshFacts, NoLines DEF SoFar, Follows, Cut
  <2>4. ReplayFacts(bytes, 0, start)
    <3>1. SubSeq(bytes, 1, start.offset) = <<>>
      BY <2>1, <2>2
    <3>2. SoFar(TRUE, SubSeq(bytes, 1, start.offset), start.at.discarding, <<>>, start.at.st)
      BY <2>1, <2>3, <3>1
    <3>3. start.offset \in 0..Len(bytes) /\ start.offset >= 0
      BY <1>1, <2>1
    <3>4. start.ok \in BOOLEAN
      BY <2>1
    <3>5. QED
      BY <3>2, <3>3, <3>4 DEF ReplayFacts
  <2>5. QED
    BY <2>2, <2>4 DEF ReplayInv
<1>5. ASSUME NEW s \in Seq(Nat), NEW n \in Nat, NEW a, ReplayInv(bytes, s, a)
      PROVE  ReplayInv(bytes, Append(s, n), NextOp(bytes, a, n))
  <2>1. ReplayFacts(bytes, Len(s), a) /\ Len(s) \in Nat /\ Len(Append(s, n)) = Len(s) + 1
    BY <1>5 DEF ReplayInv
  <2>2. QED
    BY <2>1, ReplayStep DEF ReplayInv, NextOp
<1> HIDE DEF all, start
<1>6. ReplayInv(bytes, all, ReplayFold!Folded(bytes, start, all))
  BY <1>2, <1>4, <1>5, ChunksInOrder, ReplayFold!SeqInduction
<1> HIDE DEF p
<1>7. ReplayFacts(bytes, MaxUnits, p)
  BY <1>2, <1>3, <1>6 DEF ReplayInv
<1>8. p.offset = Len(bytes)
  BY <1>1, <1>7 DEF ReplayFacts, p
<1>9. SoFar(TRUE, bytes, p.at.discarding, <<>>, p.at.st)
  <2>1. SubSeq(bytes, 1, Len(bytes)) = bytes
    BY <1>1
  <2>2. QED
    BY <1>7, <1>8, <2>1 DEF ReplayFacts
<1>10. p.at.st = AfterLines(Codex!LinesOf(bytes), p.at.discarding)
  BY <1>9 DEF SoFar, Follows, Agrees
<1>11. Codex!OneRead(bytes) = Read(Codex!LinesOf(bytes))
  BY DEF Codex!OneRead, Read
<1>12. Read(Codex!LinesOf(bytes)) \in States
  BY <1>1, LinesType, ReadIsGood DEF Good
<1>13. p.at.st.records = Codex!OneRead(bytes).records
  BY <1>10, <1>11, <1>12, InvalidatedFacts DEF AfterLines
<1>14. QED
  BY <1>13 DEF p

(* A scan of the lines for the model of the running turn.                   *)
Spans == [turn : Turns, cwd : {NONE} \cup {Lines[n].cwd : n \in DOMAIN Lines},
          model : {NONE} \cup {Lines[n].model : n \in DOMAIN Lines}]
ScanStates == [ok : BOOLEAN, alias : Sessions, open : SUBSET Spans, ambiguous : SUBSET Turns]
SpanOf(c) == [turn |-> c.turn, cwd |-> c.cwd, model |-> c.model]

(* The scan has the turns that the reader has, or knows that they are       *)
(* ambiguous.                                                               *)
Heard(s, v) ==
  /\ s.alias = NONE => v.session = NONE
  /\ \A c \in v.open : c.cwd # NONE => c.turn \in s.ambiguous \/ SpanOf(c) \in s.open

Scanned(s, v) == s \in ScanStates /\ IsFiniteSet(s.open) /\ (s.ok => Heard(s, v))

(* A scan that knew of more turns knows of these.                          *)
LEMMA HeardKept ==
  ASSUME NEW s, NEW v, Scanned(s, v), NEW w,
         v.session = NONE => w.session = NONE, w.open \subseteq v.open
  PROVE  Scanned(s, w)
BY DEF Scanned, Heard

(* A scan in doubt claims nothing.                                         *)
LEMMA InDoubt ==
  ASSUME NEW s, NEW v, Scanned(s, v), NEW w
  PROVE  Scanned([s EXCEPT !.ok = FALSE], w)
<1> DEFINE n == [s EXCEPT !.ok = FALSE]
<1>1. s \in ScanStates /\ IsFiniteSet(s.open)
  BY DEF Scanned
<1>2. n \in ScanStates /\ n.open = s.open /\ n.ok = FALSE
  BY <1>1 DEF ScanStates
<1> HIDE DEF n
<1>3. Scanned(n, w)
  BY <1>1, <1>2 DEF Scanned
<1>4. QED
  BY <1>3 DEF n

(* A session line.                                                         *)
LEMMA ScanMeta ==
  ASSUME NEW thread, NEW s, NEW st \in States, Distinct(st.contexts), Scanned(s, View(st)),
         st.session = NONE => View(st).open = {}, NEW l \in LineSet, l.type = "meta"
  PROVE  Scanned(Codex!ScanRecord(thread, s, l), MetaView(View(st), l))
<1> DEFINE v == View(st)
           w == MetaView(v, l)
           session == IF l.session # NONE THEN l.session ELSE l.id
           n == Codex!ScanRecord(thread, s, l)
<1>1. v.session = st.session /\ (v.session = NONE => v.open = {})
  BY DEF View
<1>2. s \in ScanStates /\ IsFiniteSet(s.open) /\ (s.ok => Heard(s, v)) /\ Scanned(s, v)
  BY DEF Scanned
<1>3. l.session \in Sessions /\ l.id \in Sessions /\ session \in Sessions
  BY LineFacts
<1> HIDE DEF v
<1>4. w.open \subseteq v.open
  BY DEF MetaView, NothingKnown
<1>5. v.session = NONE => w.session \in {NONE, session} /\ w.open = {}
  BY <1>1 DEF MetaView, NothingKnown
<1>6. CASE s.alias = NONE /\ l.id # thread
  <2>1. n = [s EXCEPT !.ok = FALSE]
    BY <1>6 DEF Codex!ScanRecord
  <2>2. QED
    BY <1>2, <2>1, InDoubt DEF v
<1>7. CASE s.alias = NONE /\ l.id = thread
  <2>1. n = [s EXCEPT !.alias = session]
    BY <1>7 DEF Codex!ScanRecord
  <2>2. n \in ScanStates /\ n.alias = session /\ n.open = s.open /\ n.ok = s.ok
    BY <1>2, <1>3, <2>1 DEF ScanStates
  <2>3. n.ok => v.session = NONE
    BY <1>2, <1>7, <2>2 DEF Heard
  <2> HIDE DEF n, w, session
  <2>4. n.ok => Heard(n, w)
    BY <1>5, <2>2, <2>3 DEF Heard
  <2>5. QED
    BY <1>2, <2>2, <2>4 DEF Scanned, n, w, v
<1>8. CASE s.alias # NONE
  <2>1. n = s \/ n = [s EXCEPT !.ok = FALSE]
    BY <1>8 DEF Codex!ScanRecord
  <2>2. Scanned(s, w)
    BY <1>2, <1>4, <1>8 DEF Scanned, Heard
  <2>3. QED
    BY <1>2, <2>1, <2>2, InDoubt DEF v
<1>9. QED
  BY <1>6, <1>7, <1>8

(* The end of a turn.                                                      *)
LEMMA ScanEnd ==
  ASSUME NEW thread, NEW s, NEW st \in States, Distinct(st.contexts), Scanned(s, View(st)),
         st.session = NONE => View(st).open = {}, NEW l \in LineSet, l.type = "end"
  PROVE  Scanned(Codex!ScanRecord(thread, s, l), EndView(View(st), l))
<1> DEFINE v == View(st)
           w == EndView(v, l)
           known == {c \in s.open : c.turn = l.turn}
           n == Codex!ScanRecord(thread, s, l)
<1>1. s \in ScanStates /\ IsFiniteSet(s.open) /\ (s.ok => Heard(s, v)) /\ Scanned(s, v)
  BY DEF Scanned
<1>2. w.session = v.session /\ w.open = {d \in v.open : d.turn # l.turn}
  BY DEF EndView, View
<1> HIDE DEF v, w
<1>3. CASE s.alias = NONE
  <2>1. n = s
    BY <1>3 DEF Codex!ScanRecord
  <2>2. w.open \subseteq v.open
    BY <1>2
  <2>3. Scanned(s, w)
    BY <1>1, <1>2, <2>2, HeardKept
  <2>4. QED
    BY <2>1, <2>3 DEF v, w
<1>4. CASE s.alias # NONE
  <2>1. n = [s EXCEPT !.open = s.open \ known, !.ambiguous = s.ambiguous \ {l.turn}]
    BY <1>4, SMTT(60) DEF Codex!ScanRecord
  <2>2. /\ n \in ScanStates /\ n.open = s.open \ known /\ n.ambiguous = s.ambiguous \ {l.turn}
        /\ n.alias = s.alias /\ n.ok = s.ok
    BY <1>1, <2>1, ZenonT(60) DEF ScanStates
  <2>3. IsFiniteSet(n.open)
    <3>1. n.open \subseteq s.open
      BY <2>2
    <3>2. QED
      BY <1>1, <3>1, FS_Subset
  <2> HIDE DEF n
  <2>4. ASSUME n.ok PROVE Heard(n, w)
    <3>1. Heard(s, v)
      BY <1>1, <2>2, <2>4
    <3>2. ASSUME NEW c \in w.open, c.cwd # NONE
          PROVE  c.turn \in n.ambiguous \/ SpanOf(c) \in n.open
      <4>1. c \in v.open /\ c.turn # l.turn
        BY <1>2
      <4>2. c.turn \in s.ambiguous \/ SpanOf(c) \in s.open
        BY <3>1, <3>2, <4>1 DEF Heard
      <4>3. SpanOf(c) \notin known
        BY <4>1 DEF SpanOf
      <4> HIDE DEF known
      <4>4. QED
        BY <2>2, <4>1, <4>2, <4>3
    <3>3. n.alias = NONE => w.session = NONE
      BY <1>4, <2>2
    <3>4. QED
      BY <3>2, <3>3 DEF Heard
  <2>5. QED
    BY <2>2, <2>3, <2>4 DEF Scanned, n, w, v
<1>5. QED
  BY <1>3, <1>4

(* A context line.                                                         *)
LEMMA ScanContext ==
  ASSUME NEW thread, NEW s, NEW st \in States, Distinct(st.contexts), Scanned(s, View(st)),
         st.session = NONE => View(st).open = {}, NEW l \in LineSet, l.type = "context",
         l.size <= MaxRecord
  PROVE  Scanned(Codex!ScanRecord(thread, s, l), View(Codex!TurnContext(st, l)))
<1> DEFINE v == View(st)
           w == View(Codex!TurnContext(st, l))
           known == {c \in s.open : c.turn = l.turn}
           span == [turn |-> l.turn, cwd |-> l.cwd, model |-> l.model]
           n == Codex!ScanRecord(thread, s, l)
<1>1. s \in ScanStates /\ IsFiniteSet(s.open) /\ (s.ok => Heard(s, v)) /\ Scanned(s, v)
  BY DEF Scanned
<1>2. span \in Spans /\ l.turn \in Turns
  BY LineFacts DEF Spans
<1>3. /\ v.session = NONE => w.session = NONE /\ w.open \subseteq v.open
      /\ l.cwd # NONE => \A d \in w.open : d.cwd # NONE => d \in v.open \/ SpanOf(d) = span
  <2>1. /\ v.session = NONE => ContextView(v, l) = v
        /\ l.cwd # NONE => \A d \in ContextView(v, l).open :
             d.cwd # NONE => d \in v.open \/ SpanOf(d) = span
    <3>1. \A t : \A d \in BlockedView(v, t).open : d.cwd # NONE => d \in v.open
      BY DEF BlockedView, MarkOf, View
    <3>2. SpanOf(ContextOf(v.session, l)) = span
      BY DEF SpanOf, ContextOf
    <3>3. v.session = NONE => ContextView(v, l) = v
      BY DEF ContextView
    <3>4. \/ ContextView(v, l) \in {v, BlockedView(v, l.turn), NothingKnown}
          \/ ContextView(v, l).open = v.open \cup {ContextOf(v.session, l)}
      BY DEF ContextView, View
    <3> HIDE DEF v, span
    <3>5. QED
      BY <3>1, <3>2, <3>3, <3>4 DEF NothingKnown
  <2>2. \/ w = ContextView(v, l)
        \/ w = NothingKnown
        \/ /\ v.session # NONE
           /\ w.open \subseteq v.open \cup {ContextOf(v.session, l)}
    BY ContextFacts DEF View
  <2>3. SpanOf(ContextOf(v.session, l)) = span
    BY DEF SpanOf, ContextOf
  <2> HIDE DEF v, w, span
  <2>4. QED
    BY <2>1, <2>2, <2>3 DEF NothingKnown
<1> HIDE DEF v, w
<1>4. CASE s.alias = NONE
  <2>1. n = s
    BY <1>4 DEF Codex!ScanRecord
  <2>2. Scanned(s, w)
    BY <1>1, <1>3, <1>4 DEF Scanned, Heard
  <2>3. QED
    BY <2>1, <2>2 DEF w
<1>5. CASE s.alias # NONE /\ l.cwd = NONE
  <2>1. n = [s EXCEPT !.ok = FALSE]
    BY <1>5 DEF Codex!ScanRecord
  <2>2. QED
    BY <1>1, <2>1, InDoubt
<1>6. CASE s.alias # NONE /\ l.cwd # NONE
  <2>1. /\ n \in ScanStates /\ IsFiniteSet(n.open) /\ n.alias = s.alias /\ n.ok = s.ok
        /\ l.turn \in n.ambiguous \/ span \in n.open
        /\ s.ambiguous \subseteq n.ambiguous
        /\ \A d \in s.open : d \in n.open \/ d.turn \in n.ambiguous
    <3>1. CASE l.turn \in s.ambiguous \/ span \in known
      <4>1. n = s
        BY <1>6, <3>1 DEF Codex!ScanRecord
      <4>2. QED
        BY <1>1, <3>1, <4>1
    <3>2. CASE ~(l.turn \in s.ambiguous \/ span \in known) /\ known = {}
      <4>1. n = [s EXCEPT !.open = s.open \cup {span}]
        BY <1>6, <3>2 DEF Codex!ScanRecord
      <4>2. /\ n \in ScanStates /\ n.open = s.open \cup {span} /\ n.ambiguous = s.ambiguous
            /\ n.alias = s.alias /\ n.ok = s.ok
        BY <1>1, <1>2, <4>1 DEF ScanStates
      <4> HIDE DEF n, span
      <4>3. IsFiniteSet(n.open)
        BY <1>1, <4>2, FS_AddElement
      <4>4. QED
        BY <4>2, <4>3
    <3>3. CASE ~(l.turn \in s.ambiguous \/ span \in known) /\ known # {}
      <4>1. n = [s EXCEPT !.open = s.open \ known, !.ambiguous = s.ambiguous \cup {l.turn}]
        BY <1>6, <3>3 DEF Codex!ScanRecord
      <4>2. /\ n \in ScanStates /\ n.open = s.open \ known
            /\ n.ambiguous = s.ambiguous \cup {l.turn}
            /\ n.alias = s.alias /\ n.ok = s.ok
        <5>1. s.open \ known \in SUBSET Spans /\ s.ambiguous \cup {l.turn} \in SUBSET Turns
          BY <1>1, <1>2 DEF ScanStates
        <5> HIDE DEF known
        <5>2. QED
          BY <1>1, <4>1, <5>1 DEF ScanStates
      <4>3. IsFiniteSet(n.open)
        <5>1. n.open \subseteq s.open
          BY <4>2
        <5>2. QED
          BY <1>1, <5>1, FS_Subset
      <4> HIDE DEF n
      <4>4. QED
        BY <4>2, <4>3
    <3>4. QED
      BY <3>1, <3>2, <3>3
  <2> HIDE DEF n, known
  <2>2. ASSUME n.ok PROVE Heard(n, w)
    <3>1. Heard(s, v)
      BY <1>1, <2>1, <2>2
    <3>2. ASSUME NEW c \in w.open, c.cwd # NONE
          PROVE  c.turn \in n.ambiguous \/ SpanOf(c) \in n.open
      <4>1. CASE c \in v.open
        <5>1. c.turn \in s.ambiguous \/ SpanOf(c) \in s.open
          BY <3>1, <3>2, <4>1 DEF Heard
        <5>2. SpanOf(c).turn = c.turn
          BY DEF SpanOf
        <5>3. QED
          BY <2>1, <5>1, <5>2
      <4>2. CASE SpanOf(c) = span
        <5>1. SpanOf(c).turn = c.turn /\ span.turn = l.turn
          BY DEF SpanOf
        <5> HIDE DEF span
        <5>2. QED
          BY <2>1, <4>2, <5>1
      <4>3. QED
        BY <1>3, <1>6, <3>2, <4>1, <4>2
    <3>3. n.alias = NONE => w.session = NONE
      BY <1>6, <2>1
    <3>4. QED
      BY <3>2, <3>3 DEF Heard
  <2>3. QED
    BY <2>1, <2>2 DEF Scanned, n, w
<1>7. QED
  BY <1>4, <1>5, <1>6

(* One more line of the scan.                                               *)
LEMMA ScanStep ==
  ASSUME NEW thread, NEW s, NEW st \in States, Distinct(st.contexts), Scanned(s, View(st)),
         st.session = NONE => View(st).open = {}, NEW l \in LineSet
  PROVE  Scanned(Codex!ScanLine(thread, s, l), View(Codex!ProcessLine(st, l)))
<1> DEFINE v == View(st)
           w == View(Codex!ProcessLine(st, l))
           n == Codex!ScanLine(thread, s, l)
<1>1. s \in ScanStates /\ IsFiniteSet(s.open) /\ Scanned(s, v) /\ s.ok \in BOOLEAN
  BY DEF Scanned, ScanStates
<1>2. /\ l.type # "context" \/ l.size > MaxRecord => w = LineView(v, l)
      /\ l.type = "context" /\ l.size <= MaxRecord => w = View(Codex!TurnContext(st, l))
  BY ProcessFacts
<1>3. l.size \in Nat /\ MaxRecord \in Nat
      /\ l.type \in {"ignored", "unsafe", "meta", "context", "end"}
  BY LineFacts, ParserAssumption
<1>4. CASE ~s.ok
  <2>1. n = s
    BY <1>4 DEF Codex!ScanLine
  <2>2. QED
    BY <1>1, <1>4, <2>1 DEF Scanned
<1>5. CASE s.ok /\ ~(l.size <= MaxRecord)
  <2>1. l.size > MaxRecord
    BY <1>3, <1>5
  <2> DEFINE harmless == l.type = "ignored" /\ l.size <= MaxNonsemantic
  <2>2. n = [s EXCEPT !.ok = harmless]
    BY <1>5 DEF Codex!ScanLine
  <2>3. harmless => w = v
    BY <1>2, <2>1 DEF LineView
  <2>4. CASE harmless
    <3>1. n = s
      <4>1. s.ok = TRUE /\ harmless = TRUE
        BY <1>1, <1>5, <2>4
      <4>2. n = [s EXCEPT !.ok = TRUE]
        BY <2>2, <4>1
      <4> HIDE DEF n
      <4>3. QED
        BY <1>1, <4>1, <4>2 DEF ScanStates
    <3>2. QED
      BY <1>1, <2>3, <2>4, <3>1
  <2>5. CASE ~harmless
    <3>1. n = [s EXCEPT !.ok = FALSE]
      BY <2>2, <2>5
    <3>2. QED
      BY <1>1, <3>1, InDoubt
  <2>6. QED
    BY <2>4, <2>5
<1>6. CASE s.ok /\ l.size <= MaxRecord
  <2>1. n = Codex!ScanRecord(thread, s, l) /\ ~(l.size > MaxRecord)
    BY <1>3, <1>6 DEF Codex!ScanLine
  <2>2. CASE l.type = "ignored"
    <3>1. n = s /\ w = v
      BY <1>2, <2>1, <2>2 DEF LineView, Codex!ScanRecord
    <3>2. QED
      BY <1>1, <3>1
  <2>3. CASE l.type = "unsafe"
    <3>1. n = [s EXCEPT !.ok = FALSE]
      BY <2>1, <2>3 DEF Codex!ScanRecord
    <3>2. QED
      BY <1>1, <3>1, InDoubt
  <2>4. CASE l.type = "meta"
    <3>1. w = MetaView(v, l)
      BY <1>2, <2>1, <2>4 DEF LineView
    <3>2. QED
      BY <2>1, <2>4, <3>1, ScanMeta
  <2>5. CASE l.type = "context"
    BY <1>2, <1>6, <2>1, <2>5, ScanContext
  <2>6. CASE l.type = "end"
    <3>1. w = EndView(v, l)
      BY <1>2, <2>1, <2>6 DEF LineView
    <3>2. QED
      BY <2>1, <2>6, <3>1, ScanEnd
  <2>7. QED
    BY <1>3, <2>2, <2>3, <2>4, <2>5, <2>6
<1>7. QED
  BY <1>4, <1>5, <1>6

ScanInv(q, ls, s) == Scanned(s, View(Read(ls)))
ScanFold == INSTANCE FoldTheorems WITH Op <- ScanOp, Pick <- Greatest, Inv <- ScanInv

(* The lines are scanned from the first to the last.                       *)
LEMMA ScanInOrder == ScanFold!PicksLast
BY GreatestLast DEF ScanFold!PicksLast, ScanFold!Picks

(* The state that a scan starts in.                                        *)
NotYet == [ok |-> TRUE, alias |-> NONE, open |-> {}, ambiguous |-> {}]

(* After any lines the scan knows what the reader does.                    *)
LEMMA ScanKnows ==
  ASSUME NEW thread
  PROVE  \A ls \in Seq(LineSet) :
           Scanned(ScanFold!Folded(thread, NotYet, ls), View(Read(ls)))
<1>1. ScanInv(0, <<>>, NotYet)
  <2>1. NotYet \in ScanStates /\ NotYet.open = {} /\ NotYet.alias = NONE
    BY DEF NotYet, ScanStates, Sessions
  <2>2. View(Read(<<>>)) = NothingKnown
    BY ReadNothing, FreshFacts
  <2>3. IsFiniteSet({})
    BY FS_EmptySet
  <2>4. QED
    BY <2>1, <2>2, <2>3 DEF ScanInv, Scanned, Heard, NothingKnown
<1>2. ASSUME NEW ls \in Seq(LineSet), NEW l \in LineSet, NEW s, ScanInv(0, ls, s)
      PROVE  ScanInv(0, Append(ls, l), ScanOp(thread, s, l))
  <2>1. Read(Append(ls, l)) = Codex!ProcessLine(Read(ls), l)
    BY ReadGrows
  <2>2. /\ Read(ls) \in States /\ Distinct(Read(ls).contexts)
        /\ Read(ls).session = NONE => View(Read(ls)).open = {}
    BY ReadIsGood DEF Good
  <2>3. Scanned(s, View(Read(ls)))
    BY <1>2 DEF ScanInv
  <2>4. QED
    BY <2>1, <2>2, <2>3, ScanStep DEF ScanInv, ScanOp
<1>3. QED
  BY <1>1, <1>2, ScanInOrder, ScanFold!SeqInduction DEF ScanInv

(* A model that a scan resolves is that of every open turn it was asked for. *)
LEMMA ResolvedModel ==
  ASSUME NEW bytes \in Seq(Units), NEW thread, NEW cwd, cwd # NONE,
         NEW model, model = Codex!RuntimeModel(bytes, thread, cwd), model # NONE
  PROVE  \A c \in Codex!ToSet(Codex!OneRead(bytes).contexts) : c.cwd = cwd => c.model = model
<1> DEFINE ls == Codex!LinesOf(bytes)
           s == ScanFold!Folded(thread, NotYet, ls)
           models == {c.model : c \in {d \in s.open : d.cwd = cwd}}
<1>1. Codex!OneRead(bytes) = Read(ls)
  BY DEF Codex!OneRead, Read
<1>2. ls \in Seq(LineSet)
  BY LinesType
<1>3. Scanned(s, View(Read(ls)))
  BY <1>2, ScanKnows, SMTT(60)
<1>4. /\ s.ok /\ s.ambiguous = {} /\ Cardinality(models) = 1
      /\ model = CHOOSE m \in models : TRUE
  <2>1. /\ Codex!FoldLeft(LAMBDA a, l : Codex!ScanLine(thread, a, l), NotYet, ls) = s
    BY DEF Codex!FoldLeft, Codex!MapThenFoldSet, Codex!Max, ScanFold!Folded,
      ScanFold!FoldOf, ScanFold!MapThenFoldSet, Greatest, ScanOp
  <2> HIDE DEF s
  <2>2. QED
    BY <2>1, ZenonT(60) DEF Codex!RuntimeModel, NotYet, Codex!Cardinality, Cardinality
<1> HIDE DEF ls, s
<1>5. IsFiniteSet(models)
  <2> DEFINE asked == {d \in s.open : d.cwd = cwd}
             f == [d \in asked |-> d.model]
  <2>1. IsFiniteSet(asked)
    BY <1>3, FS_Subset DEF Scanned
  <2>2. f \in Surjection(asked, models)
    BY DEF Surjection
  <2> HIDE DEF asked, f, models
  <2>3. QED
    BY <2>1, <2>2, FS_Surjection
<1>6. PICK m : models = {m}
  BY <1>4, <1>5, FS_Singleton
<1>7. ASSUME NEW c \in Codex!ToSet(Codex!OneRead(bytes).contexts), c.cwd = cwd
      PROVE  c.model = model
  <2>1. c \in View(Read(ls)).open
    BY <1>1 DEF View
  <2>2. SpanOf(c) \in s.open
    BY <1>3, <1>4, <1>7, <2>1 DEF Scanned, Heard
  <2>3. c.model \in models
    BY <1>7, <2>2 DEF SpanOf
  <2> HIDE DEF models
  <2>4. QED
    BY <1>4, <1>6, <2>3
<1>8. QED
  BY <1>7

(* What is so of the units P that have been parsed, when records T were     *)
(* taken before those of the state.                                         *)
Kept(P, disc, T, st) == SoFar(FALSE, P, disc, T, st)

(* What that says.                                                         *)
LEMMA KeptFacts ==
  ASSUME NEW P, NEW disc, NEW T, NEW st
  PROVE  LET ls == Codex!LinesOf(P)
             t == AfterLines(ls, disc)
         IN  Kept(P, disc, T, st) <=>
               /\ disc \in BOOLEAN /\ Cut(P, disc) /\ Good(ls, st)
               /\ Honest(ls, T \o st.records)
               /\ disc => st.contexts = <<>>
               /\ Codex!Crowded(ls) \/ (View(st) = View(t) /\ T \o st.records = t.records)
BY DEF Kept, SoFar, Follows, Agrees

(* A state with other records, and its contexts in another order.           *)
LEMMA SameView ==
  ASSUME NEW ls, NEW st, Good(ls, st), NEW b \in States, Distinct(b.contexts),
         Codex!ToSet(b.contexts) = Codex!ToSet(st.contexts),
         b.session = st.session, b.meta = st.meta
  PROVE  Good(ls, b) /\ View(b) = View(st)
<1>1. View(b) = View(st)
  BY DEF View
<1>2. QED
  BY <1>1 DEF Good

(* The records of a batch are taken.                                        *)
LEMMA Retaken ==
  ASSUME NEW P, NEW disc, NEW T \in Seq(Contexts), NEW st, Kept(P, disc, T, st),
         NEW b, b = [st EXCEPT !.records = T \o st.records]
  PROVE  Kept(P, disc, <<>>, b)
<1> DEFINE ls == Codex!LinesOf(P)
           t == AfterLines(ls, disc)
           rs == T \o st.records
<1>1. /\ disc \in BOOLEAN /\ Cut(P, disc) /\ Good(ls, st) /\ Honest(ls, rs)
      /\ disc => st.contexts = <<>>
      /\ Codex!Crowded(ls) \/ (View(st) = View(t) /\ rs = t.records)
  BY KeptFacts
<1>2. st \in States /\ st.contexts \in Seq(Contexts) /\ Distinct(st.contexts)
      /\ st.records \in Seq(Contexts)
  BY <1>1 DEF Good, States
<1>3. rs \in Seq(Contexts) /\ <<>> \o rs = rs
  BY <1>2
<1> HIDE DEF ls, t
<1>4. /\ b \in States /\ b.contexts = st.contexts /\ b.records = rs
      /\ b.session = st.session /\ b.meta = st.meta
  BY <1>2, <1>3 DEF States
<1> HIDE DEF rs
<1>5. Good(ls, b) /\ View(b) = View(st) /\ b.records = rs /\ b.contexts = st.contexts
  BY <1>1, <1>2, <1>4, SameView
<1>6. <<>> \o b.records = rs
  BY <1>3, <1>5
<1>7. QED
  BY <1>1, <1>5, <1>6, KeptFacts DEF ls, t

(* The next batch starts without records, and with its turns sorted.        *)
LEMMA Continued ==
  ASSUME NEW P, NEW disc, NEW T \in Seq(Contexts), NEW st \in States,
         Kept(P, disc, <<>>, [st EXCEPT !.records = T]),
         NEW b, b = [st EXCEPT !.contexts = Codex!ByTurn(@), !.records = <<>>]
  PROVE  Kept(P, disc, T, b)
<1> DEFINE ls == Codex!LinesOf(P)
           t == AfterLines(ls, disc)
           a == [st EXCEPT !.records = T]
           cs == Codex!ByTurn(st.contexts)
<1>1. /\ disc \in BOOLEAN /\ Cut(P, disc) /\ Good(ls, a) /\ Honest(ls, <<>> \o a.records)
      /\ disc => a.contexts = <<>>
      /\ Codex!Crowded(ls) \/ (View(a) = View(t) /\ <<>> \o a.records = t.records)
  BY KeptFacts
<1>2. a.contexts = st.contexts /\ a.records = T /\ a \in States
  BY DEF States
<1>3. st.contexts \in Seq(Contexts) /\ Distinct(st.contexts)
  BY <1>1, <1>2 DEF Good, States
<1>4. /\ cs \in Seq(Contexts) /\ Distinct(cs) /\ Codex!ToSet(cs) = Codex!ToSet(st.contexts)
  BY <1>3, SortedFacts
<1>5. a.session = st.session /\ a.meta = st.meta
  BY DEF States
<1>6. <<>> \in Seq(Contexts) /\ T \o <<>> = T /\ <<>> \o T = T
  OBVIOUS
<1> HIDE DEF ls, t, a
<1>7. Good(ls, b) /\ View(b) = View(a) /\ b.records = <<>> /\ b.contexts = cs
  <2>1. /\ b \in States /\ b.contexts = cs /\ b.records = <<>>
        /\ b.session = st.session /\ b.meta = st.meta
    BY <1>4, <1>6 DEF States
  <2> HIDE DEF cs
  <2>2. QED
    BY <1>1, <1>2, <1>4, <1>5, <2>1, SameView
<1> HIDE DEF cs
<1>8. disc => cs = <<>>
  <2>1. ASSUME disc PROVE cs = <<>>
    <3>1. Codex!ToSet(st.contexts) = {}
      BY <1>1, <1>2, <2>1 DEF Codex!ToSet
    <3>2. \A i \in DOMAIN cs : FALSE
      BY <1>4, <3>1 DEF Codex!ToSet
    <3>3. cs \in Seq(Contexts) /\ Len(cs) \in Nat /\ DOMAIN cs = 1..Len(cs)
      BY <1>4
    <3>4. Len(cs) = 0
      <4>1. Len(cs) # 0 => 1 \in DOMAIN cs
        BY <3>3
      <4>2. QED
        BY <3>2, <4>1
    <3>5. QED
      BY <3>3, <3>4
  <2>2. QED
    BY <2>1
<1>9. T \o b.records = T /\ <<>> \o a.records = T
  BY <1>2, <1>6, <1>7
<1>10. QED
  BY <1>1, <1>7, <1>8, <1>9, KeptFacts DEF ls, t

(* Nothing has been read.                                                   *)
LEMMA KeptFresh == Kept(<<>>, FALSE, <<>>, Codex!Fresh)
<1>1. <<>> \o <<>> = <<>> /\ Codex!ToSet(<<>>) = {}
  BY DEF Codex!ToSet
<1>2. Honest(<<>>, <<>> \o Codex!Fresh.records)
  BY <1>1, FreshFacts DEF Honest
<1>3. AfterLines(<<>>, FALSE) = Codex!Fresh
  BY ReadNothing DEF AfterLines
<1>4. <<>> \o Codex!Fresh.records = Codex!Fresh.records
  BY <1>1, FreshFacts
<1>5. QED
  BY <1>2, <1>3, <1>4, FreshFacts, NoLines, KeptFacts DEF Cut

(* Nothing was taken from no units.                                         *)
LEMMA KeptNothing ==
  ASSUME NEW disc, NEW T \in Seq(Contexts), NEW st \in States,
         Kept(<<>>, disc, <<>>, [st EXCEPT !.records = T])
  PROVE  T = <<>>
<1> DEFINE a == [st EXCEPT !.records = T]
<1>1. disc = FALSE
  BY KeptFacts DEF Cut
<1>2. a.records = T /\ <<>> \o T = T
  BY DEF States
<1>3. ~Codex!Crowded(<<>>)
  <2>1. TurnsOf(<<>>) = {}
    BY DEF TurnsOf, Codex!ToSet
  <2>2. Cardinality(TurnsOf(<<>>)) = 0
    BY <2>1, FS_EmptySet
  <2>3. MaxRecords \in Nat
    BY ParserAssumption
  <2>4. ~(Cardinality(TurnsOf(<<>>)) > MaxRecords)
    BY <2>2, <2>3
  <2>5. QED
    BY <2>4 DEF Codex!Crowded, TurnsOf, Codex!Cardinality, Cardinality
<1>4. <<>> \o a.records = AfterLines(<<>>, FALSE).records
  BY <1>1, <1>3, NoLines, KeptFacts
<1>5. AfterLines(<<>>, FALSE).records = <<>>
  BY ReadNothing, FreshFacts DEF AfterLines
<1> HIDE DEF a
<1>6. QED
  BY <1>2, <1>4, <1>5

(* A chunk of a file whose first units have been parsed.                    *)
LEMMA KeptChunk ==
  ASSUME NEW b, Numbered(b), NEW n \in 0..Len(b), NEW size \in Nat,
         NEW P, P = SubSeq(b, 1, n), NEW T \in Seq(Contexts), NEW from,
         Kept(P, from.discarding, T, from.st),
         NEW data, data = Codex!Chunk(b, size, n),
         NEW c, c = Codex!ParseChunk(data, from),
         NEW taken1, taken1 = Codex!Prefix(data, c.used)
  PROVE  taken1 \in Seq(Units) /\ Kept(P \o taken1, c.discarding, T, c.st)
<1>1. data \in Seq(Units) /\ Numbered(P \o data)
  BY ChunkFacts
<1>2. b \in Seq(Units) /\ P \in Seq(Units)
  BY FirstUnits DEF Numbered
<1> DEFINE no == FALSE
<1>3. SoFar(no, P, from.discarding, T, from.st)
  BY DEF Kept
<1> HIDE DEF no
<1>4. /\ c.used \in 0..Len(data)
      /\ SoFar(no, P \o SubSeq(data, 1, c.used), c.discarding, T, c.st)
  BY <1>1, <1>2, <1>3, Chunked
<1>5. c.used \in Nat /\ c.used <= Len(data)
  BY <1>1, <1>4
<1>6. taken1 = SubSeq(data, 1, c.used) /\ taken1 \in Seq(Units)
  BY <1>1, <1>5, PrefixFacts
<1>7. QED
  BY <1>4, <1>6 DEF Kept, no


(* The answer to a call: what one read of the lines of its content says.   *)
Answered(op, arg, found, bytes) ==
  IF op = "namespace"
  THEN \A c \in Codex!ToSet(Codex!OneRead(bytes).contexts) :
         c.cwd = arg[2] => c.model = found
  ELSE LET said == IF op = "deferred" THEN arg.prefix ELSE bytes
           ids == IF op = "deferred" THEN {arg.id} ELSE arg
       IN  found = {r \in Codex!ToSet(Codex!OneRead(said).records) : Codex!Id(r) \in ids}

(* The files have numbered units.                                          *)
CodexFiles ==
  /\ files \in [Codex!Inodes -> Seq(Units)]
  /\ \A i \in Codex!Inodes : Numbered(files[i]) /\ Len(files[i]) <= MaxUnits
  /\ path \in Codex!Inodes /\ disturbed \in 0..MaxDisturbances /\ path <= disturbed + 1

(* What the checkpoint and the records taken so far are.                    *)
CheckpointInv ==
  /\ taken \in Seq(Contexts)
  /\ \A l \in locators : l.prefix \in Seq(Units)
  /\ checkpoint # NONE =>
       /\ checkpoint.prefix \in Seq(Units) /\ checkpoint.st \in States
       /\ Kept(checkpoint.prefix, checkpoint.discarding, <<>>,
               [checkpoint.st EXCEPT !.records = taken])

(* A read that has opened a file.                                          *)
OpenedReads ==
  [op : {"read"}, arg : {NONE}, step : {"opened"}, inode : Codex!Inodes, size : Nat,
   offset : {0}, data : {<<>>}, found : {NONE}]

(* What a read has parsed goes on from where the checkpoint is.             *)
ReadSoFar(j) ==
  /\ j.data \in Seq(Units) /\ j.offset \in Nat
  /\ IF j.offset = 0 THEN Kept(j.data, j.found.discarding, <<>>, j.found.st)
     ELSE /\ checkpoint # NONE /\ j.offset = Len(checkpoint.prefix)
          /\ Kept(checkpoint.prefix \o j.data, j.found.discarding, taken, j.found.st)

(* A call under way, and the answer to the last.                           *)
JobInv ==
  job # NONE =>
    \/ job \in OpenedReads
    \/ /\ job.step = "parsed"
       /\ IF job.op = "read" THEN ReadSoFar(job)
          ELSE Answered(job.op, job.arg, job.found, job.data)

AnswerInv == answer # NONE => Answered(answer.op, answer.arg, answer.found, answer.bytes)

CodexInv == CodexFiles /\ CheckpointInv /\ JobInv /\ AnswerInv

(* While the focus is on the parser, it moves alone.                       *)
LEMMA CodexMoves ==
  ASSUME [Next]_vars, focus = "codex"
  PROVE  [Codex!Next]_(Codex!vars)
<1>1. CASE UNCHANGED vars
  BY <1>1 DEF vars, codexVars, Codex!vars
<1>2. CASE Next
  BY <1>2 DEF Next, Codex!Next
<1>3. QED
  BY <1>1, <1>2

(* At the start nothing was written or read.                               *)
LEMMA CodexInit == Codex!Init => CodexInv
<1> SUFFICES ASSUME Codex!Init PROVE CodexInv
  OBVIOUS
<1>1. /\ files = [i \in Codex!Inodes |-> <<>>] /\ path = 1 /\ disturbed = 0
      /\ checkpoint = NONE /\ taken = <<>> /\ locators = {} /\ job = NONE /\ answer = NONE
  BY DEF Codex!Init
<1>2. MaxDisturbances \in Nat /\ MaxUnits \in Nat
  BY ParserAssumption
<1>3. 1 \in Codex!Inodes
  BY <1>2 DEF Codex!Inodes
<1>4. <<>> \in Seq(Units) /\ <<>> \in Seq(Contexts) /\ Len(<<>>) = 0 /\ Numbered(<<>>)
  BY DEF Numbered
<1>5. CodexFiles
  BY <1>1, <1>2, <1>3, <1>4 DEF CodexFiles
<1>6. QED
  BY <1>1, <1>4, <1>5 DEF CodexInv, CheckpointInv, JobInv, AnswerInv

(* What is kept while a checkpoint, the records, a call and its answer are. *)
LEMMA CodexSame ==
  ASSUME CodexInv, CodexFiles', UNCHANGED <<checkpoint, taken, locators, job, answer>>
  PROVE  CodexInv'
BY DEF CodexInv, CheckpointInv, JobInv, AnswerInv, ReadSoFar

(* A unit more keeps the units of a file in line.                           *)
LEMMA NumberedMore ==
  ASSUME NEW b, Numbered(b), NEW u \in Units,
         IF b = <<>> \/ Codex!Newline(b[Len(b)]) THEN u[2] = 1
         ELSE u[1] = b[Len(b)][1] /\ u[2] = b[Len(b)][2] + 1
  PROVE  Numbered(Append(b, u))
<1> DEFINE t == Append(b, u)
           n == Len(b) + 1
<1>1. /\ b \in Seq(Units) /\ Len(b) \in Nat /\ DOMAIN b = 1..Len(b)
  BY DEF Numbered
<1>2. /\ t \in Seq(Units) /\ DOMAIN t = 1..n /\ t[n] = u /\ n - 1 = Len(b)
      /\ \A i \in 1..Len(b) : t[i] = b[i]
  BY <1>1
<1>3. ASSUME NEW i \in 1..n
      PROVE  IF i = 1 \/ Codex!Newline(t[i - 1]) THEN t[i][2] = 1
             ELSE t[i][1] = t[i - 1][1] /\ t[i][2] = t[i - 1][2] + 1
  <2> HIDE DEF t
  <2>1. CASE i \in 1..Len(b)
    <3>1. i = 1 \/ (i - 1 \in 1..Len(b) /\ t[i - 1] = b[i - 1])
      BY <1>1, <1>2, <2>1
    <3>2. t[i] = b[i] /\ i \in DOMAIN b
      BY <1>1, <1>2, <2>1
    <3>3. QED
      BY <3>1, <3>2 DEF Numbered
  <2>2. CASE i = n
    <3>1. CASE b = <<>>
      <4>1. i = 1
        BY <1>1, <2>2, <3>1
      <4>2. QED
        BY <1>2, <2>2, <3>1, <4>1
    <3>2. CASE b # <<>>
      <4>1. Len(b) \in 1..Len(b) /\ n # 1
        BY <1>1, <3>2
      <4>2. t[i - 1] = b[Len(b)] /\ t[i] = u /\ i # 1
        BY <1>2, <2>2, <4>1
      <4>3. QED
        BY <3>2, <4>2
    <3>3. QED
      BY <3>1, <3>2
  <2>3. QED
    BY <1>1, <2>1, <2>2
<1>4. QED
  BY <1>2, <1>3 DEF Numbered

(* A program appends a unit to the file.                                   *)
LEMMA WriteStep == CodexInv /\ Codex!Write => CodexInv'
<1> SUFFICES ASSUME CodexInv, Codex!Write PROVE CodexInv'
  OBVIOUS
<1> DEFINE s == files[path]
           inside == s # <<>> /\ ~Codex!Newline(Codex!Last(s))
<1>1. CodexFiles /\ path \in Codex!Inodes /\ Numbered(s) /\ s \in Seq(Units)
  BY DEF CodexInv, CodexFiles
<1>2. PICK n \in DOMAIN Lines :
        /\ inside => n = Codex!Last(s)[1]
        /\ files' = [files EXCEPT ![path] =
                       Append(s, <<n, IF inside THEN Codex!Last(s)[2] + 1 ELSE 1>>)]
  BY DEF Codex!Write
<1> DEFINE u == <<n, IF inside THEN Codex!Last(s)[2] + 1 ELSE 1>>
<1>3. /\ Len(s) < MaxUnits
      /\ UNCHANGED <<path, disturbed, checkpoint, taken, locators, job, answer>>
  BY DEF Codex!Write
<1>4. Codex!Last(s) = s[Len(s)]
  BY DEF Codex!Last
<1>5. Lines[n].size \in Nat \ {0}
  BY ParserAssumption
<1>6. u \in Units /\ (IF s = <<>> \/ Codex!Newline(s[Len(s)]) THEN u[2] = 1
                      ELSE u[1] = s[Len(s)][1] /\ u[2] = s[Len(s)][2] + 1)
  <2>1. CASE ~inside
    BY <1>4, <1>5, <2>1 DEF Units
  <2>2. CASE inside
    <3>1. s[Len(s)] \in Units
      BY <1>1, <2>2
    <3>2. n = s[Len(s)][1]
      BY <1>2, <1>4, <2>2
    <3>3. s[Len(s)][2] \in Nat \ {0} /\ s[Len(s)][2] <= Lines[n].size
      BY <3>1, <3>2 DEF Units
    <3>4. s[Len(s)][2] # Lines[n].size
      BY <1>4, <2>2, <3>2 DEF Codex!Newline
    <3>5. u = <<n, s[Len(s)][2] + 1>>
      BY <1>4, <2>2
    <3> DEFINE k == s[Len(s)][2]
               m == Lines[n].size
    <3>6. k \in Nat \ {0} /\ k <= m /\ k # m /\ m \in Nat
      BY <1>5, <3>3, <3>4
    <3> HIDE DEF k, m
    <3>7. k + 1 \in Nat \ {0} /\ k + 1 <= m
      BY <3>6
    <3>8. u \in Units
      BY <3>5, <3>7 DEF k, m, Units
    <3>9. QED
      BY <1>4, <2>2, <3>2, <3>5, <3>8
  <2>3. QED
    BY <2>1, <2>2
<1> HIDE DEF u, inside
<1>7. Numbered(Append(s, u))
  BY <1>1, <1>6, NumberedMore
<1>8. files' = [files EXCEPT ![path] = Append(s, u)]
  BY <1>2 DEF u
<1>9. Append(s, u) \in Seq(Units) /\ Len(Append(s, u)) <= MaxUnits
  <2>1. Len(s) \in Nat /\ MaxUnits \in Nat /\ Len(Append(s, u)) = Len(s) + 1
    BY <1>1, <1>6, ParserAssumption
  <2>2. QED
    BY <1>1, <1>3, <1>6, <2>1
<1> HIDE DEF s
<1>10. CodexFiles'
  <2> DEFINE w == Append(s, u)
  <2>1. /\ files' = [files EXCEPT ![path] = w]
        /\ w \in Seq(Units) /\ Numbered(w) /\ Len(w) <= MaxUnits
    BY <1>7, <1>8, <1>9
  <2> HIDE DEF w
  <2>2. files' \in [Codex!Inodes -> Seq(Units)]
    BY <1>1, <2>1 DEF CodexFiles
  <2>3. \A i \in Codex!Inodes : files'[i] = IF i = path THEN w ELSE files[i]
    BY <1>1, <2>1 DEF CodexFiles
  <2>4. \A i \in Codex!Inodes : Numbered(files'[i]) /\ Len(files'[i]) <= MaxUnits
    BY <1>1, <2>1, <2>3 DEF CodexFiles
  <2>5. QED
    BY <1>1, <1>3, <2>2, <2>4 DEF CodexFiles, Codex!Inodes
<1>11. QED
  BY <1>3, <1>10, CodexSame

(* The file is truncated or replaced.                                      *)
LEMMA DisturbStep == CodexInv /\ (Codex!Truncate \/ Codex!ReplaceFile) => CodexInv'
<1> SUFFICES ASSUME CodexInv, Codex!Truncate \/ Codex!ReplaceFile PROVE CodexInv'
  OBVIOUS
<1>1. /\ CodexFiles /\ path \in Codex!Inodes /\ MaxDisturbances \in Nat /\ MaxUnits \in Nat
      /\ files \in [Codex!Inodes -> Seq(Units)]
      /\ \A i \in Codex!Inodes : Numbered(files[i]) /\ Len(files[i]) <= MaxUnits
      /\ disturbed \in 0..MaxDisturbances /\ path <= disturbed + 1
  BY ParserAssumption DEF CodexInv, CodexFiles
<1>2. <<>> \in Seq(Units) /\ Len(<<>>) = 0 /\ Numbered(<<>>)
  BY DEF Numbered
<1>3. PICK p, w :
        /\ path' = p /\ files' = [files EXCEPT ![p] = w] /\ p \in {path, path + 1}
        /\ w \in {<<>>, files[path]}
  <2>1. CASE Codex!Truncate
    BY <2>1 DEF Codex!Truncate
  <2>2. CASE Codex!ReplaceFile
    BY <2>2 DEF Codex!ReplaceFile
  <2>3. QED
    BY <2>1, <2>2
<1>4. /\ disturbed < MaxDisturbances /\ disturbed' = disturbed + 1
      /\ UNCHANGED <<checkpoint, taken, locators, job, answer>>
  BY DEF Codex!Truncate, Codex!ReplaceFile
<1>5. p \in Codex!Inodes /\ disturbed' \in 0..MaxDisturbances /\ p <= disturbed' + 1
  BY <1>1, <1>3, <1>4 DEF Codex!Inodes
<1>6. w \in Seq(Units) /\ Numbered(w) /\ Len(w) <= MaxUnits
  <2>1. CASE w = <<>>
    <3>1. 0 <= MaxUnits
      BY <1>1
    <3>2. QED
      BY <1>2, <2>1, <3>1
  <2>2. CASE w = files[path]
    BY <1>1, <2>2
  <2>3. QED
    BY <1>3, <2>1, <2>2
<1>7. files' \in [Codex!Inodes -> Seq(Units)]
      /\ \A i \in Codex!Inodes : files'[i] = IF i = p THEN w ELSE files[i]
  BY <1>1, <1>3, <1>5, <1>6
<1>8. \A i \in Codex!Inodes : Numbered(files'[i]) /\ Len(files'[i]) <= MaxUnits
  BY <1>1, <1>6, <1>7
<1>9. CodexFiles'
  BY <1>3, <1>5, <1>7, <1>8 DEF CodexFiles, Codex!Inodes
<1>10. QED
  BY <1>4, <1>9, CodexSame

(* A read opens the file.                                                  *)
LEMMA OpenReadStep == CodexInv /\ Codex!OpenRead => CodexInv'
<1> SUFFICES ASSUME CodexInv, Codex!OpenRead PROVE CodexInv'
  OBVIOUS
<1>1. /\ job' = Codex!Call("read", NONE) /\ answer' = NONE
      /\ UNCHANGED <<files, path, disturbed, checkpoint, taken, locators>>
  BY DEF Codex!OpenRead
<1>2. path \in Codex!Inodes /\ Len(files[path]) \in Nat
  BY DEF CodexInv, CodexFiles
<1>3. job' \in OpenedReads
  BY <1>1, <1>2 DEF Codex!Call, OpenedReads, Codex!Inodes
<1>4. CodexFiles' /\ CheckpointInv'
  BY <1>1 DEF CodexInv, CodexFiles, CheckpointInv, Codex!Inodes
<1>5. JobInv'
  <2>1. OpenedReads' = OpenedReads
    BY DEF OpenedReads, Codex!Inodes
  <2>2. job' \in OpenedReads'
    BY <1>3, <2>1
  <2>3. QED
    BY <2>2 DEF JobInv
<1>6. AnswerInv'
  BY <1>1 DEF AnswerInv
<1>7. QED
  BY <1>4, <1>5, <1>6 DEF CodexInv

(* A call that has parsed its content.                                      *)
LEMMA ParsedStep ==
  ASSUME CodexInv, NEW op, op # "read", NEW arg, NEW bytes, NEW found,
         Codex!Parsed(op, arg, bytes, found), Answered(op, arg, found, bytes)
  PROVE  CodexInv'
<1>1. /\ job' = [Codex!Call(op, arg) EXCEPT !.step = "parsed", !.data = bytes, !.found = found]
      /\ answer' = NONE
      /\ UNCHANGED <<files, path, disturbed, checkpoint, taken, locators>>
  BY DEF Codex!Parsed
<1>2. /\ job'.op = op /\ job'.arg = arg /\ job'.step = "parsed" /\ job'.data = bytes
      /\ job'.found = found
  BY <1>1 DEF Codex!Call
<1>3. CodexFiles' /\ CheckpointInv'
  BY <1>1 DEF CodexInv, CodexFiles, CheckpointInv, Codex!Inodes
<1>4. Answered(job'.op, job'.arg, job'.found, job'.data)
  BY <1>2
<1>5. JobInv'
  BY <1>2, <1>4 DEF JobInv
<1>6. AnswerInv'
  BY <1>1 DEF AnswerInv
<1>7. QED
  BY <1>3, <1>5, <1>6 DEF CodexInv

(* The records that were asked for are those of the replayed lines.         *)
LEMMA Replies ==
  ASSUME NEW bytes, Numbered(bytes), Len(bytes) <= MaxUnits, Codex!Replay(bytes).ok,
         NEW ids, NEW hits, hits = Codex!Named(Codex!Replay(bytes).at.st.records, ids)
  PROVE  {Codex!Replay(bytes).at.st.records[i] : i \in hits}
           = {r \in Codex!ToSet(Codex!OneRead(bytes).records) : Codex!Id(r) \in ids}
<1> DEFINE rs == Codex!Replay(bytes).at.st.records
<1>1. rs = Codex!OneRead(bytes).records
  BY Replayed
<1> HIDE DEF rs
<1>2. hits = {i \in DOMAIN rs : Codex!Id(rs[i]) \in ids}
  BY DEF Codex!Named, rs
<1>3. {rs[i] : i \in hits} = {r \in Codex!ToSet(rs) : Codex!Id(r) \in ids}
  BY <1>2 DEF Codex!ToSet
<1>4. QED
  BY <1>1, <1>3 DEF rs

(* The first units of a file, numbered and within its bounds.               *)
LEMMA FirstOfFile ==
  ASSUME NEW b, Numbered(b), Len(b) <= MaxUnits, NEW n \in Nat
  PROVE  LET p == Codex!Prefix(b, n) IN Numbered(p) /\ Len(p) <= MaxUnits /\ p \in Seq(Units)
<1> DEFINE p == Codex!Prefix(b, n)
<1>1. b \in Seq(Units) /\ Len(b) \in Nat /\ MaxUnits \in Nat
  BY ParserAssumption DEF Numbered
<1>2. p \in Seq(Units) /\ Len(p) <= Len(b) /\ Len(p) \in Nat
  <2>1. p \in Seq(Units) /\ Len(p) <= Len(b)
    BY <1>1, PrefixFacts
  <2> HIDE DEF p
  <2>2. QED
    BY <2>1
<1>3. Numbered(p)
  <2>1. CASE n <= Len(b)
    <3>1. p = SubSeq(b, 1, n) /\ n \in 0..Len(b)
      BY <1>1, <2>1, PrefixFacts
    <3>2. QED
      BY <3>1, NumberedFirst
  <2>2. CASE n > Len(b)
    BY <1>1, <2>2, PrefixFacts
  <2>3. QED
    BY <1>1, <2>1, <2>2
<1> HIDE DEF p
<1>4. Len(p) <= MaxUnits
  BY <1>1, <1>2
<1>5. QED
  BY <1>2, <1>3, <1>4 DEF p

(* The replay of a deferred record.                                        *)
LEMMA DeferredStep == CodexInv /\ Codex!ReplayDeferred => CodexInv'
<1> SUFFICES ASSUME CodexInv, Codex!ReplayDeferred PROVE CodexInv'
  OBVIOUS
<1>1. PICK l \in locators :
        /\ Codex!Prefix(files[path], Len(l.prefix)) = l.prefix
        /\ Codex!Replay(l.prefix).ok
        /\ Codex!Parsed("deferred", l, l.prefix,
             {Codex!Replay(l.prefix).at.st.records[i] :
                i \in Codex!Named(Codex!Replay(l.prefix).at.st.records, {l.id})})
  BY DEF Codex!ReplayDeferred
<1> DEFINE b == files[path]
           n == Len(l.prefix)
           bytes == l.prefix
<1>2. Numbered(b) /\ Len(b) <= MaxUnits /\ n \in Nat
  BY DEF CodexInv, CodexFiles, CheckpointInv
<1>3. Numbered(bytes) /\ Len(bytes) <= MaxUnits
  <2> HIDE DEF b, n
  <2>1. Numbered(Codex!Prefix(b, n)) /\ Len(Codex!Prefix(b, n)) <= MaxUnits
    BY <1>2, FirstOfFile
  <2>2. QED
    BY <1>1, <2>1 DEF b, n
<1> HIDE DEF bytes
<1> DEFINE ids == {l.id}
           found == {Codex!Replay(bytes).at.st.records[i] :
                       i \in Codex!Named(Codex!Replay(bytes).at.st.records, ids)}
<1>4. found = {r \in Codex!ToSet(Codex!OneRead(bytes).records) : Codex!Id(r) \in ids}
  <2> HIDE DEF ids
  <2> QED BY <1>1, <1>3, Replies, ZenonT(60) DEF bytes
<1>5. Codex!Parsed("deferred", l, bytes, found)
  BY <1>1 DEF bytes
<1> HIDE DEF found
<1>6. Answered("deferred", l, found, bytes)
  BY <1>4 DEF Answered, bytes
<1>7. QED
  BY <1>5, <1>6, ParsedStep

(* Up to the last newline of the tail is some number of units.              *)
LEMMA CompleteFacts ==
  ASSUME NEW b, Numbered(b)
  PROVE  Codex!CompletePrefix(b, Len(b)) \in Nat
<1> DEFINE size == Len(b)
           low == Codex!Max({1, size - MaxNonsemantic + 1})
           high == Codex!Min({size, size})
           ends == {i \in low..high : Codex!Newline(b[i])}
           all == {0} \cup ends
<1>1. size \in Nat /\ MaxNonsemantic \in Nat
  BY ParserAssumption DEF Numbered
<1>2. high = size
  BY <1>1, MinOfTwo
<1>3. low \in Int /\ low >= 1
  <2> DEFINE k == size - MaxNonsemantic + 1
             m == IF k >= 1 THEN k ELSE 1
  <2>1. k \in Int
    BY <1>1
  <2> HIDE DEF k
  <2>2. m \in {1, k} /\ \A y \in {1, k} : m >= y
    BY <2>1
  <2>3. \A x \in {1, k} : (\A y \in {1, k} : x >= y) => x >= 1 /\ x \in Int
    BY <2>1
  <2> HIDE DEF m
  <2>4. low = CHOOSE x \in {1, k} : \A y \in {1, k} : x >= y
    BY DEF Codex!Max, k
  <2> HIDE DEF low
  <2>5. QED
    BY <2>2, <2>3, <2>4
<1> HIDE DEF low, high, size
<1>4. all \in SUBSET (0..size) /\ all # {}
  BY <1>1, <1>2, <1>3
<1> HIDE DEF all
<1>5. \E x \in all : \A y \in all : x >= y
  BY <1>1, <1>4, LinesFold!GreatestExists
<1>6. Codex!CompletePrefix(b, Len(b)) = CHOOSE x \in all : \A y \in all : x >= y
  BY DEF Codex!CompletePrefix, Codex!Max, all, ends, low, high, size
<1>7. QED
  <2>1. Codex!CompletePrefix(b, Len(b)) \in 0..size
    BY <1>4, <1>5, <1>6
  <2>2. QED
    BY <1>1, <2>1

(* The replay of the records of a file.                                    *)
LEMMA RecordsStep == CodexInv /\ Codex!ReplayRecords => CodexInv'
<1> SUFFICES ASSUME CodexInv, Codex!ReplayRecords PROVE CodexInv'
  BY SMTT(60)
<1> DEFINE b == files[path]
           n == Codex!CompletePrefix(b, Len(b))
           bytes == Codex!Prefix(b, n)
           found(ids) == {Codex!Replay(bytes).at.st.records[i] :
                            i \in Codex!Named(Codex!Replay(bytes).at.st.records, ids)}
<1>1. PICK ids \in SUBSET {l.id : l \in locators} :
        Codex!Replay(bytes).ok /\ Codex!Parsed("records", ids, bytes, found(ids))
  BY DEF Codex!ReplayRecords
<1>2. Numbered(b) /\ Len(b) <= MaxUnits
  BY DEF CodexInv, CodexFiles
<1> HIDE DEF b
<1>3. n \in Nat
  BY <1>2, CompleteFacts
<1> HIDE DEF n
<1>4. Numbered(bytes) /\ Len(bytes) <= MaxUnits
  BY <1>2, <1>3, FirstOfFile
<1> HIDE DEF bytes
<1>5. found(ids) = {r \in Codex!ToSet(Codex!OneRead(bytes).records) : Codex!Id(r) \in ids}
  BY <1>1, <1>4, Replies
<1> HIDE DEF found
<1>6. Answered("records", ids, found(ids), bytes)
  BY <1>5 DEF Answered
<1>7. QED
  BY <1>1, <1>6, ParsedStep

(* The search for the model of the running turn.                           *)
LEMMA ModelStep == CodexInv /\ Codex!ReadRuntimeModel => CodexInv'
<1> SUFFICES ASSUME CodexInv, Codex!ReadRuntimeModel PROVE CodexInv'
  OBVIOUS
<1>1. PICK thread \in Threads, cwd \in Cwds :
        /\ Codex!RuntimeModel(files[path], thread, cwd) # NONE
        /\ Codex!Parsed("namespace", <<thread, cwd>>, files[path],
                        Codex!RuntimeModel(files[path], thread, cwd))
  BY DEF Codex!ReadRuntimeModel
<1> DEFINE b == files[path]
           model == Codex!RuntimeModel(b, thread, cwd)
           arg == <<thread, cwd>>
<1>2. b \in Seq(Units) /\ cwd # NONE /\ arg[2] = cwd
  BY ParserAssumption DEF CodexInv, CodexFiles
<1>3. model # NONE /\ Codex!Parsed("namespace", arg, b, model)
  BY <1>1
<1> HIDE DEF b, arg
<1>4. \A c \in Codex!ToSet(Codex!OneRead(b).contexts) : c.cwd = cwd => c.model = model
  BY <1>2, <1>3, ResolvedModel
<1> HIDE DEF model
<1>5. Answered("namespace", arg, model, b)
  BY <1>2, <1>4 DEF Answered
<1>6. QED
  BY <1>3, <1>5, ParsedStep

(* The read parses chunks from the checkpoint on.                          *)
LEMMA ParseReadStep == CodexInv /\ Codex!ParseRead => CodexInv'
<1> SUFFICES ASSUME CodexInv, Codex!ParseRead PROVE CodexInv'
  OBVIOUS
<1> DEFINE b == files[job.inode]
           r == Codex!ResumeState(job.inode, job.size)
           data == Codex!Chunk(b, job.size, r.offset)
           c == Codex!ParseChunk(data, r.at)
           got == Codex!Prefix(data, c.used)
           found == Codex!Resumed(c.st, c.discarding)
<1>1. /\ job # NONE /\ job.step = "opened"
      /\ job' = [job EXCEPT !.step = "parsed", !.offset = r.offset, !.data = got,
                            !.found = found]
      /\ UNCHANGED <<files, path, disturbed, checkpoint, taken, locators, answer>>
  BY DEF Codex!ParseRead
<1>2. job \in OpenedReads
  BY <1>1 DEF CodexInv, JobInv
<1>3. /\ job.inode \in Codex!Inodes /\ job.size \in Nat
      /\ job'.op = "read" /\ job'.step = "parsed" /\ job'.offset = r.offset
      /\ job'.data = got /\ job'.found = found
  <2> HIDE DEF r, got, found
  <2>1. QED
    BY <1>1, <1>2 DEF OpenedReads
<1>4. Numbered(b)
  BY <1>3 DEF CodexInv, CodexFiles
<1>5. b \in Seq(Units) /\ Len(b) \in Nat
  BY <1>4 DEF Numbered
<1>6. found.st = c.st /\ found.discarding = c.discarding
  BY DEF Codex!Resumed
<1> DEFINE resumes == /\ checkpoint # NONE
                      /\ checkpoint.inode = job.inode /\ checkpoint.observed <= job.size
                      /\ Codex!Prefix(b, Len(checkpoint.prefix)) = checkpoint.prefix
<1>7. /\ taken \in Seq(Contexts)
      /\ checkpoint # NONE =>
           /\ checkpoint.prefix \in Seq(Units) /\ checkpoint.st \in States
           /\ Kept(checkpoint.prefix, checkpoint.discarding, <<>>,
                   [checkpoint.st EXCEPT !.records = taken])
  BY DEF CodexInv, CheckpointInv
<1>8. \/ r.offset = 0 /\ Kept(<<>>, r.at.discarding, <<>>, r.at.st)
      \/ /\ checkpoint # NONE /\ r.offset # 0 /\ r.offset = Len(checkpoint.prefix)
         /\ r.offset \in 0..Len(b) /\ checkpoint.prefix = SubSeq(b, 1, r.offset)
         /\ Kept(checkpoint.prefix, r.at.discarding, taken, r.at.st)
  <2>1. CASE ~resumes
    <3>1. r = [offset |-> 0, at |-> Codex!Resumed(Codex!Fresh, FALSE)]
      BY <2>1 DEF Codex!ResumeState
    <3>2. r.offset = 0 /\ r.at.st = Codex!Fresh /\ r.at.discarding = FALSE
      BY <3>1 DEF Codex!Resumed
    <3> HIDE DEF r
    <3>3. QED
      BY <3>2, KeptFresh
  <2>2. CASE resumes
    <3> DEFINE P == checkpoint.prefix
               n == Len(P)
               st == checkpoint.st
               disc == checkpoint.discarding
               sorted == [st EXCEPT !.contexts = Codex!ByTurn(@), !.records = <<>>]
    <3>1. r = [offset |-> n, at |-> Codex!Resumed(sorted, disc)]
      BY <2>2 DEF Codex!ResumeState
    <3>2. r.offset = n /\ r.at.st = sorted /\ r.at.discarding = disc
      BY <3>1 DEF Codex!Resumed
    <3>3. /\ P \in Seq(Units) /\ st \in States /\ n \in Nat
          /\ Kept(P, disc, <<>>, [st EXCEPT !.records = taken])
      BY <1>7, <2>2
    <3>4. P = Codex!Prefix(b, n)
      BY <2>2
    <3>5. Kept(P, disc, taken, sorted)
      <4> HIDE DEF P, disc, st
      <4> QED BY <1>7, <3>3, Continued, ZenonT(60)
    <3>6. CASE n = 0
      <4>1. P = <<>>
        BY <3>3, <3>6
      <4>2. taken = <<>>
        <5> HIDE DEF P, disc, st
        <5> QED BY <1>7, <3>3, <4>1, KeptNothing
      <4> HIDE DEF P, sorted, disc, r, n
      <4>3. Kept(<<>>, r.at.discarding, <<>>, r.at.st)
        BY <3>2, <3>5, <4>1, <4>2
      <4>4. QED
        BY <3>2, <3>6, <4>3
    <3>7. CASE n # 0
      <4> HIDE DEF b, sorted, disc, r, n
      <4>1. n <= Len(b)
        <5>1. n > Len(b) => Codex!Prefix(b, n) = b
          BY <1>5, <3>3, PrefixFacts
        <5>2. n > Len(b) => n = Len(b)
          BY <3>4, <5>1 DEF n
        <5>3. QED
          BY <1>5, <3>3, <5>2
      <4>2. P = SubSeq(b, 1, n) /\ n \in 0..Len(b)
        BY <1>5, <3>3, <3>4, <4>1, PrefixFacts
      <4>3. Kept(P, r.at.discarding, taken, r.at.st)
        BY <3>2, <3>5
      <4>4. QED
        BY <2>2, <3>2, <3>7, <4>2, <4>3 DEF n
    <3>8. QED
      BY <3>6, <3>7
  <2>3. QED
    BY <2>1, <2>2
<1>9. ASSUME NEW P, NEW T \in Seq(Contexts), r.offset \in 0..Len(b),
             P = SubSeq(b, 1, r.offset), Kept(P, r.at.discarding, T, r.at.st)
      PROVE  got \in Seq(Units) /\ Kept(P \o got, found.discarding, T, found.st)
  <2> DEFINE n == r.offset
             from == r.at
             size == job.size
  <2>1. /\ Numbered(b) /\ n \in 0..Len(b) /\ size \in Nat /\ P = SubSeq(b, 1, n)
        /\ Kept(P, from.discarding, T, from.st)
        /\ data = Codex!Chunk(b, size, n) /\ c = Codex!ParseChunk(data, from)
        /\ got = Codex!Prefix(data, c.used)
    BY <1>3, <1>4, <1>9
  <2> HIDE DEF b, n, from, size, data, c, got, r, found
  <2>2. got \in Seq(Units) /\ Kept(P \o got, c.discarding, T, c.st)
    BY <2>1, KeptChunk
  <2>3. QED
    BY <1>6, <2>2, SMTT(60)
<1> HIDE DEF b, r, data, c, got, found, resumes
<1>10. ReadSoFar(job)'
  <2>1. CASE r.offset = 0 /\ Kept(<<>>, r.at.discarding, <<>>, r.at.st)
    <3>1. SubSeq(b, 1, 0) = <<>> /\ 0 \in 0..Len(b) /\ <<>> \in Seq(Contexts)
      BY <1>5
    <3>2. got \in Seq(Units) /\ Kept(<<>> \o got, found.discarding, <<>>, found.st)
      BY <1>9, <2>1, <3>1
    <3>3. <<>> \o got = got
      BY <3>2
    <3>4. got \in Seq(Units) /\ r.offset = 0 /\ Kept(got, found.discarding, <<>>, found.st)
      BY <2>1, <3>2, <3>3
    <3>5. QED
      BY <1>3, <3>4 DEF ReadSoFar
  <2>2. CASE /\ checkpoint # NONE /\ r.offset # 0 /\ r.offset = Len(checkpoint.prefix)
             /\ r.offset \in 0..Len(b) /\ checkpoint.prefix = SubSeq(b, 1, r.offset)
             /\ Kept(checkpoint.prefix, r.at.discarding, taken, r.at.st)
    <3>1. got \in Seq(Units)
          /\ Kept(checkpoint.prefix \o got, found.discarding, taken, found.st)
      BY <1>7, <1>9, <2>2, ZenonT(60)
    <3>2. r.offset \in Nat
      BY <1>5, <2>2
    <3>3. QED
      BY <1>1, <1>3, <2>2, <3>1, <3>2 DEF ReadSoFar
  <2>3. QED
    BY <1>8, <2>1, <2>2
<1>11. JobInv'
  BY <1>3, <1>10 DEF JobInv, ReadSoFar
<1>12. CodexFiles' /\ CheckpointInv' /\ AnswerInv'
  BY <1>1 DEF CodexInv, CodexFiles, CheckpointInv, AnswerInv, Codex!Inodes
<1>13. QED
  BY <1>11, <1>12 DEF CodexInv

(* Units that follow the first ones make more first ones.                   *)
LEMMA FirstAndNext ==
  ASSUME NEW b \in Seq(Units), NEW n \in Nat, NEW k \in Nat, n + k <= Len(b)
  PROVE  SubSeq(b, 1, n + k) = SubSeq(b, 1, n) \o SubSeq(b, n + 1, n + k)
<1> DEFINE w == SubSeq(b, 1, n + k)
           p == SubSeq(b, 1, n)
           d == SubSeq(b, n + 1, n + k)
           r == p \o d
<1>1. n + k \in 0..Len(b) /\ n \in 0..Len(b) /\ Len(b) \in Nat
  OBVIOUS
<1>2. w \in Seq(Units) /\ Len(w) = n + k /\ \A i \in 1..n + k : w[i] = b[i]
  BY <1>1, FirstUnits
<1>3. p \in Seq(Units) /\ Len(p) = n /\ \A i \in 1..n : p[i] = b[i]
  BY <1>1, FirstUnits
<1>4. d \in Seq(Units) /\ Len(d) = k /\ \A i \in 1..k : d[i] = b[n + i]
  BY <1>1
<1> HIDE DEF w, p, d
<1>5. /\ r \in Seq(Units) /\ Len(r) = Len(p) + Len(d)
      /\ \A i \in 1..Len(p) + Len(d) : r[i] = IF i <= Len(p) THEN p[i] ELSE d[i - Len(p)]
  BY <1>3, <1>4, ConcatProperties
<1> HIDE DEF r
<1>6. ASSUME NEW i \in 1..n + k PROVE r[i] = w[i]
  <2>1. CASE i <= n
    <3>1. i \in 1..n /\ i \in 1..Len(p) + Len(d)
      BY <1>3, <1>4, <2>1
    <3>2. QED
      BY <1>2, <1>3, <1>5, <2>1, <3>1
  <2>2. CASE ~(i <= n)
    <3>1. i - n \in 1..k /\ n + (i - n) = i
      BY <2>2
    <3>2. d[i - n] = b[n + (i - n)]
      BY <1>4, <3>1
    <3>3. r[i] = d[i - n]
      BY <1>3, <1>4, <1>5, <2>2
    <3>4. QED
      BY <1>2, <3>1, <3>2, <3>3
  <2>3. QED
    BY <2>1, <2>2
<1>7. r = w
  BY <1>2, <1>3, <1>4, <1>5, <1>6, SeqEqual
<1>8. QED
  BY <1>7 DEF r, w, p, d

(* The read is verified, and its checkpoint and records are taken.         *)
LEMMA VerifyReadStep == CodexInv /\ Codex!VerifyRead => CodexInv'
<1> SUFFICES ASSUME CodexInv, Codex!VerifyRead PROVE CodexInv'
  OBVIOUS
<1> DEFINE b == files[path]
           n == job.offset
           data == job.data
           k == Len(data)
           st == job.found.st
           disc == job.found.discarding
           P == Codex!Prefix(b, n + k)
           all == IF n = 0 THEN st.records ELSE taken \o st.records
<1>1. /\ job # NONE /\ job.step = "parsed" /\ job.op = "read" /\ job' = NONE
      /\ UNCHANGED <<files, path, disturbed, answer>>
  BY DEF Codex!VerifyRead
<1>2. CodexFiles' /\ JobInv' /\ AnswerInv'
  BY <1>1 DEF CodexInv, CodexFiles, JobInv, AnswerInv, Codex!Inodes
<1>3. CASE ~Codex!SameBytes(job)
  <2>1. UNCHANGED <<checkpoint, taken, locators>>
    BY <1>3 DEF Codex!VerifyRead
  <2>2. CheckpointInv'
    BY <2>1 DEF CodexInv, CheckpointInv
  <2>3. QED
    BY <1>2, <2>2 DEF CodexInv
<1>4. CASE Codex!SameBytes(job)
  <2>1. /\ checkpoint' = [inode |-> path, prefix |-> P, observed |-> job.size,
                          discarding |-> disc, st |-> st]
        /\ taken' = all
        /\ locators' = locators
           \/ locators' = {[id |-> Codex!Id(r), prefix |-> P, inode |-> path] :
                             r \in Codex!ToSet(st.records)}
    BY <1>4 DEF Codex!VerifyRead
  <2>2. ReadSoFar(job)
    BY <1>1 DEF CodexInv, JobInv, OpenedReads
  <2>3. /\ data \in Seq(Units) /\ n \in Nat /\ k \in Nat /\ b \in Seq(Units) /\ Len(b) \in Nat
        /\ taken \in Seq(Contexts) /\ \A l \in locators : l.prefix \in Seq(Units)
    BY <2>2 DEF ReadSoFar, CodexInv, CodexFiles, CheckpointInv
  <2>4. /\ n + k <= Len(b) /\ SubSeq(b, n + 1, n + k) = data
        /\ n > 0 => Codex!Prefix(b, n) = checkpoint.prefix
    BY <1>4, <2>3 DEF Codex!SameBytes
  <2>5. IF n = 0 THEN Kept(data, disc, <<>>, st)
        ELSE checkpoint # NONE /\ Kept(checkpoint.prefix \o data, disc, taken, st)
    BY <2>2 DEF ReadSoFar
  <2> HIDE DEF b, n, data, k, st, disc
  <2>6. P = SubSeq(b, 1, n + k) /\ P \in Seq(Units)
    BY <2>3, <2>4, PrefixFacts
  <2>7. P = SubSeq(b, 1, n) \o data
    BY <2>3, <2>4, <2>6, FirstAndNext
  <2> HIDE DEF P
  <2>8. PICK T \in Seq(Contexts) : Kept(P, disc, T, st) /\ all = T \o st.records
    <3>1. CASE n = 0
      <4>1. SubSeq(b, 1, n) = <<>> /\ <<>> \o data = data /\ <<>> \in Seq(Contexts)
        BY <2>3, <3>1
      <4>2. P = data
        BY <2>7, <4>1
      <4>3. Kept(P, disc, <<>>, st)
        BY <2>5, <3>1, <4>2
      <4>4. st.records \in Seq(Contexts)
        BY <4>3, KeptFacts DEF Good, States
      <4>5. all = <<>> \o st.records
        BY <3>1, <4>4
      <4>6. QED
        BY <4>1, <4>3, <4>5
    <3>2. CASE n # 0
      <4>1. n > 0 /\ n <= Len(b)
        BY <2>3, <2>4, <3>2
      <4>2. SubSeq(b, 1, n) = checkpoint.prefix
        BY <2>3, <2>4, <4>1, PrefixFacts
      <4>3. Kept(P, disc, taken, st)
        BY <2>5, <2>7, <3>2, <4>2
      <4>4. QED
        BY <2>3, <3>2, <4>3
    <3>3. QED
      BY <3>1, <3>2
  <2>9. st \in States /\ st.records \in Seq(Contexts) /\ all \in Seq(Contexts)
    <3>1. st \in States /\ st.records \in Seq(Contexts)
      BY <2>8, KeptFacts DEF Good, States
    <3> HIDE DEF all
    <3>2. QED
      BY <2>8, <3>1
  <2> HIDE DEF all
  <2>10. Kept(P, disc, <<>>, [st EXCEPT !.records = all])
    BY <2>8, Retaken
  <2>11. /\ checkpoint'.prefix = P /\ checkpoint'.discarding = disc /\ checkpoint'.st = st
    BY <2>1
  <2>12. \A l \in locators' : l.prefix \in Seq(Units)
    <3>1. CASE locators' = locators
      BY <2>3, <3>1
    <3>2. CASE locators' = {[id |-> Codex!Id(r), prefix |-> P, inode |-> path] :
                              r \in Codex!ToSet(st.records)}
      <4>1. ASSUME NEW l \in locators' PROVE l.prefix \in Seq(Units)
        <5>1. PICK r \in Codex!ToSet(st.records) :
                l = [id |-> Codex!Id(r), prefix |-> P, inode |-> path]
          BY <3>2
        <5>2. l.prefix = P
          BY <5>1
        <5>3. QED
          BY <2>6, <5>2
      <4>2. QED
        BY <4>1
    <3>3. QED
      BY <2>1, <3>1, <3>2
  <2>13. CheckpointInv'
    BY <2>1, <2>6, <2>9, <2>10, <2>11, <2>12 DEF CheckpointInv
  <2>14. QED
    BY <1>2, <2>13 DEF CodexInv
<1>5. QED
  BY <1>3, <1>4

(* A replay is verified, and answers.                                      *)
LEMMA VerifyAnswerStep == CodexInv /\ Codex!VerifyAnswer => CodexInv'
<1> SUFFICES ASSUME CodexInv, Codex!VerifyAnswer PROVE CodexInv'
  OBVIOUS
<1>1. /\ job # NONE /\ job.step = "parsed" /\ job.op # "read" /\ job' = NONE
      /\ UNCHANGED <<files, path, disturbed, checkpoint, taken, locators>>
      /\ \/ answer' = NONE
         \/ answer' = [op |-> job.op, arg |-> job.arg, found |-> job.found, bytes |-> job.data]
  BY DEF Codex!VerifyAnswer
<1>2. Answered(job.op, job.arg, job.found, job.data)
  BY <1>1 DEF CodexInv, JobInv, OpenedReads
<1>3. AnswerInv'
  <2>1. CASE answer' = NONE
    BY <2>1 DEF AnswerInv
  <2>2. CASE answer' = [op |-> job.op, arg |-> job.arg, found |-> job.found,
                        bytes |-> job.data]
    <3>1. /\ answer'.op = job.op /\ answer'.arg = job.arg /\ answer'.found = job.found
          /\ answer'.bytes = job.data
      BY <2>2
    <3>2. Answered(answer'.op, answer'.arg, answer'.found, answer'.bytes)
      BY <1>2, <3>1
    <3>3. QED
      BY <3>2 DEF AnswerInv
  <2>3. QED
    BY <1>1, <2>1, <2>2
<1>4. CodexFiles' /\ CheckpointInv' /\ JobInv'
  BY <1>1 DEF CodexInv, CodexFiles, CheckpointInv, JobInv, Codex!Inodes
<1>5. QED
  BY <1>3, <1>4 DEF CodexInv

(* No step of the parser disturbs its invariant.                           *)
LEMMA CodexStep == CodexInv /\ [Codex!Next]_(Codex!vars) => CodexInv'
<1> SUFFICES ASSUME CodexInv, [Codex!Next]_(Codex!vars) PROVE CodexInv'
  OBVIOUS
<1>1. CASE UNCHANGED Codex!vars
  <2>1. CodexFiles'
    BY <1>1 DEF CodexInv, CodexFiles, Codex!vars, Codex!Inodes
  <2>2. QED
    BY <1>1, <2>1, CodexSame DEF Codex!vars
<1>2. CASE Codex!Next
  BY <1>2, WriteStep, DisturbStep, OpenReadStep, ParseReadStep, DeferredStep, RecordsStep,
     ModelStep, VerifyReadStep, VerifyAnswerStep DEF Codex!Next
<1>3. QED
  BY <1>1, <1>2

(* The invariant says that the parser is exact.                             *)
LEMMA ExactlyParsed == CodexInv => Codex!ReadsAsWritten /\ Codex!AnswersAsRead
<1> SUFFICES ASSUME CodexInv PROVE Codex!ReadsAsWritten /\ Codex!AnswersAsRead
  OBVIOUS
<1>1. ASSUME checkpoint # NONE
      PROVE  /\ Codex!Crowded(Codex!LinesOf(checkpoint.prefix))
                \/ taken = Codex!OneRead(checkpoint.prefix).records
             /\ \A r \in Codex!ToSet(taken) : ClosedIn(Codex!LinesOf(checkpoint.prefix), r)
  <2> DEFINE P == checkpoint.prefix
             ls == Codex!LinesOf(P)
             disc == checkpoint.discarding
             st == [checkpoint.st EXCEPT !.records = taken]
             t == AfterLines(ls, disc)
  <2>1. /\ taken \in Seq(Contexts) /\ P \in Seq(Units) /\ checkpoint.st \in States
        /\ Kept(P, disc, <<>>, st)
    BY <1>1 DEF CodexInv, CheckpointInv
  <2>2. st.records = taken /\ <<>> \o taken = taken
    BY <2>1 DEF States
  <2> HIDE DEF st, disc, P
  <2>3. Honest(ls, taken) /\ (Codex!Crowded(ls) \/ taken = t.records)
    <3>1. /\ Honest(ls, <<>> \o st.records)
          /\ Codex!Crowded(ls) \/ <<>> \o st.records = t.records
      BY <2>1, KeptFacts
    <3>2. <<>> \o st.records = taken
      BY <2>2
    <3>3. QED
      BY <3>1, <3>2
  <2>4. ls \in Seq(LineSet)
    BY <2>1, LinesType
  <2>5. Codex!OneRead(P) = Read(ls)
    BY DEF Codex!OneRead, Read
  <2> HIDE DEF ls
  <2>6. t.records = Read(ls).records
    <3>1. Read(ls) \in States
      BY <2>4, ReadIsGood DEF Good
    <3>2. QED
      BY <3>1, InvalidatedFacts DEF AfterLines
  <2>7. QED
    BY <2>3, <2>5, <2>6 DEF Honest, P, ls
<1>2. Codex!AsOneRead
  BY <1>1 DEF Codex!AsOneRead
<1>3. Codex!NoBorrowedContext
  BY <1>1 DEF Codex!NoBorrowedContext, ClosedIn, Gives, Leaves
<1>4. Codex!ReplayAgrees
  BY DEF CodexInv, AnswerInv, Answered, Codex!ReplayAgrees
<1>5. Codex!NamespaceAgrees
  BY DEF CodexInv, AnswerInv, Answered, Codex!NamespaceAgrees
<1>6. QED
  BY <1>2, <1>3, <1>4, <1>5 DEF Codex!ReadsAsWritten, Codex!AnswersAsRead

(* What the parser takes and answers is what one read of the lines says.    *)
THEOREM ParserAlwaysExact == Spec => []ParserIsExact
<1>1. Init => (focus = "codex" => CodexInv)
  BY CodexInit DEF Init
<1>2. (focus = "codex" => CodexInv) /\ [Next]_vars => (focus = "codex" => CodexInv)'
  BY FocusStays, CodexMoves, CodexStep
<1>3. (focus = "codex" => CodexInv) => ParserIsExact
  BY ExactlyParsed DEF ParserIsExact
<1>4. QED
  BY <1>1, <1>2, <1>3, PTL DEF Spec
=============================================================================
