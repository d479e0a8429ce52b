--------------------------- MODULE ChatGPTImport ---------------------------
(* Import of ChatGPT export archives: the snapshot of the project registry  *)
(* taken first, the archive read under one identity, and one transaction    *)
(* per conversation, while the registry and the directories change, another *)
(* import runs and the process may be stopped between any two steps.        *)
(*                                                                          *)
(* A project is the directory it is registered for; the archive's content   *)
(* hash is the archive.                                                     *)
EXTENDS Integers, Sequences, SequencesExt, FiniteSets, FiniteSetsExt

CONSTANTS
  Importers,
  Projects,
  Archives,      \* archive -> sequence of conversations
  Within(_, _),  \* Within(p, q): the directory of p lies in that of q
  MaxGeneration, \* bound on changes of the registry
  MaxMoves,      \* bound on directories replaced and archives overwritten
  NONE

VARIABLES
  registry,    \* project -> [known, enabled, identity]
  generation,  \* project_registry_state
  live,        \* project -> the identity of the directory at its path
  zip,         \* the archive at the path: [archive, stamp]
  sources,     \* source_refs: [id, version, project]
  receipts,    \* import_receipts: <<archive, id>>
  run          \* importer -> its import

vars == <<registry, generation, live, zip, sources, receipts, run>>

Idle == [pc |-> "idle", dry |-> FALSE, generation |-> 0, rows |-> <<>>, archive |-> NONE,
         stamp |-> 0, content |-> NONE, at |-> 1, project |-> NONE, kind |-> NONE]

----------------------------------------------------------------------------
(* Which project a conversation is about.                                  *)

(* The strongest mention of p, and whether the text holds its path.        *)
Confidence(p, m) ==
  IF p \in m.paths THEN 100
  ELSE IF p \in m.remotes THEN 95
  ELSE IF m.coding /\ p \in m.names THEN 85
  ELSE 0

(* An ancestor named by path gives way to the nested project named by path. *)
Candidates(rows, m) ==
  {p \in DOMAIN rows :
     /\ Confidence(p, m) > 0
     /\ ~ \E q \in DOMAIN rows : Within(q, p) /\ {p, q} \subseteq m.paths}

Match(rows, m) ==
  LET enabled == {p \in Candidates(rows, m) : rows[p].enabled}
      best == Max({0} \cup {Confidence(p, m) : p \in enabled})
      winners == {p \in enabled : Confidence(p, m) = best}
      blockers == {p \in Candidates(rows, m) \ enabled :
                     Confidence(p, m) >= best \/ \E w \in winners : Within(p, w)}
  IN  [winners |-> IF blockers = {} THEN winners ELSE {},
       blocked |-> blockers # {},
       project |-> IF blockers = {} /\ \E p \in winners : winners = {p}
                   THEN CHOOSE p \in winners : TRUE ELSE NONE]

----------------------------------------------------------------------------
(* The visible branch of a conversation: from its latest leaf up to the    *)
(* root, unless the tree has a cycle or an orphan.                          *)

Leaf(nodes) ==
  LET leaves == {n \in DOMAIN nodes : nodes[n].children = {}}
      among == IF leaves = {} THEN DOMAIN nodes ELSE leaves
  IN  CHOOSE n \in among : \A k \in among :
        nodes[k].time < nodes[n].time \/ (nodes[k].time = nodes[n].time /\ k <= n)

(* The branch in the order of the conversation; <<>> when it is broken.    *)
Branch(nodes) ==
  LET up[n \in Nat] ==
        IF n = 0 THEN <<Leaf(nodes)>>
        ELSE LET b == up[n - 1] IN
             IF b = <<>> THEN <<>>
             ELSE LET p == nodes[Head(b)].parent IN
                  IF p = NONE THEN b
                  ELSE IF p \in ToSet(b) \/ p \notin DOMAIN nodes THEN <<>>
                  ELSE IF Head(b) \notin nodes[p].children THEN <<>>
                  ELSE <<p>> \o b
  IN  up[Cardinality(DOMAIN nodes)]

(* The last answer with a label that follows its question directly; 0 when *)
(* no task was completed.                                                   *)
Segment(c) ==
  LET b == Branch(c.nodes)
  IN  Max({0} \cup {i \in 2..Len(b) : /\ c.nodes[b[i]].role = "assistant"
                                       /\ c.nodes[b[i]].labels # "none"
                                       /\ c.nodes[b[i - 1]].role = "user"})

Completed(c) == Segment(c) # 0

(* What the answer of that exchange says can be stored: a label that is not *)
(* valid leaves nothing, and no earlier answer stands in for it.            *)
Stated(c) == Completed(c) /\ c.nodes[Branch(c.nodes)[Segment(c)]].labels = "stated"

----------------------------------------------------------------------------
(* The owner, reconcile and other programs.                                *)

ToggleEnabled ==
  /\ generation < MaxGeneration
  /\ generation' = generation + 1
  /\ \E p \in Projects : /\ registry[p].known
                         /\ registry' = [registry EXCEPT ![p].enabled = ~@]
  /\ UNCHANGED <<live, zip, sources, receipts, run>>

(* Reconcile registers a directory, or binds its project to it again.      *)
BindDirectory ==
  /\ generation < MaxGeneration
  /\ generation' = generation + 1
  /\ \E p \in Projects :
       /\ ~registry[p].known \/ registry[p].identity # live[p]
       /\ registry' = [registry EXCEPT ![p] =
            [known |-> TRUE, identity |-> live[p],
             enabled |-> IF registry[p].known THEN registry[p].enabled ELSE TRUE]]
  /\ UNCHANGED <<live, zip, sources, receipts, run>>

Moves == zip.stamp + FoldSet(LAMBDA p, n : n + live[p], 0, Projects)

ReplaceDirectory ==
  /\ Moves < MaxMoves
  /\ \E p \in Projects : live' = [live EXCEPT ![p] = @ + 1]
  /\ UNCHANGED <<registry, generation, zip, sources, receipts, run>>

OverwriteArchive ==
  /\ Moves < MaxMoves
  /\ \E a \in DOMAIN Archives : zip' = [archive |-> a, stamp |-> zip.stamp + 1]
  /\ UNCHANGED <<registry, generation, live, sources, receipts, run>>

----------------------------------------------------------------------------
(* One import.                                                             *)

Current(p, identity) == live[p] = identity

Rows == [p \in {q \in Projects : registry[q].known} |->
           [enabled |-> registry[p].enabled, identity |-> registry[p].identity]]

(* The enabled projects of a snapshot are where the snapshot saw them.     *)
RowsLive(rows) == \A p \in DOMAIN rows : rows[p].enabled => Current(p, rows[p].identity)

Unchanged(i) == generation = run[i].generation

(* Every winner is where the snapshot saw it and enabled in the registry.  *)
WinnersCurrent(i, winners) ==
  \A p \in winners :
    /\ Current(p, run[i].rows[p].identity)
    /\ registry[p].known /\ registry[p].enabled
    /\ registry[p].identity = run[i].rows[p].identity

Go(i, pc) == run' = [run EXCEPT ![i].pc = pc]
Stop(i) == run' = [run EXCEPT ![i] = Idle]

(* verified_project_snapshot: the rows, and the identities of their        *)
(* directories ...                                                          *)
Start(i) ==
  /\ run[i].pc = "idle"
  /\ RowsLive(Rows)
  /\ \E dry \in BOOLEAN :
       run' = [run EXCEPT ![i] = [Idle EXCEPT !.pc = "verify", !.dry = dry,
                                              !.generation = generation, !.rows = Rows]]
  /\ UNCHANGED <<registry, generation, live, zip, sources, receipts>>

(* ... both still the same in a second transaction.                        *)
VerifySnapshot(i) ==
  /\ run[i].pc = "verify"
  /\ IF Unchanged(i) /\ RowsLive(run[i].rows) THEN Go(i, "open") ELSE Stop(i)
  /\ UNCHANGED <<registry, generation, live, zip, sources, receipts>>

(* read_json_snapshot: the archive is hashed, then its members are read,   *)
(* under one identity of the file.                                          *)
HashArchive(i) ==
  /\ run[i].pc = "open"
  /\ run' = [run EXCEPT ![i].pc = "read", ![i].archive = zip.archive, ![i].stamp = zip.stamp]
  /\ UNCHANGED <<registry, generation, live, zip, sources, receipts>>

Ids(items) == {items[k].id : k \in DOMAIN items} \ {NONE}

(* Mutant: the file's identity is not taken.                               *)
IgnoreIdentity(i) == TRUE

SameArchive(i) == zip.stamp = run[i].stamp

Repeats(items) ==
  \E j, k \in DOMAIN items : j < k /\ items[j].id = items[k].id /\ items[j].id # NONE

(* A duplicate id rejects the archive; a conversation without one does not. *)
ReadArchive(i) ==
  /\ run[i].pc = "read"
  /\ IF SameArchive(i) /\ ~Repeats(Archives[zip.archive])
     THEN run' = [run EXCEPT ![i].pc = "next", ![i].content = zip.archive]
     ELSE Stop(i)
  /\ UNCHANGED <<registry, generation, live, zip, sources, receipts>>

Item(i) == Archives[run[i].content][run[i].at]
More(i) == run[i].at <= Len(Archives[run[i].content])
Received(i) == <<run[i].archive, Item(i).id>> \in receipts

(* On to the next conversation.                                            *)
Skip(i) == run' = [run EXCEPT ![i].pc = "next", ![i].at = @ + 1,
                              ![i].project = NONE, ![i].kind = NONE]

PassOver(i) ==
  /\ run[i].pc = "next" /\ More(i)
  /\ Item(i).id = NONE \/ Received(i)
  /\ Skip(i)
  /\ UNCHANGED <<registry, generation, live, zip, sources, receipts>>

(* An existing source_ref of the conversation is of this project and       *)
(* content.                                                                 *)
Compatible(c, p) == \A s \in sources : s.id = c.id => s.project = p /\ s.version = c.version

Decided(i, kind, p) ==
  IF run[i].dry THEN Skip(i)
  ELSE run' = [run EXCEPT ![i].pc = "commit", ![i].kind = kind, ![i].project = p]

(* A conversation without a receipt: what it is about, from the snapshot,  *)
(* and what will be stored of it.  A disabled project that may be meant     *)
(* leaves no receipt, so that the conversation is decided again.            *)
Decide(i) ==
  /\ run[i].pc = "next" /\ More(i)
  /\ Item(i).id # NONE /\ ~Received(i)
  /\ LET c == Item(i)
         m == Match(run[i].rows, c.mentions)
     IN  IF ~Completed(c) THEN Decided(i, "empty", NONE)
         ELSE IF ~Unchanged(i) \/ ~WinnersCurrent(i, m.winners) THEN Stop(i)
         ELSE IF m.blocked THEN Skip(i)
         ELSE IF m.project = NONE THEN Decided(i, "confirm", NONE)
         ELSE IF ~Stated(c) THEN Decided(i, "empty", m.project)
         ELSE IF ~Compatible(c, m.project) THEN Stop(i)
         ELSE Decided(i, "capture", m.project)
  /\ UNCHANGED <<registry, generation, live, zip, sources, receipts>>

(* Mutant: the registry is not read again in the transaction.              *)
GuardedByDirectory(i) ==
  run[i].kind = "capture" => Current(run[i].project, run[i].rows[run[i].project].identity)

(* The guard of the transaction: the registry is the one of the snapshot,  *)
(* and so are the directories it depends on.                                *)
Guarded(i) ==
  /\ Unchanged(i)
  /\ IF run[i].kind = "capture" THEN WinnersCurrent(i, {run[i].project})
     ELSE RowsLive(run[i].rows)

Accepted(i) == run[i].kind = "capture" => Compatible(Item(i), run[i].project)

CommitConversation(i) ==
  /\ run[i].pc = "commit"
  /\ ~Received(i) /\ Guarded(i) /\ Accepted(i)
  /\ receipts' = receipts \cup {<<run[i].archive, Item(i).id>>}
  /\ sources' = IF run[i].kind # "capture" \/ ~Compatible(Item(i), run[i].project) THEN sources
                ELSE sources \cup {[id |-> Item(i).id, version |-> Item(i).version,
                                    project |-> run[i].project]}
  /\ Skip(i)
  /\ UNCHANGED <<registry, generation, live, zip>>

(* The other import was first, or the transaction is rolled back and the   *)
(* import ends with what it has committed.                                  *)
RefuseConversation(i) ==
  /\ run[i].pc = "commit"
  /\ \/ Received(i) /\ Skip(i)
     \/ ~Received(i) /\ ~(Guarded(i) /\ Accepted(i)) /\ Stop(i)
  /\ UNCHANGED <<registry, generation, live, zip, sources, receipts>>

(* The end of the archive, or of the process.                              *)
End(i) ==
  /\ run[i].pc # "idle"
  /\ Stop(i)
  /\ UNCHANGED <<registry, generation, live, zip, sources, receipts>>

Init ==
  /\ registry \in [Projects -> [known : BOOLEAN, enabled : {TRUE}, identity : {0}]]
  /\ generation = 0
  /\ live = [p \in Projects |-> 0]
  /\ \E a \in DOMAIN Archives : zip = [archive |-> a, stamp |-> 0]
  /\ sources = {} /\ receipts = {}
  /\ run = [i \in Importers |-> Idle]

Import(i) ==
  \/ Start(i) \/ VerifySnapshot(i) \/ HashArchive(i) \/ ReadArchive(i)
  \/ PassOver(i) \/ Decide(i) \/ CommitConversation(i) \/ RefuseConversation(i)
  \/ End(i)

Next ==
  \/ ToggleEnabled \/ BindDirectory \/ ReplaceDirectory \/ OverwriteArchive
  \/ \E i \in Importers : Import(i)

Spec == Init /\ [][Next]_vars

----------------------------------------------------------------------------
(* Properties.                                                             *)

Conversation(a, id) == CHOOSE c \in ToSet(Archives[a]) : c.id = id

(* A conversation is stored for the one project that the registry and the  *)
(* directories of the instant of its commit say it is about, never for one  *)
(* that was disabled, moved or outranked after the import read them.  A     *)
(* receipt, which closes the conversation for its archive, is written only  *)
(* when it is stored as that archive has it or nothing could be stored, and *)
(* never while a disabled project may own it.                               *)
DecidedByCurrentRegistry ==
  \A r \in receipts' \ receipts :
    r[2] \in Ids(Archives[r[1]]) =>
      LET c == Conversation(r[1], r[2])
          m == Match(Rows, c.mentions)
          stored == {s \in sources' : s.id = c.id /\ s.version = c.version}
      IN  /\ \A s \in sources' \ sources :
               /\ s \in stored /\ s.project = m.project
               /\ Current(s.project, registry[s.project].identity)
          /\ stored = {} => ~(Stated(c) /\ m.project # NONE)
          /\ Completed(c) => ~m.blocked

(* Receipts are of conversations of their own archive, and a stored        *)
(* conversation has one project, one content and a receipt of an archive    *)
(* with that content, whatever imports ran or were stopped.                 *)
ReceiptsAccount ==
  /\ \A r \in receipts : r[2] \in Ids(Archives[r[1]])
  /\ \A s, t \in sources : s.id = t.id => s = t
  /\ \A s \in sources : \E r \in receipts :
       r[2] = s.id /\ Conversation(r[1], r[2]).version = s.version
=============================================================================
