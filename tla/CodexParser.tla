---------------------------- MODULE CodexParser ----------------------------
(* The Codex session adapter: one session file, read in bounded chunks by   *)
(* read_incremental, replayed for the records an owner recovers or corrects *)
(* and scanned for the model of the running turn, while Codex appends to    *)
(* the file and another program may truncate or replace it.                 *)
(*                                                                          *)
(* A file is a sequence of units <<n, k>>: the k-th unit of an occurrence   *)
(* of the line Lines[n], the last of them its newline.  The SHA-256 of a    *)
(* prefix is the prefix itself (no collisions).                             *)
EXTENDS Integers, Sequences, SequencesExt, FiniteSetsExt, Functions

CONSTANTS
  Lines,            \* the lines a file may hold, a sequence of records
  Scripts,          \* the files Codex may write, sequences of line numbers
  Threads,          \* session identifiers
  Cwds,             \* working directories a namespace is asked for
  Weight(_),        \* bytes of one stored context
  MaxContext,       \* max_context_bytes
  MaxRecord,        \* max_line_bytes and max_record_bytes
  MaxNonsemantic,   \* max_nonsemantic_record_bytes
  MaxRead,          \* max_read_bytes
  MaxRecords,       \* max_records: lines of one read, and contexts
  MaxUnits,         \* bound on the length of a file, in units
  MaxDisturbances,  \* bound on truncations and replacements
  NONE

VARIABLES
  files,       \* inode -> content
  path,        \* the inode at the scope's path
  disturbed,   \* truncations and replacements so far
  checkpoint,  \* what the last accepted batch stored, or NONE
  taken,       \* the records of the batches since the last start at offset 0
  locators,    \* deferred locators of the last batch that had records
  job,         \* the call in progress, or NONE
  answer       \* what the last replay or namespace call returned

vars == <<files, path, disturbed, checkpoint, taken, locators, job, answer>>

Inodes == 1..MaxDisturbances + 1
Newline(u) == u[2] = Lines[u[1]].size
Prefix(s, n) == SubSeq(s, 1, Min({n, Len(s)}))

----------------------------------------------------------------------------
(* The lifecycle of one session file: the session, its alias and the open  *)
(* turns, in the order of a Python dict.                                    *)

Fresh == [session |-> NONE, meta |-> NONE, contexts |-> <<>>, records |-> <<>>]

(* _invalidate_lifecycle: nothing said before an unsafe line is used.      *)
Invalidated(st) == [st EXCEPT !.session = NONE, !.meta = NONE, !.contexts = <<>>]

Of(cs, t) == {i \in DOMAIN cs : cs[i].turn = t}
Without(cs, t) == IF Of(cs, t) = {} THEN cs ELSE RemoveAt(cs, CHOOSE i \in Of(cs, t) : TRUE)
Bytes(cs) == SumFunction([c \in ToSet(cs) |-> Weight(c)])

(* _block_turn: the mark is lost with the others when it does not fit.     *)
Blocked(st, t) ==
  LET mark == [turn |-> t, session |-> st.session, cwd |-> NONE, model |-> NONE]
      cs == IF Of(st.contexts, t) = {} THEN Append(st.contexts, mark)
            ELSE [i \in DOMAIN st.contexts |->
                    IF i \in Of(st.contexts, t) THEN mark ELSE st.contexts[i]]
  IN  [st EXCEPT !.contexts = IF Bytes(cs) > MaxContext THEN <<>> ELSE cs]

SessionMeta(st, l) ==
  LET session == IF l.session # NONE THEN l.session ELSE l.id
  IN  IF session # st.session
      THEN [st EXCEPT !.contexts = <<>>, !.session = session,
                      !.meta = IF l.id # NONE THEN l.id ELSE session]
      ELSE IF l.id \in {NONE, st.meta, st.session} THEN st ELSE Invalidated(st)

(* A context is taken once; a second one that differs blocks the turn.     *)
TurnContext(st, l) ==
  LET c == [turn |-> l.turn, session |-> st.session, cwd |-> l.cwd, model |-> l.model]
      kept == IF Len(st.contexts) >= MaxRecords THEN Tail(st.contexts) ELSE st.contexts
      known == Of(st.contexts, l.turn)
  IN  CASE st.session = NONE -> st
        [] st.session # NONE /\ l.cwd = NONE -> Blocked(st, l.turn)
        [] st.session # NONE /\ l.cwd # NONE /\ known # {} ->
             IF \A i \in known : st.contexts[i] = c THEN st ELSE Blocked(st, l.turn)
        [] OTHER ->
             IF Bytes(Append(kept, c)) > MaxContext THEN Invalidated(st)
             ELSE [st EXCEPT !.contexts = Append(kept, c)]

(* task_complete and turn_aborted close the turn; the first makes a record *)
(* when the turn has an unambiguous context and a valid capture block.     *)
TurnEnd(st, l) ==
  LET made == {c \in ToSet(st.contexts) : c.turn = l.turn /\ c.cwd # NONE /\ l.captured}
  IN  [st EXCEPT !.contexts = Without(st.contexts, l.turn),
                 !.records = IF made = {} THEN @ ELSE Append(@, CHOOSE c \in made : TRUE)]

ProcessRecord(st, l) ==
  CASE l.type = "ignored" -> st
    [] l.type = "unsafe" -> Invalidated(st)
    [] l.type = "meta" -> SessionMeta(st, l)
    [] l.type = "context" -> TurnContext(st, l)
    [] l.type = "end" -> TurnEnd(st, l)

(* One complete line: an oversized one is passed over only when it is     *)
(* known to carry nothing.                                                  *)
ProcessLine(st, l) ==
  IF l.size > MaxRecord
  THEN IF l.type = "ignored" /\ l.size <= MaxNonsemantic THEN st ELSE Invalidated(st)
  ELSE ProcessRecord(st, l)

----------------------------------------------------------------------------
(* _parse_chunk: the lines of one chunk, and what is left of an oversized  *)
(* line that does not end in it.                                            *)

Resumed(st, discarding) == [st |-> st, discarding |-> discarding]

(* a.seen units looked at, the first a.used of them consumed.              *)
ParseUnit(a, u) ==
  LET b == [a EXCEPT !.seen = @ + 1] IN
  IF a.lines = MaxRecords \/ ~Newline(u) THEN b
  ELSE IF a.discarding THEN [b EXCEPT !.discarding = FALSE, !.used = b.seen]
  ELSE [b EXCEPT !.used = b.seen, !.lines = @ + 1, !.st = ProcessLine(a.st, Lines[u[1]])]

(* What is left of a line that cannot be one of interest is passed over.  *)
PassOver(a) ==
  IF a.discarding THEN [a EXCEPT !.used = a.seen]
  ELSE IF a.lines < MaxRecords /\ a.seen - a.used >= MaxNonsemantic
  THEN [a EXCEPT !.used = a.seen, !.discarding = TRUE, !.st = Invalidated(a.st)]
  ELSE a

ParseChunk(data, from) ==
  PassOver(FoldLeft(ParseUnit,
    [st |-> from.st, discarding |-> from.discarding, seen |-> 0, used |-> 0, lines |-> 0],
    data))

Chunk(bytes, size, offset) ==
  SubSeq(bytes, offset + 1, Min({offset + MaxRead, size, Len(bytes)}))

(* A replay reads a prefix chunk by chunk; a read that does not move on is  *)
(* a changed source (ok is FALSE).                                          *)
Advance(p, c) ==
  [offset |-> p.offset + c.used, ok |-> c.used > 0, at |-> Resumed(c.st, c.discarding)]

NextChunk(bytes, p) ==
  IF ~p.ok \/ p.offset >= Len(bytes) THEN p
  ELSE Advance(p, ParseChunk(Chunk(bytes, Len(bytes), p.offset), p.at))

Replay(bytes) ==
  FoldLeft(LAMBDA p, n : NextChunk(bytes, p),
           [offset |-> 0, ok |-> TRUE, at |-> Resumed(Fresh, FALSE)],
           [n \in 1..MaxUnits |-> n])

(* _complete_prefix_length: up to the last newline of the tail.            *)
CompletePrefix(bytes, size) ==
  Max({0} \cup {i \in Max({1, size - MaxNonsemantic + 1})..Min({size, Len(bytes)}) :
                  Newline(bytes[i])})

Completed(ls, u) == IF Newline(u) THEN Append(ls, Lines[u[1]]) ELSE ls
LinesOf(bytes) == FoldLeft(Completed, <<>>, bytes)

(* _runtime_model_from_lines: any doubt ends the scan (ok is FALSE).       *)
ScanRecord(thread, s, l) ==
  LET doubt == [s EXCEPT !.ok = FALSE]
      known == {c \in s.open : c.turn = l.turn}
      c == [turn |-> l.turn, cwd |-> l.cwd, model |-> l.model]
  IN  CASE l.type = "ignored" -> s
        [] l.type = "unsafe" -> doubt
        [] l.type = "meta" ->
             IF s.alias = NONE
             THEN IF l.id # thread THEN doubt
                  ELSE [s EXCEPT !.alias = IF l.session # NONE THEN l.session ELSE l.id]
             ELSE IF l.id \in {NONE, thread, s.alias} /\ l.session \in {NONE, s.alias} THEN s
             ELSE doubt
        [] l.type = "context" ->
             IF s.alias = NONE THEN s
             ELSE IF l.cwd = NONE THEN doubt
             ELSE IF l.turn \in s.ambiguous \/ c \in known THEN s
             ELSE IF known = {} THEN [s EXCEPT !.open = @ \cup {c}]
             ELSE [s EXCEPT !.open = @ \ known, !.ambiguous = @ \cup {l.turn}]
        [] l.type = "end" ->
             IF s.alias = NONE THEN s
             ELSE [s EXCEPT !.open = @ \ known, !.ambiguous = @ \ {l.turn}]

ScanLine(thread, s, l) ==
  IF ~s.ok THEN s
  ELSE IF l.size <= MaxRecord THEN ScanRecord(thread, s, l)
  ELSE [s EXCEPT !.ok = l.type = "ignored" /\ l.size <= MaxNonsemantic]

RuntimeModel(bytes, thread, cwd) ==
  LET s == FoldLeft(LAMBDA a, l : ScanLine(thread, a, l),
             [ok |-> TRUE, alias |-> NONE, open |-> {}, ambiguous |-> {}], LinesOf(bytes))
      models == {c.model : c \in {d \in s.open : d.cwd = cwd}}
      ends == bytes # <<>> /\ Newline(Last(bytes))
  IN  IF ends /\ s.ok /\ s.alias # NONE /\ s.ambiguous = {} /\ Cardinality(models) = 1
      THEN CHOOSE m \in models : TRUE ELSE NONE

----------------------------------------------------------------------------
(* Codex and other programs.                                               *)

(* Codex writes the next unit: of the line it is in, or of a new one.      *)
Write ==
  /\ Len(files[path]) < MaxUnits
  /\ LET s == files[path]
         inside == s # <<>> /\ ~Newline(Last(s))
         starts == SelectSeq(s, LAMBDA u : u[2] = 1)
         written == [i \in DOMAIN starts |-> starts[i][1]]
     IN  \E n \in DOMAIN Lines :
           /\ IF inside THEN n = Last(s)[1]
              ELSE \E f \in Scripts : IsPrefix(Append(written, n), f)
           /\ files' = [files EXCEPT ![path] =
                           Append(s, <<n, IF inside THEN Last(s)[2] + 1 ELSE 1>>)]
  /\ UNCHANGED <<path, disturbed, checkpoint, taken, locators, job, answer>>

(* Another program truncates the file in place, or puts a new one, empty   *)
(* or a copy, at its path.                                                  *)
Truncate ==
  /\ disturbed < MaxDisturbances /\ disturbed' = disturbed + 1
  /\ files' = [files EXCEPT ![path] = <<>>]
  /\ UNCHANGED <<path, checkpoint, taken, locators, job, answer>>

ReplaceFile ==
  /\ disturbed < MaxDisturbances /\ disturbed' = disturbed + 1
  /\ path' = path + 1
  /\ \E s \in {<<>>, files[path]} : files' = [files EXCEPT ![path'] = s]
  /\ UNCHANGED <<checkpoint, taken, locators, job, answer>>

----------------------------------------------------------------------------
(* A call opens the file and takes its size, parses its content, and then  *)
(* compares what it parsed with the file that is at the path (Verify).  The *)
(* file may change between any two of them; a replay and a scan, which want *)
(* an unchanged file, take the size and the content in one step here.      *)

Call(op, arg) ==
  [op |-> op, arg |-> arg, step |-> "opened", inode |-> path, size |-> Len(files[path]),
   offset |-> 0, data |-> <<>>, found |-> NONE]

OpenRead ==
  /\ job = NONE
  /\ job' = Call("read", NONE)
  /\ answer' = NONE
  /\ UNCHANGED <<files, path, disturbed, checkpoint, taken, locators>>

(* What a replay or a scan found in the bytes; a call that finds nothing    *)
(* raises and leaves nothing behind.                                        *)
Parsed(op, arg, bytes, found) ==
  /\ job = NONE
  /\ job' = [Call(op, arg) EXCEPT !.step = "parsed", !.data = bytes, !.found = found]
  /\ answer' = NONE
  /\ UNCHANGED <<files, path, disturbed, checkpoint, taken, locators>>

(* Mutant: the open turns are not stored with the offset.                  *)
ResumeWithoutTurns(inode, size) ==
  IF /\ checkpoint # NONE /\ checkpoint.inode = inode
     /\ Prefix(files[inode], Len(checkpoint.prefix)) = checkpoint.prefix
  THEN [offset |-> Len(checkpoint.prefix),
        at |-> Resumed([checkpoint.st EXCEPT !.contexts = <<>>, !.records = <<>>],
                       checkpoint.discarding)]
  ELSE [offset |-> 0, at |-> Resumed(Fresh, FALSE)]

(* The stored contexts come back sorted by turn.                           *)
ByTurn(cs) ==
  CHOOSE s \in [DOMAIN cs -> ToSet(cs)] : \A i, j \in DOMAIN s : i < j => s[i].turn < s[j].turn

(* _resume_state: start again unless the checkpoint is of this file and    *)
(* its prefix is still there.                                              *)
ResumeState(inode, size) ==
  LET cp == checkpoint
  IN  IF /\ cp # NONE
         /\ cp.inode = inode /\ cp.observed <= size
         /\ Prefix(files[inode], Len(cp.prefix)) = cp.prefix
      THEN [offset |-> Len(cp.prefix),
            at |-> Resumed([cp.st EXCEPT !.contexts = ByTurn(@), !.records = <<>>],
                           cp.discarding)]
      ELSE [offset |-> 0, at |-> Resumed(Fresh, FALSE)]

ParseRead ==
  /\ job # NONE /\ job.step = "opened"
  /\ LET r == ResumeState(job.inode, job.size)
         data == Chunk(files[job.inode], job.size, r.offset)
         c == ParseChunk(data, r.at)
     IN  job' = [job EXCEPT !.step = "parsed", !.offset = r.offset,
                            !.data = Prefix(data, c.used), !.found = Resumed(c.st, c.discarding)]
  /\ UNCHANGED <<files, path, disturbed, checkpoint, taken, locators, answer>>

Id(r) == <<r.session, r.turn>>
Named(records, ids) == {i \in DOMAIN records : Id(records[i]) \in ids}

(* replay_deferred: the locator's prefix must be in the file that has its  *)
(* identity, and hold its record exactly once.                              *)
ReplayDeferred ==
  \E l \in locators :
    LET p == Replay(l.prefix)
        hits == Named(p.at.st.records, {l.id})
    IN  /\ l.inode = path
        /\ Prefix(files[path], Len(l.prefix)) = l.prefix
        /\ p.ok /\ Cardinality(hits) = 1
        /\ Parsed("deferred", l, l.prefix, {p.at.st.records[i] : i \in hits})

(* replay_records: every requested record exactly once in the complete     *)
(* lines of the file.                                                       *)
ReplayRecords ==
  \E ids \in SUBSET {l.id : l \in locators} \ {{}} :
    LET bytes == Prefix(files[path], CompletePrefix(files[path], Len(files[path])))
        p == Replay(bytes)
        hits == Named(p.at.st.records, ids)
        found == {p.at.st.records[i] : i \in hits}
    IN  /\ bytes # <<>> /\ p.ok
        /\ Cardinality(hits) = Cardinality(ids) /\ {Id(r) : r \in found} = ids
        /\ Parsed("records", ids, bytes, found)

(* _read_runtime_model, for the one file whose name ends in the thread id. *)
ReadRuntimeModel ==
  \E thread \in Threads, cwd \in Cwds :
    LET model == RuntimeModel(files[path], thread, cwd)
    IN  /\ model # NONE
        /\ Parsed("namespace", <<thread, cwd>>, files[path], model)

(* The bytes parsed are still those of the opened file and of the file at  *)
(* the path; replays and scans also want the size unchanged.               *)
SameBytes(j) ==
  /\ path = j.inode
  /\ IF j.op = "read" THEN Len(files[path]) >= j.size ELSE Len(files[path]) = j.size
  /\ Len(files[path]) >= j.offset + Len(j.data)
  /\ SubSeq(files[path], j.offset + 1, j.offset + Len(j.data)) = j.data
  /\ j.offset > 0 => Prefix(files[path], j.offset) = checkpoint.prefix

VerifyRead ==
  /\ job # NONE /\ job.step = "parsed" /\ job.op = "read"
  /\ job' = NONE
  /\ IF SameBytes(job)
     THEN LET prefix == Prefix(files[path], job.offset + Len(job.data))
              new == job.found.st.records
          IN  /\ checkpoint' = [inode |-> path, prefix |-> prefix, observed |-> job.size,
                                discarding |-> job.found.discarding, st |-> job.found.st]
              /\ taken' = IF job.offset = 0 THEN new ELSE taken \o new
              /\ locators' = IF new = <<>> THEN locators
                             ELSE {[id |-> Id(r), prefix |-> prefix, inode |-> path] :
                                     r \in ToSet(new)}
     ELSE UNCHANGED <<checkpoint, taken, locators>>
  /\ UNCHANGED <<files, path, disturbed, answer>>

VerifyAnswer ==
  /\ job # NONE /\ job.step = "parsed" /\ job.op # "read"
  /\ job' = NONE
  /\ answer' = IF SameBytes(job)
               THEN [op |-> job.op, arg |-> job.arg, found |-> job.found, bytes |-> job.data]
               ELSE NONE
  /\ UNCHANGED <<files, path, disturbed, checkpoint, taken, locators>>

Init ==
  /\ files = [i \in Inodes |-> <<>>]
  /\ path = 1
  /\ disturbed = 0
  /\ checkpoint = NONE
  /\ taken = <<>>
  /\ locators = {}
  /\ job = NONE
  /\ answer = NONE

Next ==
  \/ Write \/ Truncate \/ ReplaceFile
  \/ OpenRead \/ ParseRead \/ ReplayDeferred \/ ReplayRecords \/ ReadRuntimeModel
  \/ VerifyRead \/ VerifyAnswer

Spec == Init /\ [][Next]_vars

----------------------------------------------------------------------------
(* Properties.                                                             *)

OneRead(bytes) == FoldLeft(ProcessLine, Fresh, LinesOf(bytes))

(* More turns than contexts are kept for: which of them is dropped depends  *)
(* on where the reads were cut, as a resumed dict is in the order of the    *)
(* turns (codex.py:1076).                                                   *)
Crowded(ls) ==
  Cardinality({l.turn : l \in {k \in ToSet(ls) : k.type = "context" /\ k.size <= MaxRecord}})
    > MaxRecords

(* However the reads were cut, and whatever line was cut by them, the      *)
(* records taken since the last start are those of one read of the lines   *)
(* of the prefix that the checkpoint anchors.                               *)
AsOneRead ==
  checkpoint # NONE =>
    \/ Crowded(LinesOf(checkpoint.prefix))
    \/ taken = OneRead(checkpoint.prefix).records

(* A line that ends what was said before it about turn t.                  *)
Breaks(l, t) ==
  \/ l.size > MaxRecord /\ ~(l.type = "ignored" /\ l.size <= MaxNonsemantic)
  \/ l.type = "unsafe"
  \/ l.type = "end" /\ l.turn = t

(* Every record taken has the directory and the model of a context line of *)
(* its own turn, and between that line and the completion of the turn the  *)
(* file says nothing that contradicts it.                                   *)
NoBorrowedContext ==
  checkpoint # NONE =>
    LET ls == LinesOf(checkpoint.prefix) IN
    \A r \in ToSet(taken) :
      \E i, j \in DOMAIN ls :
        /\ j < i
        /\ ls[i].type = "end" /\ ls[i].turn = r.turn /\ ls[i].captured
        /\ ls[j].type = "context" /\ ls[j].turn = r.turn
        /\ ls[j].cwd = r.cwd /\ ls[j].model = r.model
        /\ \A k \in j + 1..i - 1 :
             /\ ~Breaks(ls[k], r.turn)
             /\ ls[k].type = "context" /\ ls[k].turn = r.turn =>
                  ls[k].cwd = r.cwd /\ ls[k].model = r.model
             /\ ls[k].type = "meta" => r.session \in {ls[k].session, ls[k].id}

ReadsAsWritten == AsOneRead /\ NoBorrowedContext

(* A replay returns what one read of the bytes that anchor its answer says *)
(* of the records it was asked for.  What is in the file after those bytes  *)
(* may be another line than the one that was there when they were read.     *)
ReplayAgrees ==
  answer # NONE /\ answer.op # "namespace" =>
    LET said == IF answer.op = "deferred" THEN answer.arg.prefix ELSE answer.bytes
        ids == IF answer.op = "deferred" THEN {answer.arg.id} ELSE answer.arg
    IN  answer.found = {r \in ToSet(OneRead(said).records) : Id(r) \in ids}

(* A model resolved for a directory is the model of every open turn that   *)
(* the reader knows in that directory: a memory recalled for the running   *)
(* turn and the record later made of the turn share their namespace.       *)
NamespaceAgrees ==
  answer # NONE /\ answer.op = "namespace" =>
    \A c \in ToSet(OneRead(answer.bytes).contexts) :
      c.cwd = answer.arg[2] => c.model = answer.found

AnswersAsRead == ReplayAgrees /\ NamespaceAgrees
=============================================================================
