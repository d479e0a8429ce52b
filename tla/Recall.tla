------------------------------- MODULE Recall -------------------------------
(* RecallService.recall (services/recall.py): the brief of a project, read  *)
(* from facts and memories between checks of the project's directory, cut   *)
(* to the token budget with the counter of the model. A counter may fail at *)
(* any call, after which the conservative one is used; one that does not    *)
(* answer the same twice is allowed too. A row is a number: a higher one is *)
(* newer. Contents are compared by name and measured in characters; the     *)
(* conservative counter takes Wide tokens for each of them.                 *)
EXTENDS Integers, FiniteSets, FiniteSetsExt

CONSTANTS
  Rows,          \* what facts and memories a project may have
  Kinds,         \* of "current", "method" and "background"
  Lengths,       \* the lengths a content may have
  SourceOf,      \* where each row is kept
  Tasks,         \* the sets of rows a task may have to do with
  Budget,        \* min(request.max_tokens, max_recall_tokens)
  CandidateLimit,
  Wide,
  MaxShortened,  \* characters a shortened content keeps at most
  MaxEvents,     \* bound: changes made by others while a recall runs
  NONE

Places == {"facts", "memories"}
Queries == {"task", "all"}

VARIABLES
  row,        \* of each Rows: its kind, content, length and relevance
  active,     \* the rows that are active
  project,    \* the registered project: enabled, the identity it is bound to
  directory,  \* the identity of the directory at its path, or NONE
  steady,     \* the counter answers the same to the same text
  call,       \* the recall
  events

vars == <<row, active, project, directory, steady, call, events>>
env == <<row, active, project, directory, steady, events>>

New == [pc |-> "find", identity |-> NONE, unread |-> Places \X Queries,
        read |-> {}, fallback |-> FALSE, again |-> FALSE, lower |-> 0, upper |-> 0,
        retained |-> {}, selected |-> {}, limit |-> 0, rest |-> {}, tokens |-> 0]

Init ==
  /\ row \in [Rows -> [kind : Kinds, content : Rows, length : Lengths, relevant : BOOLEAN]]
  /\ {r \in Rows : row[r].relevant} \in Tasks
  /\ \A r, s \in Rows : row[r].content = row[s].content =>
       /\ row[r].length = row[s].length
       /\ row[r].relevant = row[s].relevant
  /\ \A r \in Rows : row[r].content <= r /\ row[row[r].content].content = row[r].content
  /\ active \in {Rows, Rows \ {Max(Rows)}}
  /\ project = [enabled |-> TRUE, identity |-> 1]
  /\ directory = 1
  /\ steady \in BOOLEAN
  /\ call = New
  /\ events = 0

----------------------------------------------------------------------------
(* The rows of a project and their order.                                   *)

IsMandatory(r) ==
  \/ row[r].kind = "current"
  \/ row[r].relevant /\ (SourceOf[r] = "facts" \/ row[r].kind = "method")

(* _ranking_key: what has to do with the task first, then the newest.       *)
RanksBefore(r, s) ==
  \/ row[r].relevant /\ ~row[s].relevant
  \/ row[r].relevant = row[s].relevant /\ r > s

Best(rows) == CHOOSE r \in rows : \A s \in rows \ {r} : RanksBefore(r, s)
Worst(rows) == CHOOSE r \in rows : \A s \in rows \ {r} : RanksBefore(s, r)

(* The rows of a source that a query finds.                                 *)
Found(source, query) ==
  LET rows == {r \in active : SourceOf[r] = source /\ (query = "task" => row[r].relevant)}
  IN {r \in rows : Cardinality({s \in rows : s > r}) < CandidateLimit}

(* Of the rows with one content, one stays: a mandatory one, the best.      *)
Deduplicated(rows) ==
  {r \in rows : \A s \in rows \ {r} :
     row[s].content = row[r].content =>
       \/ IsMandatory(r) /\ ~IsMandatory(s)
       \/ IsMandatory(r) = IsMandatory(s) /\ RanksBefore(r, s)}

Candidates == Deduplicated(call.read)
Mandatory == {r \in Candidates : IsMandatory(r)}
Optional == Candidates \ Mandatory

(* The first n mandatory rows in the order of their ranks.                  *)
Prefix(n) == {r \in Mandatory : Cardinality({s \in Mandatory : RanksBefore(s, r)}) < n}

(* What is shown of a row: a mandatory one is shortened to the limit, if    *)
(* there is one, and an ellipsis is put where it was cut; then it is marked *)
(* with the number of its references.                                       *)
Shown(r, limit) ==
  IF limit = 0 \/ ~IsMandatory(r) THEN row[r].length
  ELSE Min({row[r].length, limit + 1}) + 1

(* The characters of a brief: a heading for each section, and its lines.    *)
Characters(rows, limit) ==
  Cardinality({IsMandatory(r) : r \in rows})
    + SumFunction([r \in rows |-> Shown(r, limit)])

(* The answers of a counter that has failed, or has not.                    *)
Tokens(fallback, rows, limit) ==
  IF fallback THEN Wide * Characters(rows, limit) ELSE Characters(rows, limit)

(* _SafeTokenCounter.count.                                                 *)
Counts(rows, limit) ==
  {[fallback |-> TRUE, tokens |-> Tokens(TRUE, rows, limit)]}
    \cup (IF call.fallback THEN {}
          ELSE {[fallback |-> FALSE, tokens |-> n] :
                  n \in {Tokens(FALSE, rows, limit)}
                          \cup (IF steady THEN {} ELSE {Tokens(TRUE, rows, limit)})})

Fits(count) == count.tokens <= Budget

----------------------------------------------------------------------------
(* The reads.                                                               *)

(* find_by_cwd, and record_live_identity.                                   *)
LiveIdentity ==
  IF project.enabled /\ directory # NONE /\ project.identity = directory
  THEN directory ELSE NONE

FindProject ==
  /\ call.pc = "find"
  /\ call' = [call EXCEPT !.pc = IF LiveIdentity = NONE THEN "not_found" ELSE "identify"]
  /\ UNCHANGED env

Identify ==
  /\ call.pc = "identify"
  /\ call' = [call EXCEPT !.pc = IF LiveIdentity = NONE THEN "not_found" ELSE "read",
                          !.identity = LiveIdentity]
  /\ UNCHANGED env

(* Every search is a snapshot of its own; facts come first, the task too.   *)
Search(source, query) ==
  /\ call.pc = "read" /\ <<source, query>> \in call.unread
  /\ source = "memories" => \A q \in Queries : <<"facts", q>> \notin call.unread
  /\ query = "all" => <<source, "task">> \notin call.unread
  /\ call' = [call EXCEPT !.read = @ \cup Found(source, query),
                          !.unread = @ \ {<<source, query>>}]
  /\ UNCHANGED env

(* Mutant: the directory is looked at before the reads only.                *)
LookedAtBefore == call.identity # NONE

(* The directory is still the one found, enabled and bound.                 *)
StillLive == call.identity # NONE /\ LiveIdentity = call.identity

CheckReads ==
  /\ call.pc = "read" /\ call.unread = {}
  /\ call' = [call EXCEPT !.pc = IF StillLive THEN "mandatory" ELSE "not_found"]
  /\ UNCHANGED env

----------------------------------------------------------------------------
(* The selection; each action is one call of the counter.                   *)

(* What is left of the candidates once the mandatory ones are chosen.       *)
Chosen(rows, limit, count) ==
  [call EXCEPT !.pc = "optional", !.selected = rows, !.limit = limit,
               !.rest = Optional, !.fallback = count.fallback]

TakeMandatory ==
  /\ call.pc = "mandatory"
  /\ \E count \in Counts(Mandatory, 0) :
       call' = IF Fits(count) THEN Chosen(Mandatory, 0, count)
               ELSE [call EXCEPT !.pc = "prefix", !.lower = 0,
                                 !.upper = Cardinality(Mandatory),
                                 !.fallback = count.fallback]
  /\ UNCHANGED env

Middle == (call.lower + call.upper + 1) \div 2

(* One round of a binary search between lower and upper.                    *)
Narrowed(count) ==
  [call EXCEPT !.lower = IF Fits(count) THEN Middle ELSE @,
               !.upper = IF Fits(count) THEN @ ELSE Middle - 1,
               !.fallback = count.fallback]

(* How many mandatory rows fit with a character each.                       *)
FitPrefix ==
  /\ call.pc = "prefix" /\ call.lower < call.upper
  /\ \E count \in Counts(Prefix(Middle), 1) : call' = Narrowed(count)
  /\ UNCHANGED env

(* The largest limit worth a try.                                           *)
Maximum(rows) == Min({MaxShortened, Max({row[r].length : r \in rows})})

KeepPrefix ==
  /\ call.pc = "prefix" /\ call.lower = call.upper
  /\ call' = IF call.lower = 0
             THEN Chosen({}, 0, call)
             ELSE [call EXCEPT !.pc = "limit", !.retained = Prefix(call.lower),
                               !.lower = 1, !.upper = Maximum(Prefix(call.lower))]
  /\ UNCHANGED env

(* How many characters of each fit.                                         *)
FitLimit ==
  /\ call.pc = "limit" /\ call.lower < call.upper
  /\ \E count \in Counts(call.retained, Middle) : call' = Narrowed(count)
  /\ UNCHANGED env

KeepLimit ==
  /\ call.pc = "limit" /\ call.lower = call.upper
  /\ \E count \in Counts(call.retained, call.lower) :
       call' = IF Fits(count) THEN Chosen(call.retained, call.lower, count)
               ELSE [call EXCEPT !.pc = "enforce", !.limit = call.lower,
                                 !.fallback = count.fallback]
  /\ UNCHANGED env

(* Should the counter have answered otherwise: half the characters, and in  *)
(* the end fewer rows.                                                      *)
Enforce ==
  /\ call.pc = "enforce"
  /\ \/ /\ call.retained = {}
        /\ call' = Chosen({}, 0, call)
     \/ /\ call.retained # {}
        /\ \E count \in Counts(call.retained, call.limit) :
             call' = IF Fits(count) THEN Chosen(call.retained, call.limit, count)
                     ELSE [call EXCEPT
                             !.retained = IF call.limit > 1 THEN @ ELSE @ \ {Worst(@)},
                             !.limit = Max({1, @ \div 2}),
                             !.fallback = count.fallback]
  /\ UNCHANGED env

(* Every optional row that still fits, the best first.                      *)
TryOptional ==
  /\ call.pc = "optional" /\ call.rest # {}
  /\ LET next == Best(call.rest)
     IN \E count \in Counts(call.selected \cup {next}, call.limit) :
          call' = [call EXCEPT !.rest = @ \ {next},
                               !.selected = IF Fits(count) THEN @ \cup {next} ELSE @,
                               !.fallback = count.fallback]
  /\ UNCHANGED env

(* Mutant: what was selected with the counter that failed is kept.          *)
KeepsSelection(fallback) == FALSE

(* A counter that has failed by now: all is selected again, once.           *)
SelectsAgain(fallback) == fallback /\ ~call.again

CountBrief ==
  /\ call.pc = "optional" /\ call.rest = {}
  /\ \E count \in Counts(call.selected, call.limit) :
       call' = IF SelectsAgain(count.fallback)
               THEN [call EXCEPT !.pc = "mandatory", !.again = TRUE, !.fallback = TRUE]
               ELSE [call EXCEPT !.pc = "trim", !.tokens = count.tokens,
                                 !.fallback = count.fallback]
  /\ UNCHANGED env

OverBudget == call.selected # {} /\ call.tokens > Budget

(* _remove_lowest_value, until the brief fits.                              *)
LowestValue ==
  LET optional == {r \in call.selected : ~IsMandatory(r)}
  IN Worst(IF optional # {} THEN optional ELSE call.selected)

Trim ==
  /\ call.pc = "trim" /\ OverBudget
  /\ LET rows == call.selected \ {LowestValue}
     IN \E count \in Counts(rows, call.limit) :
          call' = [call EXCEPT !.selected = rows, !.tokens = count.tokens,
                               !.fallback = count.fallback]
  /\ UNCHANGED env

GiveBrief ==
  /\ call.pc = "trim" /\ ~OverBudget
  /\ call' = [call EXCEPT !.pc = IF StillLive THEN "brief" ELSE "not_found"]
  /\ UNCHANGED env

----------------------------------------------------------------------------
(* What others do meanwhile.                                                *)

Event == events < MaxEvents /\ events' = events + 1

(* A row is archived, or another one takes its place. (Once all is read     *)
(* nothing depends on it.)                                                  *)
ChangeRows ==
  /\ Event /\ call.unread # {}
  /\ \E r \in active : \E s \in (Rows \ active) \cup {NONE} :
       active' = (active \ {r}) \cup ({s} \ {NONE})
  /\ UNCHANGED <<row, project, directory, steady, call>>

(* The owner disables or enables the project, or discovery binds it to the  *)
(* directory that is there now.                                             *)
ChangeProject ==
  /\ Event
  /\ \/ project' = [project EXCEPT !.enabled = ~@]
     \/ directory # NONE /\ project' = [project EXCEPT !.identity = directory]
  /\ UNCHANGED <<row, active, directory, steady, call>>

(* The directory is moved away, and another one put there.                  *)
MoveDirectory ==
  /\ Event
  /\ directory' \in (1..2) \cup {NONE} /\ directory' # directory
  /\ UNCHANGED <<row, active, project, steady, call>>

Next ==
  \/ FindProject \/ Identify \/ CheckReads
  \/ \E source \in Places, query \in Queries : Search(source, query)
  \/ TakeMandatory \/ FitPrefix \/ KeepPrefix \/ FitLimit \/ KeepLimit \/ Enforce
  \/ TryOptional \/ CountBrief \/ Trim \/ GiveBrief
  \/ ChangeRows \/ ChangeProject \/ MoveDirectory

Spec == Init /\ [][Next]_vars

----------------------------------------------------------------------------
(* The selection a counter stands for. All mandatory rows, or as many of    *)
(* the best as fit with a character each and as much of each as fits; then  *)
(* every optional row that fits beside the better ones.                     *)
FitsWith(rows, limit) == Tokens(call.fallback, rows, limit) <= Budget

MandatoryAsCounted ==
  LET kept == call.selected \cap Mandatory
      sizes == {n \in 0..Cardinality(Mandatory) : FitsWith(Prefix(n), 1)}
      limits == {n \in 1..Max(Lengths) : FitsWith(kept, n)}
  IN IF FitsWith(Mandatory, 0)
     THEN kept = Mandatory /\ call.limit = 0
     ELSE /\ kept = Prefix(Max(sizes))
          /\ kept # {} => call.limit = Min({Maximum(kept), Max(limits)})

OptionalAsCounted ==
  \A r \in Optional :
    r \in call.selected <=>
      FitsWith({s \in call.selected : IsMandatory(s) \/ RanksBefore(s, r)} \cup {r}, call.limit)

(* A brief never has more tokens than the budget by the counter that was    *)
(* last used, whatever that counter does; and where the counter answers the *)
(* same to the same, or was found out before the brief was whole, the brief *)
(* is the selection that one counter stands for, never a mixture of two.    *)
(* (recall.py:193-213, 321-445)                                             *)
BriefAsCounted ==
  call.pc = "brief" =>
    /\ call.tokens <= Budget
    /\ steady \/ call.again => MandatoryAsCounted /\ OptionalAsCounted

(* A brief is given for a project that is enabled and bound to the          *)
(* directory found there before anything was read, when the brief is given; *)
(* one replaced or disabled during the reads or the counting gets nothing.  *)
(* (recall.py:156-227; docs/superpowers/specs/2026-07-12-codex-memory-hub-  *)
(* design.md:415)                                                           *)
BriefOfLiveProject ==
  call'.pc = "brief" =>
    call.pc = "brief" \/ (project.enabled /\ project.identity = directory
                          /\ directory = call.identity)
=============================================================================
