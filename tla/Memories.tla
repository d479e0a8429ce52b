------------------------------ MODULE Memories ------------------------------
(* storage/memories.py, storage/resolutions.py, services/compaction.py and  *)
(* the part of services/capture.py that stores a verified capture: memory   *)
(* rows are inserted, open issues are archived by resolutions, the sources  *)
(* of a dormant project are folded into retrospectives and turned cold, and *)
(* the project is marked inactive, by several processes at once.            *)
(*                                                                          *)
(* A text stands for its content hash; Size and Signature say what the      *)
(* limits and the grouping of failures see of it.                           *)
EXTENDS Integers, FiniteSets, SequencesExt

CONSTANTS
  Projects,
  Namespaces,
  Sources,       \* verified captures: [id, project, ns, task, at, rows, resolves]
  Compactors,
  Size(_),       \* length of the entry of a text in a retrospective
  Signature(_),  \* of a failure, without its dynamic parts
  InactiveDays,
  SourceLimit,   \* _DEFAULT_SOURCE_LIMIT
  MaxEntry,      \* _MAX_ENTRY_CHARS, for a mandatory entry
  MaxText,       \* _MAX_RETROSPECTIVE_CHARS
  MaxClock,
  MaxGap,        \* bound on the time between preparing and storing
  MaxPrepared,   \* bound on captures prepared at a time
  MaxOwner,      \* bound on what the owner does and on failures
  NONE

VARIABLES
  clock,
  projects,     \* project -> [enabled, state, observed]
  memories,     \* rows: [project, ns, task, kind, text, source, at, state]
  refs,         \* sources with a row in source_refs
  resolutions,  \* [project, ns, text, target, source, status]
  retros,       \* retrospectives: [project, ns, sources, entries, at]
  prepared,     \* captures not yet stored: [source, at]
  run,          \* compactor -> its state
  owner

vars == <<clock, projects, memories, refs, resolutions, retros, prepared, run, owner>>

Mandatory == {"failed_attempt", "verified_method", "open_issue", "risk"}
KindOrder == <<"decision", "outcome", "preference", "reusable_lesson">>

Key(m) == [project |-> m.project, ns |-> m.ns, task |-> m.task, kind |-> m.kind, text |-> m.text]

(* An observation makes a project active unless it is older than the last  *)
(* one, or comes from the future.                                           *)
Advanced(p, t, asOf) ==
  LET row == projects[p] IN
  IF t > asOf \/ row.observed > asOf \/ t < row.observed
     \/ (t = row.observed /\ row.state = "active")
  THEN projects
  ELSE [projects EXCEPT ![p] = [@ EXCEPT !.observed = t, !.state = "active"]]

----------------------------------------------------------------------------
(* A verified capture.                                                     *)

(* prepare_verified: the time of the capture is taken here.                *)
Prepare(s) ==
  /\ projects[s.project].enabled
  /\ \A p \in prepared : p.source # s
  /\ Cardinality(prepared) < MaxPrepared
  /\ prepared' = prepared \cup {[source |-> s, at |-> clock]}
  /\ UNCHANGED <<clock, projects, memories, refs, resolutions, retros, run, owner>>

(* insert or ignore: a row with the same key stays as it is.               *)
Inserted(s, t) ==
  {m \in [project : {s.project}, ns : {s.ns}, task : {s.task}, kind : {r[1] : r \in s.rows},
          text : {r[2] : r \in s.rows}, source : {s}, at : {t}, state : {"active"}] :
     /\ <<m.kind, m.text>> \in s.rows
     /\ Key(m) \notin {Key(n) : n \in memories}}

(* The issues that a declaration of s resolves.                            *)
ResolvedIssues(s, text, rows) ==
  {m \in rows : /\ m.project = s.project /\ m.ns = s.ns /\ m.kind = "open_issue"
                /\ m.state = "active" /\ m.text = text /\ m.source # s
                /\ m.source.at <= s.at}

AlreadyResolved(s, text) ==
  \E x \in resolutions :
    /\ x.project = s.project /\ x.ns = s.ns /\ x.text = text /\ x.status = "resolved"

Resolution(s, text, target) ==
  [project |-> s.project, ns |-> s.ns, text |-> text, target |-> target, source |-> s,
   status |-> IF target = NONE THEN "not_found" ELSE "resolved"]

Effective(added, targets, unmatched) == added # {} \/ targets # {} \/ unmatched # {}

(* capture_prepared_on_connection for a source that is not known yet.      *)
Store(p) ==
  LET s == p.source
      added == Inserted(s, p.at)
      rows == memories \cup added
      targets == UNION {ResolvedIssues(s, text, rows) : text \in s.resolves}
      unmatched == {text \in s.resolves :
                      ResolvedIssues(s, text, rows) = {} /\ ~AlreadyResolved(s, text)}
  IN /\ memories' = (rows \ targets) \cup {[m EXCEPT !.state = "archived"] : m \in targets}
     /\ resolutions' = resolutions
          \cup {Resolution(s, m.text, Key(m)) : m \in targets}
          \cup {Resolution(s, text, NONE) : text \in unmatched}
     /\ projects' = IF Effective(added, targets, unmatched)
                    THEN Advanced(s.project, p.at, p.at) ELSE projects
     /\ refs' = refs \cup {s}

Capture(p) ==
  /\ p \in prepared
  /\ prepared' = prepared \ {p}
  /\ IF projects[p.source.project].enabled /\ p.source \notin refs THEN Store(p)
     ELSE UNCHANGED <<projects, memories, refs, resolutions>>
  /\ UNCHANGED <<clock, retros, run, owner>>

(* A fact scan that found a change, with the time it started.              *)
ObserveChange(p) ==
  /\ projects[p].enabled
  /\ \E t \in {n \in 0..clock : clock - n <= MaxGap} : projects' = Advanced(p, t, t)
  /\ projects' # projects
  /\ UNCHANGED <<clock, memories, refs, resolutions, retros, prepared, run, owner>>

(* set_lifecycle_scoped, and the switch of a project in the panel.         *)
SetLifecycle(m) ==
  /\ owner < MaxOwner /\ owner' = owner + 1
  /\ m.state # "deleted"
  /\ \E s \in {"archived", "deleted"} : memories' = (memories \ {m}) \cup {[m EXCEPT !.state = s]}
  /\ UNCHANGED <<clock, projects, refs, resolutions, retros, prepared, run>>

SetEnabled(p) ==
  /\ owner < MaxOwner /\ owner' = owner + 1
  /\ projects' = [projects EXCEPT ![p].enabled = ~@]
  /\ UNCHANGED <<clock, memories, refs, resolutions, retros, prepared, run>>

----------------------------------------------------------------------------
(* The sources of a namespace and the retrospective made of them.          *)

SourceRows(p, ns) ==
  {m \in memories : m.project = p /\ m.ns = ns /\ m.state = "active"}

(* The namespaces that have rows to compact.                               *)
NamespacesOf(p) == {ns \in Namespaces : SourceRows(p, ns) # {}}

KindRank(m) == CHOOSE i \in DOMAIN KindOrder : KindOrder[i] = m.kind

(* By kind, and the newest first.                                          *)
Before(m, n) == KindRank(m) < KindRank(n) \/ (KindRank(m) = KindRank(n) /\ m.at > n.at)

OptionalOrders(rows) ==
  {seq \in SetToSeqs({m \in rows : m.kind \notin Mandatory}) :
     \A i, j \in DOMAIN seq : Before(seq[i], seq[j]) => i < j}

Group(m) == <<m.kind, IF m.kind = "failed_attempt" THEN Signature(m.text) ELSE m.text>>

(* The newest of a group stands for it.                                    *)
Newest(group) == {m \in group : \A n \in group : n.at <= m.at}

Entries(rows) ==
  {CHOOSE m \in Newest({n \in rows : Group(n) = g}) : TRUE : g \in {Group(m) : m \in rows}}

(* What _build_plan accepts.                                               *)
Fits(rows) ==
  /\ \A m \in Entries(rows) : m.kind \in Mandatory => Size(m.text) <= MaxEntry
  /\ FoldSet(LAMBDA m, n : n + Size(m.text), 0, Entries(rows)) <= MaxText

(* _build_bounded_plan: the mandatory rows and the longest prefix of the   *)
(* optional ones that fits; none at all is an error.                        *)
Plan(mandatory, optional) ==
  LET With(k) == mandatory \cup {optional[i] : i \in 1..k}
      fitting == {k \in 0..Len(optional) : With(k) # {} /\ Fits(With(k))}
  IN IF fitting = {} THEN NONE ELSE With(CHOOSE k \in fitting : \A j \in fitting : j <= k)

ColdRows(plan, selected) == plan

(* The retrospective: its reference names the rows it was made of, so that *)
(* the same rows never give a second one.                                   *)
Retrospective(p, ns, plan, cold, at) ==
  [project |-> p, ns |-> ns, sources |-> {Key(m) : m \in cold},
   entries |-> {Group(m) : m \in Entries(plan)}, at |-> at]

----------------------------------------------------------------------------
(* A compaction run.                                                       *)

Idle == [pc |-> "idle", asOf |-> 0, queue |-> {}, at |-> NONE, todo |-> {}, good |-> TRUE]

Dormant(asOf) ==
  {[project |-> p, observed |-> projects[p].observed] : p \in
    {q \in Projects : /\ projects[q].enabled /\ projects[q].state = "active"
                      /\ projects[q].observed <= asOf - InactiveDays}}

(* Mutant: a project that was observed meanwhile is still eligible.        *)
StillActive(c, q) == projects[q.project].enabled /\ projects[q.project].state = "active"

Eligible(c, q) ==
  /\ projects[q.project].enabled /\ projects[q.project].state = "active"
  /\ projects[q.project].observed = q.observed
  /\ q.observed <= run[c].asOf - InactiveDays

Select(c) ==
  /\ run[c].pc = "idle"
  /\ Dormant(clock) # {}
  /\ run' = [run EXCEPT ![c] = [Idle EXCEPT !.pc = "next", !.asOf = clock, !.queue = Dormant(clock)]]
  /\ UNCHANGED <<clock, projects, memories, refs, resolutions, retros, prepared, owner>>

(* The namespaces of the next project, if it is still eligible.            *)
Enumerate(c) ==
  /\ run[c].pc = "next"
  /\ \E q \in run[c].queue :
       run' = IF Eligible(c, q)
              THEN [run EXCEPT ![c].pc = "compact", ![c].at = q, ![c].queue = @ \ {q},
                               ![c].good = TRUE, ![c].todo = NamespacesOf(q.project)]
              ELSE [run EXCEPT ![c].queue = @ \ {q}]
  /\ UNCHANGED <<clock, projects, memories, refs, resolutions, retros, prepared, owner>>

Failed(c, ns) == run' = [run EXCEPT ![c].todo = @ \ {ns}, ![c].good = FALSE]

(* compact: one transaction; rows beyond the source limit, or that do not  *)
(* fit, remain for the next run.                                            *)
CompactNamespace(c) ==
  /\ run[c].pc = "compact"
  /\ \E ns \in run[c].todo :
       LET q == run[c].at
           rows == SourceRows(q.project, ns)
           mandatory == {m \in rows : m.kind \in Mandatory}
           room == SourceLimit - Cardinality(mandatory)
       IN IF ~Eligible(c, q) \/ room < 0
          THEN Failed(c, ns) /\ UNCHANGED <<memories, retros>>
          ELSE IF rows = {}
          THEN /\ run' = [run EXCEPT ![c].todo = @ \ {ns}]
               /\ UNCHANGED <<memories, retros>>
          ELSE \E order \in OptionalOrders(rows) :
               LET optional == SubSeq(order, 1, IF room < Len(order) THEN room ELSE Len(order))
                   plan == Plan(mandatory, optional)
                   cold == ColdRows(plan, mandatory \cup ToSet(optional))
               IN IF plan = NONE THEN Failed(c, ns) /\ UNCHANGED <<memories, retros>>
                  ELSE /\ memories' = (memories \ cold) \cup {[m EXCEPT !.state = "cold"] : m \in cold}
                       /\ retros' = retros \cup
                            {Retrospective(q.project, ns, plan, cold, run[c].asOf)}
                       /\ run' = [run EXCEPT ![c].todo = @ \ {ns},
                                             ![c].good = @ /\ cold = rows]
  /\ UNCHANGED <<clock, projects, refs, resolutions, prepared, owner>>

(* A namespace fails for a reason of its own, as when the database is busy. *)
FailNamespace(c) ==
  /\ run[c].pc = "compact"
  /\ owner < MaxOwner /\ owner' = owner + 1
  /\ \E ns \in run[c].todo : Failed(c, ns)
  /\ UNCHANGED <<clock, projects, memories, refs, resolutions, retros, prepared>>

(* _mark_inactive, only when everything went cold.                         *)
MarkInactive(c) ==
  /\ run[c].pc = "compact" /\ run[c].todo = {}
  /\ LET q == run[c].at IN
     /\ projects' = IF run[c].good /\ Eligible(c, q)
                    THEN [projects EXCEPT ![q.project].state = "inactive"] ELSE projects
     /\ run' = [run EXCEPT ![c] = [@ EXCEPT !.pc = "next", !.at = NONE]]
  /\ UNCHANGED <<clock, memories, refs, resolutions, retros, prepared, owner>>

(* The run is over, or its process dies.                                   *)
Leave(c) ==
  /\ run[c].pc # "idle"
  /\ run' = [run EXCEPT ![c] = Idle]
  /\ UNCHANGED <<clock, projects, memories, refs, resolutions, retros, prepared, owner>>

(* A prepared capture is stored within MaxGap.                             *)
Tick ==
  /\ clock < MaxClock
  /\ \A p \in prepared : clock - p.at < MaxGap
  /\ clock' = clock + 1
  /\ UNCHANGED <<projects, memories, refs, resolutions, retros, prepared, run, owner>>

Init ==
  /\ clock = 0 /\ owner = 0
  /\ projects = [p \in Projects |-> [enabled |-> TRUE, state |-> "active", observed |-> 0]]
  /\ memories = {} /\ refs = {} /\ resolutions = {} /\ retros = {} /\ prepared = {}
  /\ run = [c \in Compactors |-> Idle]

Compact(c) ==
  Select(c) \/ Enumerate(c) \/ CompactNamespace(c) \/ FailNamespace(c) \/ MarkInactive(c) \/ Leave(c)

Next ==
  \/ Tick
  \/ \E s \in Sources : Prepare(s)
  \/ \E p \in prepared : Capture(p)
  \/ \E p \in Projects : ObserveChange(p) \/ SetEnabled(p)
  \/ \E m \in memories : SetLifecycle(m)
  \/ \E c \in Compactors : Compact(c)

Spec == Init /\ [][Next]_vars

----------------------------------------------------------------------------
(* Properties.                                                             *)

(* A project is inactive only while all its rows are cold, archived or     *)
(* deleted: a capture beside the compaction of its project is either       *)
(* compacted with it or keeps the project active.                           *)
InactiveIsDrained ==
  \A p \in Projects : projects[p].state = "inactive" =>
    \A m \in memories : m.project = p => m.state # "active"

(* Every cold row is in exactly one retrospective of its project and       *)
(* namespace, which tells of its group ("not silently deleted",             *)
(* docs/architecture.md); and an issue that was resolved had been reported  *)
(* by another source before, and is not open or compacted as open.          *)
NothingLost ==
  /\ \A m \in memories : m.state = "cold" =>
       \E r \in retros : /\ r.project = m.project /\ r.ns = m.ns
                         /\ Key(m) \in r.sources /\ Group(m) \in r.entries
  /\ \A r, s \in retros : r # s => r.sources \cap s.sources = {}
  /\ \A x \in resolutions : x.status = "resolved" =>
       \E m \in memories : /\ Key(m) = x.target /\ m.state \in {"archived", "deleted"}
                           /\ m.source # x.source /\ m.source.at <= x.source.at
=============================================================================
