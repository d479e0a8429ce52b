------------------------------ MODULE Proposals ------------------------------
(***************************************************************************)
(* Improvement proposals: their rows (storage/proposals.py), the service   *)
(* that applies and rolls them back under proposal-apply.lock              *)
(* (improvement/service.py) and the work in Git (improvement/git_apply.py).*)
(*                                                                         *)
(* An approved proposal is applied at most once: its patch is committed on *)
(* a branch of its own, in a private worktree, on top of the commit the    *)
(* owner had checked out.  The owner goes on working in the repository     *)
(* meanwhile, a step may fail, and the process may die between any two     *)
(* steps; a proposal left in "applying" is finished by applying it again.  *)
(*                                                                         *)
(* A commit is one of the owner's, numbered on a line, the one the service *)
(* makes of the patch on a commit of the owner, or any other.  A proposal  *)
(* is begun at most once, so its attempt id tells nothing its branch does  *)
(* not.                                                                    *)
(***************************************************************************)
EXTENDS Naturals

CONSTANTS
    Workers,     \* processes that apply: control panel, command line
    Proposals,   \* rows of improvement_proposals
    Signatures,  \* what active proposals are deduplicated by
    Branches,    \* the owner's branches
    MaxCommits,  \* bound: commits of the owner
    MaxEvents,   \* bound: actions of the owner in the repository
    MaxFaults,   \* bound: failed steps, failed writes and crashes
    NONE         \* no lock holder, no branch, no commit, no proposal

ASSUME BoundsAssumption == {MaxCommits, MaxEvents, MaxFaults} \subseteq Nat

ASSUME NoneAssumption ==
    NONE \notin Workers \cup Proposals \cup [kind : {"owner", "service", "foreign"},
                                              base : 0..MaxCommits]

VARIABLES
    status,   \* improvement_proposals.approval_status, or "absent"
    subject,  \* the signature and the capability of a proposal
    plan,     \* the branch and the commit recorded by begin_apply
    applied,  \* improvement_proposals.applied_commit
    lock,     \* the holder of proposal-apply.lock
    head,     \* the branch checked out in the repository
    tip,      \* the commit of each of the owner's branches
    clean,    \* is git status empty
    ref,      \* the commit of each proposal's branch
    trees,    \* worktrees on proposal branches: the owner's, the service's,
              \* or one of the service that has lost its directory
    work,     \* each worker's step and locals
    made,     \* history: commits the service made for a proposal
    events, faults

rows == <<status, subject, plan, applied>>
repository == <<head, tip, clean>>
vars == <<rows, lock, repository, ref, trees, work, made, events, faults>>

Kinds == {"executable", "plain", "analyzer"}

Commit == [kind : {"owner", "service", "foreign"}, base : 0..MaxCommits]

Owner(n) == [kind |-> "owner", base |-> n]

Plan == [branch : Branches, base : 0..MaxCommits]

(* Mutant of Active: a proposal that is being applied is not active.       *)
ActiveInReview == {"draft", "approved"}

Active == {"draft", "approved", "applying"}

Statuses == {"absent", "draft", "approved", "applying", "applied", "rejected", "failed",
             "rolled_back"}

Steps == {"idle", "preflight", "begin", "branch", "stage", "verify", "commit", "check",
          "cleanup", "applied", "failed", "recover", "sweep", "rollback", "unapply"}

Trees == Proposals \X {"service", "stale", "owner"}

Private(p) == {<<p, "service">>, <<p, "stale">>}

(* Everything _verification_boundary looks at.                             *)
Boundary == [ref : [Proposals -> Commit \cup {NONE}],
             tip : [Branches -> 0..MaxCommits],
             trees : SUBSET Trees]

(* The locals of apply and rollback: the proposal, the plan of preflight,  *)
(* the boundary before verification, the commit made or found, and what    *)
(* is known of it: nothing, that it is exact, that it is exact but the row *)
(* has to wait, or that this is a recovery.                                *)
Locals == [step : Steps,
           of : Proposals \cup {NONE},
           plan : Plan \cup {NONE},
           seen : Boundary \cup {NONE},
           commit : Commit \cup {NONE},
           result : {"none", "exact", "deferred", "recovery"}]

Asleep == [step |-> "idle", of |-> NONE, plan |-> NONE, seen |-> NONE,
           commit |-> NONE, result |-> "none"]

TypeOK ==
    /\ status \in [Proposals -> Statuses]
    /\ subject \in [Proposals -> [signature : Signatures, kind : Kinds]]
    /\ plan \in [Proposals -> Plan \cup {NONE}]
    /\ applied \in [Proposals -> Commit \cup {NONE}]
    /\ lock \in Workers \cup {NONE}
    /\ head \in Branches
    /\ tip \in [Branches -> 0..MaxCommits]
    /\ clean \in BOOLEAN
    /\ ref \in [Proposals -> Commit \cup {NONE}]
    /\ trees \subseteq Trees
    /\ work \in [Workers -> Locals]
    /\ made \in [Proposals -> Nat]
    /\ events \in 0..MaxEvents
    /\ faults \in 0..MaxFaults

Init ==
    /\ status = [p \in Proposals |-> "absent"]
    /\ subject \in [Proposals -> [signature : Signatures, kind : Kinds]]
    /\ plan = [p \in Proposals |-> NONE]
    /\ applied = [p \in Proposals |-> NONE]
    /\ lock = NONE
    /\ head \in Branches
    /\ tip = [b \in Branches |-> 0]
    /\ clean = TRUE
    /\ ref = [p \in Proposals |-> NONE]
    /\ trees = {}
    /\ work = [w \in Workers |-> Asleep]
    /\ made = [p \in Proposals |-> 0]
    /\ events = 0
    /\ faults = 0

-----------------------------------------------------------------------------
(* The rows.  Each of these is one transaction.                            *)

(* A draft whose signature is active already is not inserted.              *)
Create(p) ==
    /\ status[p] = "absent"
    /\ \A q \in Proposals :
         status[q] \in Active => subject[q].signature # subject[p].signature
    /\ status' = [status EXCEPT ![p] = "draft"]
    /\ UNCHANGED <<subject, plan, applied, lock, repository, ref, trees, work, made,
                   events, faults>>

(* What the health analyzer proposes carries no capability.                *)
Approve(p) ==
    /\ status[p] = "draft"
    /\ subject[p].kind # "analyzer"
    /\ status' = [status EXCEPT ![p] = "approved"]
    /\ UNCHANGED <<subject, plan, applied, lock, repository, ref, trees, work, made,
                   events, faults>>

(* Takes no lock: it may come between preflight and begin_apply.           *)
Reject(p) ==
    /\ status[p] \in {"draft", "approved"}
    /\ status' = [status EXCEPT ![p] = "rejected"]
    /\ UNCHANGED <<subject, plan, applied, lock, repository, ref, trees, work, made,
                   events, faults>>

-----------------------------------------------------------------------------
(* The owner in the repository.                                            *)

Event == events < MaxEvents /\ events' = events + 1

OwnerCommits ==
    /\ Event
    /\ tip[head] < MaxCommits
    /\ tip' = [tip EXCEPT ![head] = @ + 1]
    /\ UNCHANGED <<rows, lock, head, clean, ref, trees, work, made, faults>>

OwnerSwitches ==
    /\ Event
    /\ \E b \in Branches \ {head} : head' = b
    /\ UNCHANGED <<rows, lock, tip, clean, ref, trees, work, made, faults>>

OwnerEdits ==
    /\ Event
    /\ clean' = ~clean
    /\ UNCHANGED <<rows, lock, head, tip, ref, trees, work, made, faults>>

(* A proposal branch is deleted, reset or committed to.                    *)
OwnerMovesRef(p) ==
    /\ Event
    /\ ref[p] # NONE
    /\ \E c \in {NONE, Owner(0), [kind |-> "foreign", base |-> 0]} \ {ref[p]} :
         ref' = [ref EXCEPT ![p] = c]
    /\ UNCHANGED <<rows, lock, repository, trees, work, made, faults>>

(* The branch is checked out for a review, or no longer; Git has a branch  *)
(* checked out in one worktree only, with a directory or without.          *)
OwnerReviews(p) ==
    /\ Event
    /\ \/ /\ ref[p] # NONE /\ \A tree \in trees : tree[1] # p
          /\ trees' = trees \cup {<<p, "owner">>}
       \/ /\ <<p, "owner">> \in trees
          /\ trees' = trees \ {<<p, "owner">>}
    /\ UNCHANGED <<rows, lock, repository, ref, work, made, faults>>

(* git worktree prune, or gc after its time.                               *)
OwnerPrunes(p) ==
    /\ Event
    /\ <<p, "stale">> \in trees
    /\ trees' = trees \ {<<p, "stale">>}
    /\ UNCHANGED <<rows, lock, repository, ref, work, made, faults>>

-----------------------------------------------------------------------------
(* The service.                                                            *)

Fault == faults < MaxFaults /\ faults' = faults + 1

At(w, step) == work[w].step = step

Goto(w, step) == work' = [work EXCEPT ![w].step = step]

(* The call ends: by a return, by an exception, or with the process.       *)
Leave(w) ==
    /\ lock' = IF lock = w THEN NONE ELSE lock
    /\ work' = [work EXCEPT ![w] = Asleep]

FirstStep == {<<"approved", "preflight">>, <<"applying", "recover">>,
              <<"applied", "rollback">>}

(* apply on an approved or an interrupted proposal, rollback on an applied *)
(* one; with the lock taken, or in another state, the call is refused.     *)
Open(w, p) ==
    /\ At(w, "idle")
    /\ lock = NONE
    /\ \E step \in {"preflight", "recover", "rollback"} :
         /\ <<status[p], step>> \in FirstStep
         /\ work' = [work EXCEPT ![w] =
                       [step |-> step, of |-> p, plan |-> NONE, seen |-> NONE,
                        commit |-> NONE,
                        result |-> IF step = "recover" THEN "recovery" ELSE "none"]]
    /\ lock' = w
    /\ UNCHANGED <<rows, repository, ref, trees, made, events, faults>>

Preflight(w) ==
    LET p == work[w].of IN
    /\ At(w, "preflight")
    /\ \/ /\ subject[p].kind = "executable" /\ clean /\ ref[p] = NONE
          /\ work' = [work EXCEPT ![w].step = "begin",
                        ![w].plan = [branch |-> head, base |-> tip[head]]]
          /\ UNCHANGED <<lock, faults>>
       \/ /\ ~(subject[p].kind = "executable" /\ clean /\ ref[p] = NONE)
          /\ Leave(w)
          /\ UNCHANGED faults
       \/ Fault /\ Leave(w)
    /\ UNCHANGED <<rows, repository, ref, trees, made, events>>

(* Mutant of BeginApply: the plan is recorded before the status is read.   *)
BeginRecordsFirst(w) ==
    LET p == work[w].of IN
    /\ At(w, "begin")
    /\ plan' = [plan EXCEPT ![p] = work[w].plan]
    /\ IF status[p] = "approved"
       THEN /\ status' = [status EXCEPT ![p] = "applying"]
            /\ Goto(w, "branch")
            /\ UNCHANGED lock
       ELSE Leave(w) /\ UNCHANGED status
    /\ UNCHANGED <<subject, applied, repository, ref, trees, made, events, faults>>

BeginApply(w) ==
    LET p == work[w].of IN
    /\ At(w, "begin")
    /\ IF status[p] = "approved"
       THEN /\ status' = [status EXCEPT ![p] = "applying"]
            /\ plan' = [plan EXCEPT ![p] = work[w].plan]
            /\ Goto(w, "branch")
            /\ UNCHANGED lock
       ELSE Leave(w) /\ UNCHANGED <<status, plan>>
    /\ UNCHANGED <<subject, applied, repository, ref, trees, made, events, faults>>

(* _matching_plan: the repository is clean and where it was.               *)
Matching(p) == clean /\ plan[p] = [branch |-> head, base |-> tip[head]]

(* git worktree add -b; it may report a failure with the branch made, or   *)
(* with the worktree, too.                                                 *)
CreateBranch(w) ==
    LET p == work[w].of
        base == Owner(plan[p].base) IN
    /\ At(w, "branch")
    /\ \/ /\ Matching(p) /\ ref[p] = NONE
          /\ ref' = [ref EXCEPT ![p] = base]
          /\ trees' = trees \cup {<<p, "service">>}
          /\ Goto(w, "stage")
          /\ UNCHANGED faults
       \/ /\ ~(Matching(p) /\ ref[p] = NONE)
          /\ Goto(w, "failed")
          /\ UNCHANGED <<ref, trees, faults>>
       \/ /\ Fault
          /\ \/ UNCHANGED <<ref, trees>>
             \/ /\ Matching(p) /\ ref[p] = NONE
                /\ ref' = [ref EXCEPT ![p] = base]
                /\ trees' \in {trees, trees \cup {<<p, "service">>}}
          /\ Goto(w, "cleanup")
    /\ UNCHANGED <<rows, lock, repository, made, events>>

Observed == [ref |-> ref, tip |-> tip, trees |-> trees]

Stage(w) ==
    /\ At(w, "stage")
    /\ \/ /\ work' = [work EXCEPT ![w].step = "verify", ![w].seen = Observed]
          /\ UNCHANGED faults
       \/ Fault /\ Goto(w, "cleanup")
    /\ UNCHANGED <<rows, lock, repository, ref, trees, made, events>>

(* _verify and _require_expected_staging.                                  *)
Verify(w) ==
    LET p == work[w].of
        undisturbed == Observed = work[w].seen /\ ref[p] = Owner(plan[p].base) IN
    /\ At(w, "verify")
    /\ \/ Goto(w, IF undisturbed THEN "commit" ELSE "cleanup") /\ UNCHANGED faults
       \/ Fault /\ Goto(w, "cleanup")
    /\ UNCHANGED <<rows, lock, repository, ref, trees, made, events>>

(* git commit puts the patch on whatever the branch is at; it may report a *)
(* failure with the commit made, or without.                               *)
CommitPatch(w) ==
    LET p == work[w].of IN
    /\ At(w, "commit")
    /\ \/ /\ ref' = [ref EXCEPT ![p] =
                       [kind |-> IF @ = Owner(plan[p].base) THEN "service" ELSE "foreign",
                        base |-> plan[p].base]]
          /\ made' = [made EXCEPT ![p] = @ + 1]
          /\ \/ /\ work' = [work EXCEPT ![w].step = "check", ![w].result = "exact"]
                /\ UNCHANGED faults
             \/ /\ Fault
                /\ work' = [work EXCEPT ![w].step = "check", ![w].result = "deferred"]
       \/ Fault /\ Goto(w, "cleanup") /\ UNCHANGED <<ref, made>>
    /\ UNCHANGED <<rows, lock, repository, trees, events>>

(* _verify_commit: the parent, the message with the attempt, and the tree. *)
IsExact(p, c) == c = [kind |-> "service", base |-> plan[p].base]

(* _require_post_commit_boundary: nothing but the proposal's branch moved. *)
NothingElseMoved(w) ==
    LET p == work[w].of IN
    /\ Observed = [work[w].seen EXCEPT !.ref[p] = ref[p]]
    /\ Matching(p)

Check(w) ==
    LET p == work[w].of IN
    /\ At(w, "check")
    /\ \/ /\ IF IsExact(p, ref[p]) /\ NothingElseMoved(w)
             THEN work' = [work EXCEPT ![w].step = "cleanup", ![w].commit = ref[p]]
             ELSE work' = [work EXCEPT ![w].step = "cleanup", ![w].result = "none"]
          /\ UNCHANGED faults
       \/ /\ Fault  \* the hooks of the repository changed
          /\ IsExact(p, ref[p]) /\ NothingElseMoved(w)
          /\ work' = [work EXCEPT ![w].step = "cleanup", ![w].result = "deferred"]
    /\ UNCHANGED <<rows, lock, repository, ref, trees, made, events>>

(* What a cleanup of the private worktree that did not end leaves: the     *)
(* worktree, nothing, or only its registration (WorktreeCleanup).          *)
Halfway(p) ==
    {trees} \cup
    (IF <<p, "service">> \in trees
     THEN {trees \ {<<p, "service">>},
           (trees \ {<<p, "service">>}) \cup {<<p, "stale">>}}
     ELSE {})

(* _cleanup_created_worktree.  Without an exact commit the proposal has    *)
(* failed; with one, it stays in "applying" unless all went well.          *)
Cleanup(w) ==
    LET p == work[w].of IN
    /\ At(w, "cleanup")
    /\ \/ /\ trees' = trees \ {<<p, "service">>}
          /\ UNCHANGED faults
          /\ \/ work[w].result = "exact" /\ Goto(w, "applied") /\ UNCHANGED lock
             \/ work[w].result = "none" /\ Goto(w, "failed") /\ UNCHANGED lock
             \/ work[w].result \notin {"none", "exact"} /\ Leave(w)
       \/ /\ Fault
          /\ trees' \in Halfway(p)
          /\ IF work[w].result = "none" THEN Goto(w, "failed") /\ UNCHANGED lock
             ELSE Leave(w)
    /\ UNCHANGED <<rows, repository, ref, made, events>>

(* One transaction, or none when it fails.                                 *)
Mark(w, step, from, to) ==
    LET p == work[w].of IN
    /\ At(w, step)
    /\ Leave(w)
    /\ \/ /\ IF status[p] = from
             THEN /\ status' = [status EXCEPT ![p] = to]
                  /\ applied' = IF to = "applied"
                                THEN [applied EXCEPT ![p] = work[w].commit] ELSE applied
             ELSE UNCHANGED <<status, applied>>
          /\ UNCHANGED faults
       \/ Fault /\ UNCHANGED <<status, applied>>
    /\ UNCHANGED <<subject, plan, repository, ref, trees, made, events>>

MarkApplied(w) == Mark(w, "applied", "applying", "applied")

MarkFailed(w) == Mark(w, "failed", "applying", "failed")

MarkRolledBack(w) == Mark(w, "unapply", "applied", "rolled_back")

(* Mutant of Recover: a branch at its base is applied to once more.        *)
RecoverReapplying(w) ==
    LET p == work[w].of IN
    /\ At(w, "recover")
    /\ work' = [work EXCEPT ![w].commit = ref[p],
                  ![w].step = CASE IsExact(p, ref[p]) -> "sweep"
                                [] ref[p] = Owner(plan[p].base) -> "stage"
                                [] OTHER -> "failed"]
    /\ UNCHANGED <<rows, lock, repository, ref, trees, made, events, faults>>

(* Mutant of Recover: without the exact commit the proposal is left alone. *)
RecoverOrWait(w) ==
    LET p == work[w].of IN
    /\ At(w, "recover")
    /\ IF IsExact(p, ref[p])
       THEN /\ work' = [work EXCEPT ![w].step = "sweep", ![w].commit = ref[p]]
            /\ UNCHANGED lock
       ELSE Leave(w)
    /\ UNCHANGED <<rows, repository, ref, trees, made, events, faults>>

(* recover: only the exact commit counts, whatever else the owner did to   *)
(* the repository; a commit that cannot be checked has failed, too.        *)
Recover(w) ==
    LET p == work[w].of IN
    /\ At(w, "recover")
    /\ \/ /\ IF IsExact(p, ref[p])
             THEN work' = [work EXCEPT ![w].step = "sweep", ![w].commit = ref[p]]
             ELSE Goto(w, "failed")
          /\ UNCHANGED <<lock, faults>>
       \/ Fault /\ (Leave(w) \/ (Goto(w, "failed") /\ UNCHANGED lock))
    /\ UNCHANGED <<rows, repository, ref, trees, made, events>>

(* _cleanup_recovery_worktrees: the branch's worktrees, if they are ours.  *)
(* One without its directory is refused, now and every time after.         *)
Sweep(w) ==
    LET p == work[w].of IN
    /\ At(w, "sweep")
    /\ \/ /\ <<p, "owner">> \in trees
          /\ Goto(w, "failed")
          /\ UNCHANGED <<lock, trees, faults>>
       \/ /\ <<p, "stale">> \in trees
          /\ Leave(w)
          /\ UNCHANGED <<trees, faults>>
       \/ /\ <<p, "owner">> \notin trees /\ <<p, "stale">> \notin trees
          /\ trees' = trees \ {<<p, "service">>}
          /\ Goto(w, "applied")
          /\ UNCHANGED <<lock, faults>>
       \/ /\ Fault
          /\ <<p, "service">> \in trees
          /\ trees' \in Halfway(p)
          /\ Leave(w)
       \/ /\ Fault  \* the worktrees cannot be listed
          /\ Goto(w, "failed")
          /\ UNCHANGED <<lock, trees>>
    /\ UNCHANGED <<rows, repository, ref, made, events>>

(* verify_rollback: the owner's branch has to be where it was at apply.    *)
Rollback(w) ==
    LET p == work[w].of
        verified == Matching(p) /\ ref[p] = applied[p] /\ IsExact(p, ref[p]) IN
    /\ At(w, "rollback")
    /\ \/ verified /\ Goto(w, "unapply") /\ UNCHANGED <<lock, faults>>
       \/ ~verified /\ Leave(w) /\ UNCHANGED faults
       \/ Fault /\ Leave(w)
    /\ UNCHANGED <<rows, repository, ref, trees, made, events>>

(* The process dies: the kernel releases the lock, the worktree stays, or  *)
(* what is left of it.                                                     *)
Crash(w) ==
    /\ ~At(w, "idle")
    /\ Fault
    /\ trees' \in IF work[w].step \in {"cleanup", "sweep"} THEN Halfway(work[w].of)
                  ELSE {trees}
    /\ Leave(w)
    /\ UNCHANGED <<rows, repository, ref, made, events>>

Proceed(w) ==
    \/ Preflight(w) \/ BeginApply(w) \/ CreateBranch(w) \/ Stage(w) \/ Verify(w)
    \/ CommitPatch(w) \/ Check(w) \/ Cleanup(w) \/ MarkApplied(w) \/ MarkFailed(w)
    \/ Recover(w) \/ Sweep(w) \/ Rollback(w) \/ MarkRolledBack(w)

OwnerActs ==
    \/ OwnerCommits \/ OwnerSwitches \/ OwnerEdits
    \/ \E p \in Proposals : \/ Create(p) \/ Approve(p) \/ Reject(p)
                            \/ OwnerMovesRef(p) \/ OwnerReviews(p) \/ OwnerPrunes(p)

Next ==
    \/ OwnerActs
    \/ \E w \in Workers : \/ \E p \in Proposals : Open(w, p)
                          \/ Proceed(w)
                          \/ Crash(w)

Spec == Init /\ [][Next]_vars

-----------------------------------------------------------------------------
(* Properties.                                                             *)

(* No two active proposals have the same signature, whatever order they    *)
(* are created, applied and finished in: the partial unique index and the  *)
(* deduplication of create.                                                *)
OneActivePerSignature ==
    \A p, q \in Proposals :
       /\ p # q
       /\ {status[p], status[q]} \subseteq {"draft", "approved", "applying"}
       => subject[p].signature # subject[q].signature

(* A proposal that was not approved, or that was rejected while an apply   *)
(* was on its way from preflight to begin_apply, has not touched Git.      *)
OnlyApprovedRuns ==
    \A p \in Proposals :
       status[p] \in {"absent", "draft", "approved", "rejected"}
         => /\ plan[p] = NONE /\ ref[p] = NONE /\ made[p] = 0
            /\ Private(p) \cap trees = {}

(* However often an apply is interrupted and repeated, and whatever the    *)
(* owner does to the branch in between, the patch is committed only once.  *)
CommittedOnce == \A p \in Proposals : made[p] <= 1

(* An applied proposal has recorded the commit of its patch on the commit  *)
(* it was planned on, also when a recovery found a branch that was moved.  *)
AppliedIsExact ==
    \A p \in Proposals :
       status[p] \in {"applied", "rolled_back"} => IsExact(p, applied[p]) /\ made[p] = 1

(* No private worktree, nor a registration of one, stays behind an applied *)
(* proposal, also when the cleanup failed or the process died and a        *)
(* recovery finished the work.                                             *)
AppliedIsClean ==
    \A p \in Proposals :
       status[p] \in {"applied", "rolled_back"}
         => Private(p) \cap trees = {}

(* What is recorded as applied is the approved patch on the planned commit, *)
(* committed once, with nothing left behind.                                *)
AppliedOnce == CommittedOnce /\ AppliedIsExact /\ AppliedIsClean

(* What the operations guide says of Recover: when it has given an         *)
(* interrupted proposal its outcome, the private worktree is gone.         *)
RecoverCleansUp ==
    [][ \A w \in Workers :
          LET p == work[w].of IN
          /\ work[w].result = "recovery"
          /\ status[p] = "applying" /\ status'[p] \in {"applied", "failed"}
          => <<p, "service">> \notin trees' ]_vars
=============================================================================
