-------------------------- MODULE ProposalsProofs --------------------------
(***************************************************************************)
(* Proofs about the life of improvement proposals, for every number of     *)
(* workers, proposals, branches, actions of the owner, failures and        *)
(* crashes.                                                                *)
(***************************************************************************)
EXTENDS Proposals, TLAPS

Begun == {"applying", "applied", "failed", "rolled_back"}

Applying == {"branch", "stage", "verify", "commit", "check", "cleanup", "applied",
             "failed", "recover", "sweep"}

BeforeCommit == {"branch", "stage", "verify", "commit"}

BeforeCleanup == {"branch", "stage", "verify", "commit", "check", "cleanup"}

(* Who is in a call holds the lock; there is one such worker at most.      *)
Holds(w) == work[w].step # "idle" => lock = w /\ work[w].of \in Proposals

(* The proposal of a call, while it is applied, is in "applying", and its  *)
(* patch was not committed before this call reaches git commit.            *)
Owns(w) ==
  /\ work[w].step \in Applying => status[work[w].of] = "applying"
  /\ work[w].step = "begin" => work[w].plan \in Plan
  /\ work[w].step \in BeforeCommit => made[work[w].of] = 0
  /\ work[w].step \in {"rollback", "unapply"} => status[work[w].of] = "applied"

(* A call that is about to record a commit has an exact one, and no worktree *)
(* of its proposal loses its directory before the call cleans up.          *)
Found(w) ==
  /\ work[w].step \in {"preflight", "begin"} \cup BeforeCommit => work[w].result = "none"
  /\ work[w].step \in {"sweep", "applied"} \/
     (work[w].step = "cleanup" /\ work[w].result = "exact")
       => IsExact(work[w].of, work[w].commit) /\ made[work[w].of] = 1
  /\ work[w].step \in BeforeCleanup => <<work[w].of, "stale">> \notin trees
  /\ work[w].step = "applied" => Private(work[w].of) \cap trees = {}

WorkerInv(w) == Holds(w) /\ Owns(w) /\ Found(w)

Planned == \A p \in Proposals : status[p] \in Begun => plan[p] \in Plan

(* A commit of the service on a branch was made by the service.            *)
RefMade ==
  \A p \in Proposals : ref[p] # NONE /\ ref[p].kind = "service" => made[p] = 1

(* The inductive invariant.                                                *)
IInv == /\ TypeOK
        /\ OnlyApprovedRuns /\ CommittedOnce /\ AppliedIsExact /\ AppliedIsClean
        /\ OneActivePerSignature
        /\ Planned /\ RefMade
        /\ \A w \in Workers : WorkerInv(w)

(* The initial state satisfies the inductive invariant.                    *)
LEMMA InitInv == Init => IInv
<1> SUFFICES ASSUME Init PROVE IInv
  OBVIOUS
<1> USE BoundsAssumption, NoneAssumption
<1>1. TypeOK
  BY DEF Init, TypeOK, Asleep, Locals, Steps, Statuses
<1>2. OnlyApprovedRuns /\ CommittedOnce /\ AppliedIsExact /\ AppliedIsClean
  BY DEF Init, OnlyApprovedRuns, CommittedOnce, AppliedIsExact, AppliedIsClean
<1>3. OneActivePerSignature /\ Planned /\ RefMade
  BY DEF Init, OneActivePerSignature, Planned, RefMade, Begun
<1>4. \A w \in Workers : WorkerInv(w)
  BY DEF Init, Asleep, WorkerInv, Holds, Owns, Found, Applying, BeforeCommit, BeforeCleanup
<1>5. QED
  BY <1>1, <1>2, <1>3, <1>4 DEF IInv

(* The part of the invariant about the rows and the branches.              *)
RowInv == /\ OnlyApprovedRuns /\ CommittedOnce /\ AppliedIsExact /\ AppliedIsClean
          /\ OneActivePerSignature
          /\ Planned /\ RefMade

-----------------------------------------------------------------------------
(* Types.                                                                  *)

LEMMA AsleepType == Asleep \in Locals
BY DEF Asleep, Locals, Steps

LEMMA LeaveType ==
  ASSUME TypeOK, NEW w \in Workers, Leave(w)
  PROVE  work' \in [Workers -> Locals] /\ lock' \in Workers \cup {NONE}
BY AsleepType DEF TypeOK, Leave

(* The locals of a worker after a step, and nobody else's.                 *)
Becomes(w, x) == x \in Locals /\ work' = [work EXCEPT ![w] = x]

(* The first locals of a call.                                             *)
LEMMA OpenEffect ==
  ASSUME NEW w \in Workers, NEW p \in Proposals, Open(w, p)
  PROVE  \E x \in Locals : /\ Becomes(w, x) /\ x.of = p
                           /\ <<status[p], x.step>> \in FirstStep
                           /\ x.step = "preflight" => x.result = "none"
<1>1. PICK step \in {"preflight", "recover", "rollback"} :
        /\ <<status[p], step>> \in FirstStep
        /\ work' = [work EXCEPT ![w] =
                      [step |-> step, of |-> p, plan |-> NONE, seen |-> NONE,
                       commit |-> NONE,
                       result |-> IF step = "recover" THEN "recovery" ELSE "none"]]
  BY DEF Open
<1> DEFINE x == [step |-> step, of |-> p, plan |-> NONE, seen |-> NONE, commit |-> NONE,
                 result |-> IF step = "recover" THEN "recovery" ELSE "none"]
<1>2. x \in Locals /\ x.of = p /\ x.step = step
      /\ (step = "preflight" => x.result = "none")
  BY DEF Locals, Steps
<1>3. work' = [work EXCEPT ![w] = x]
  BY <1>1
<1>4. QED
  BY <1>1, <1>2, <1>3 DEF Becomes

LEMMA BecomesType ==
  ASSUME TypeOK, NEW w \in Workers, NEW x, Becomes(w, x)
  PROVE  work' \in [Workers -> Locals]
BY DEF TypeOK, Becomes

LEMMA GotoEffect ==
  ASSUME TypeOK, NEW w \in Workers, NEW step \in Steps, Goto(w, step)
  PROVE  \E x \in Locals : /\ Becomes(w, x)
                           /\ x.step = step /\ x.of = work[w].of
                           /\ x.result = work[w].result /\ x.commit = work[w].commit
<1> DEFINE x == [work[w] EXCEPT !.step = step]
<1>1. work[w] \in Locals
  BY DEF TypeOK
<1>2. /\ x \in Locals /\ x.step = step /\ x.of = work[w].of
      /\ x.result = work[w].result /\ x.commit = work[w].commit
  BY <1>1 DEF Locals
<1>3. work' = [work EXCEPT ![w] = x]
  BY DEF Goto
<1>4. QED
  BY <1>2, <1>3 DEF Becomes

LEMMA PreflightEffect ==
  ASSUME TypeOK, NEW w \in Workers, Preflight(w)
  PROVE  \/ Leave(w)
         \/ /\ lock' = lock
            /\ \E x \in Locals : /\ Becomes(w, x)
                                /\ x.step = "begin" /\ x.of = work[w].of
                                /\ x.plan \in Plan /\ x.result = work[w].result
<1>1. CASE work' = [work EXCEPT ![w].step = "begin",
                      ![w].plan = [branch |-> head, base |-> tip[head]]]
           /\ lock' = lock
  <2> DEFINE x == [work[w] EXCEPT !.step = "begin",
                     !.plan = [branch |-> head, base |-> tip[head]]]
  <2>1. [branch |-> head, base |-> tip[head]] \in Plan
    BY DEF TypeOK, Plan
  <2>2. x \in Locals
    BY <2>1, ZenonT(60) DEF TypeOK, Locals, Steps
  <2>3. work' = [work EXCEPT ![w] = x]
    BY <1>1
  <2>4. x.step = "begin" /\ x.of = work[w].of /\ x.plan \in Plan
        /\ x.result = work[w].result
    BY <2>1 DEF TypeOK, Locals
  <2>5. QED
    BY <1>1, <2>2, <2>3, <2>4 DEF Becomes
<1>2. QED
  BY <1>1 DEF Preflight

LEMMA StageEffect ==
  ASSUME TypeOK, NEW w \in Workers, Stage(w)
  PROVE  \E x \in Locals : /\ Becomes(w, x)
                           /\ x.step \in {"verify", "cleanup"} /\ x.of = work[w].of
                           /\ x.result = work[w].result
<1>1. CASE work' = [work EXCEPT ![w].step = "verify", ![w].seen = Observed]
  <2> DEFINE x == [work[w] EXCEPT !.step = "verify", !.seen = Observed]
  <2>1. Observed \in Boundary
    BY DEF Observed, Boundary, TypeOK
  <2>2. x \in Locals
    BY <2>1, ZenonT(60) DEF TypeOK, Locals, Steps
  <2>3. work' = [work EXCEPT ![w] = x]
    BY <1>1
  <2>4. x.step = "verify" /\ x.of = work[w].of /\ x.result = work[w].result
    BY DEF TypeOK, Locals
  <2>5. QED
    BY <2>2, <2>3, <2>4 DEF Becomes
<1>2. CASE Goto(w, "cleanup")
  <2>1. "cleanup" \in Steps
    BY DEF Steps
  <2>2. QED
    BY <1>2, <2>1, GotoEffect
<1>3. QED
  BY <1>1, <1>2 DEF Stage

LEMMA CommitEffect ==
  ASSUME TypeOK, NEW w \in Workers, CommitPatch(w)
  PROVE  \E x \in Locals : /\ Becomes(w, x)
                           /\ x.of = work[w].of
                           /\ \/ x.step = "check"
                              \/ /\ x.step = "cleanup" /\ x.result = work[w].result
                                 /\ UNCHANGED <<ref, made>>
<1>1. ASSUME NEW r \in {"exact", "deferred"},
             work' = [work EXCEPT ![w].step = "check", ![w].result = r]
      PROVE  \E x \in Locals : Becomes(w, x) /\ x.of = work[w].of /\ x.step = "check"
  <2> DEFINE x == [work[w] EXCEPT !.step = "check", !.result = r]
  <2>1. x \in Locals /\ x.step = "check" /\ x.of = work[w].of
    BY ZenonT(60) DEF TypeOK, Locals, Steps
  <2>2. work' = [work EXCEPT ![w] = x]
    BY <1>1
  <2>3. QED
    BY <2>1, <2>2 DEF Becomes
<1>2. CASE Goto(w, "cleanup") /\ UNCHANGED <<ref, made>>
  <2>1. "cleanup" \in Steps
    BY DEF Steps
  <2>2. QED
    BY <1>2, <2>1, GotoEffect
<1>3. QED
  BY <1>1, <1>2 DEF CommitPatch

LEMMA CheckEffect ==
  ASSUME TypeOK, NEW w \in Workers, Check(w), work[w].of \in Proposals
  PROVE  \E x \in Locals : /\ Becomes(w, x)
                           /\ x.step = "cleanup" /\ x.of = work[w].of
                           /\ x.result = "exact" =>
                                x.commit = ref[work[w].of] /\ IsExact(work[w].of, x.commit)
<1> DEFINE p == work[w].of
<1>1. CASE IsExact(p, ref[p]) /\
           work' = [work EXCEPT ![w].step = "cleanup", ![w].commit = ref[p]]
  <2> DEFINE x == [work[w] EXCEPT !.step = "cleanup", !.commit = ref[p]]
  <2>1. x \in Locals /\ x.step = "cleanup" /\ x.of = work[w].of /\ x.commit = ref[p]
    BY ZenonT(60) DEF TypeOK, Locals, Steps
  <2>2. work' = [work EXCEPT ![w] = x]
    BY <1>1
  <2>3. QED
    BY <1>1, <2>1, <2>2 DEF Becomes
<1>2. ASSUME NEW r \in {"none", "deferred"},
             work' = [work EXCEPT ![w].step = "cleanup", ![w].result = r]
      PROVE  \E x \in Locals : /\ Becomes(w, x) /\ x.of = work[w].of
                               /\ x.step = "cleanup" /\ x.result # "exact"
  <2> DEFINE x == [work[w] EXCEPT !.step = "cleanup", !.result = r]
  <2>1. x \in Locals /\ x.step = "cleanup" /\ x.of = work[w].of /\ x.result = r
    BY ZenonT(60) DEF TypeOK, Locals, Steps
  <2>2. work' = [work EXCEPT ![w] = x]
    BY <1>2
  <2>3. QED
    BY <2>1, <2>2 DEF Becomes
<1>3. QED
  BY <1>1, <1>2 DEF Check

LEMMA RecoverEffect ==
  ASSUME TypeOK, NEW w \in Workers, Recover(w), work[w].of \in Proposals
  PROVE  \/ Leave(w)
         \/ /\ lock' = lock
            /\ \E x \in Locals :
                 /\ Becomes(w, x) /\ x.of = work[w].of
                 /\ x.step \in {"failed", "sweep"}
                 /\ x.step = "sweep" =>
                      x.commit = ref[work[w].of] /\ IsExact(work[w].of, x.commit)
<1> DEFINE p == work[w].of
<1>1. CASE IsExact(p, ref[p]) /\ lock' = lock /\
           work' = [work EXCEPT ![w].step = "sweep", ![w].commit = ref[p]]
  <2> DEFINE x == [work[w] EXCEPT !.step = "sweep", !.commit = ref[p]]
  <2>1. x \in Locals /\ x.step = "sweep" /\ x.of = work[w].of /\ x.commit = ref[p]
    BY ZenonT(60) DEF TypeOK, Locals, Steps
  <2>2. work' = [work EXCEPT ![w] = x]
    BY <1>1
  <2>3. QED
    BY <1>1, <2>1, <2>2 DEF Becomes
<1>2. CASE Goto(w, "failed") /\ lock' = lock
  <2>1. "failed" \in Steps
    BY DEF Steps
  <2>2. QED
    BY <1>2, <2>1, GotoEffect
<1>3. QED
  BY <1>1, <1>2 DEF Recover

-----------------------------------------------------------------------------
(* What most steps leave alone.                                            *)

(* While one worker is in a call, all others are idle, and stay so.        *)
LEMMA Others ==
  ASSUME IInv, NEW w \in Workers, work[w].step # "idle" \/ lock = NONE,
         NEW x, Becomes(w, x), NEW q \in Workers \ {w}
  PROVE  WorkerInv(q)'
<1>1. work[q].step = "idle"
  BY NoneAssumption DEF IInv, WorkerInv, Holds
<1>2. work'[q] = work[q]
  BY DEF Becomes, IInv, TypeOK
<1>3. QED
  BY <1>1, <1>2 DEF WorkerInv, Holds, Owns, Found, Applying, BeforeCommit, BeforeCleanup

LEMMA LeaveInv ==
  ASSUME IInv, NEW w \in Workers, work[w].step # "idle", Leave(w)
  PROVE  \A q \in Workers : WorkerInv(q)'
<1>1. Becomes(w, Asleep)
  BY AsleepType DEF Becomes, Leave
<1>2. work'[w] = Asleep
  BY <1>1 DEF Becomes, IInv, TypeOK
<1>3. WorkerInv(w)'
  BY <1>2 DEF WorkerInv, Holds, Owns, Found, Applying, BeforeCommit, BeforeCleanup, Asleep
<1>4. QED
  BY <1>1, <1>3, Others

(* A branch at the exact commit is at one the service made.                *)
LEMMA ExactMade ==
  ASSUME IInv, NEW p \in Proposals, status[p] \in Begun, IsExact(p, ref[p])
  PROVE  made[p] = 1
<1>1. plan[p].base \in 0..MaxCommits
  BY DEF IInv, Planned, Plan
<1>2. [kind |-> "service", base |-> plan[p].base] \in Commit
  BY <1>1 DEF Commit
<1>3. [kind |-> "service", base |-> plan[p].base] # NONE
  BY <1>2, NoneAssumption DEF Commit
<1>4. QED
  BY <1>3 DEF IsExact, IInv, RefMade

LEMMA RowsKept ==
  ASSUME IInv, UNCHANGED <<rows, ref, made>>,
         \A p \in Proposals : Private(p) \cap trees' \subseteq trees
  PROVE  RowInv'
BY DEF IInv, RowInv, rows, OnlyApprovedRuns, CommittedOnce, AppliedIsExact, IsExact,
       AppliedIsClean, OneActivePerSignature, Planned, RefMade

(* A step of the owner that leaves the workers alone.                      *)
LEMMA OwnerKeeps ==
  ASSUME IInv, UNCHANGED <<lock, work, made, plan>>,
         \A p \in Proposals : status[p] \in {"applying", "applied"} => status'[p] = status[p],
         \A p \in Proposals : Private(p) \cap trees' \subseteq trees
  PROVE  \A w \in Workers : WorkerInv(w)'
<1> SUFFICES ASSUME NEW w \in Workers PROVE WorkerInv(w)'
  OBVIOUS
<1>1. WorkerInv(w)
  BY DEF IInv
<1>2. Holds(w)'
  BY <1>1 DEF WorkerInv, Holds
<1>3. work[w].step # "idle" => work[w].of \in Proposals
  BY <1>1 DEF WorkerInv, Holds
<1>4. Owns(w)'
  BY <1>1, <1>3 DEF WorkerInv, Owns, Applying, BeforeCommit, BeforeCleanup
<1>5. Found(w)'
  BY <1>1, <1>3 DEF WorkerInv, Found, IsExact, BeforeCleanup, Private
<1>6. QED
  BY <1>2, <1>4, <1>5 DEF WorkerInv

(* The conclusion of every case below.                                     *)
LEMMA Assemble ==
  ASSUME TypeOK', RowInv', \A w \in Workers : WorkerInv(w)'
  PROVE  IInv'
BY DEF IInv, RowInv

-----------------------------------------------------------------------------
(* The owner's steps preserve the invariant.                               *)
LEMMA OwnerStep ==
  ASSUME IInv, OwnerActs
  PROVE  IInv'
<1> USE BoundsAssumption, NoneAssumption DEF rows, repository
<1>0. TypeOK
  BY DEF IInv
<1>1. CASE OwnerCommits \/ OwnerSwitches \/ OwnerEdits
  <2>1. TypeOK'
    <3>1. CASE OwnerCommits
      BY <1>0, <3>1 DEF OwnerCommits, Event, TypeOK
    <3>2. CASE OwnerSwitches
      BY <1>0, <3>2 DEF OwnerSwitches, Event, TypeOK
    <3>3. CASE OwnerEdits
      BY <1>0, <3>3 DEF OwnerEdits, Event, TypeOK
    <3>4. QED
      BY <1>1, <3>1, <3>2, <3>3
  <2>2. UNCHANGED <<rows, lock, ref, trees, work, made>>
    BY <1>1 DEF OwnerCommits, OwnerSwitches, OwnerEdits
  <2>3. RowInv'
    BY <2>2, RowsKept
  <2>4. QED
    BY <2>1, <2>2, <2>3, OwnerKeeps, Assemble
<1>2. ASSUME NEW p \in Proposals, Create(p) \/ Approve(p) \/ Reject(p)
      PROVE  IInv'
  <2>1. PICK new \in {"draft", "approved", "rejected"} :
          /\ status' = [status EXCEPT ![p] = new]
          /\ status[p] \in {"absent", "draft", "approved"}
          /\ new = "draft" => \A q \in Proposals : status[q] \in Active =>
               subject[q].signature # subject[p].signature
          /\ new = "approved" => status[p] = "draft"
    BY <1>2 DEF Create, Approve, Reject
  <2>2. UNCHANGED <<subject, plan, applied, lock, repository, ref, trees, work, made,
                    events, faults>>
    BY <1>2 DEF Create, Approve, Reject
  <2>3. TypeOK'
    BY <1>0, <2>1, <2>2 DEF TypeOK, Statuses
  <2>4. \A q \in Proposals : q # p => status'[q] = status[q]
    BY <1>0, <2>1 DEF TypeOK
  <2>5. status'[p] = new
    BY <1>0, <2>1 DEF TypeOK
  <2>6. OnlyApprovedRuns' /\ Planned' /\ RefMade' /\ CommittedOnce'
    BY <2>1, <2>2, <2>4, <2>5 DEF IInv, OnlyApprovedRuns, Planned, RefMade, CommittedOnce,
       Begun
  <2>7. AppliedIsExact' /\ AppliedIsClean'
    BY <2>2, <2>4, <2>5 DEF IInv, AppliedIsExact, AppliedIsClean, IsExact
  <2>8. OneActivePerSignature'
    BY <2>1, <2>2, <2>4, <2>5 DEF IInv, OneActivePerSignature, Active
  <2>9. RowInv'
    BY <2>6, <2>7, <2>8 DEF RowInv
  <2>10. \A w \in Workers : WorkerInv(w)'
    BY <2>1, <2>2, <2>4, OwnerKeeps
  <2>11. QED
    BY <2>3, <2>9, <2>10, Assemble
<1>3. ASSUME NEW p \in Proposals, OwnerMovesRef(p) PROVE IInv'
  <2>1. PICK c \in {NONE, Owner(0), [kind |-> "foreign", base |-> 0]} :
          ref' = [ref EXCEPT ![p] = c]
    BY <1>3 DEF OwnerMovesRef
  <2>2. UNCHANGED <<rows, lock, repository, trees, work, made>> /\ ref[p] # NONE
    BY <1>3 DEF OwnerMovesRef
  <2>3. 0 \in 0..MaxCommits
    OBVIOUS
  <2>4. c \in Commit \cup {NONE} /\ (c # NONE => c.kind # "service")
    BY <2>3 DEF Commit, Owner
  <2>5. TypeOK'
    BY <1>0, <1>3, <2>1, <2>2, <2>4 DEF OwnerMovesRef, Event, TypeOK
  <2>6. OnlyApprovedRuns' /\ CommittedOnce' /\ AppliedIsExact' /\ AppliedIsClean'
        /\ OneActivePerSignature' /\ Planned'
    BY <1>0, <2>1, <2>2 DEF IInv, OnlyApprovedRuns, CommittedOnce, AppliedIsExact, IsExact,
       AppliedIsClean, OneActivePerSignature, Planned, TypeOK
  <2>7. RefMade'
    BY <1>0, <2>1, <2>2, <2>4 DEF IInv, RefMade, TypeOK
  <2>8. \A w \in Workers : WorkerInv(w)'
    BY <2>2, OwnerKeeps
  <2>9. QED
    BY <2>5, <2>6, <2>7, <2>8, Assemble DEF RowInv
<1>4. ASSUME NEW p \in Proposals, OwnerReviews(p) PROVE IInv'
  <2>1. UNCHANGED <<rows, lock, repository, ref, work, made>>
    BY <1>4 DEF OwnerReviews
  <2>2. trees' \in {trees \cup {<<p, "owner">>}, trees \ {<<p, "owner">>}}
    BY <1>4 DEF OwnerReviews
  <2>3. TypeOK'
    BY <1>0, <1>4, <2>1, <2>2 DEF OwnerReviews, Event, TypeOK, Trees
  <2>4. \A q \in Proposals : Private(q) \cap trees' \subseteq trees
    BY <2>2 DEF Private
  <2>5. QED
    BY <2>1, <2>3, <2>4, RowsKept, OwnerKeeps, Assemble
<1>5. ASSUME NEW p \in Proposals, OwnerPrunes(p) PROVE IInv'
  <2>1. UNCHANGED <<rows, lock, repository, ref, work, made>> /\ trees' \subseteq trees
    BY <1>5 DEF OwnerPrunes
  <2>2. TypeOK'
    BY <1>0, <1>5, <2>1 DEF OwnerPrunes, Event, TypeOK
  <2>3. QED
    BY <2>1, <2>2, RowsKept, OwnerKeeps, Assemble
<1>6. QED
  BY <1>1, <1>2, <1>3, <1>4, <1>5 DEF OwnerActs

-----------------------------------------------------------------------------
(* The service's steps preserve the invariant.                             *)

(* A step to x that keeps the lock: what is left to show of the workers.   *)
LEMMA Arrive ==
  ASSUME IInv, NEW w \in Workers, work[w].step # "idle", lock' = lock, NEW x,
         Becomes(w, x), x.of = work[w].of,
         x.step \in Applying => status'[x.of] = "applying",
         x.step = "begin" => x.plan \in Plan,
         x.step \in BeforeCommit => made'[x.of] = 0,
         x.step \in {"rollback", "unapply"} => status'[x.of] = "applied",
         x.step \in {"preflight", "begin"} \cup BeforeCommit => x.result = "none",
         x.step \in {"sweep", "applied"} \/ (x.step = "cleanup" /\ x.result = "exact")
           => IsExact(x.of, x.commit)' /\ made'[x.of] = 1,
         x.step \in BeforeCleanup => <<x.of, "stale">> \notin trees',
         x.step = "applied" => Private(x.of) \cap trees' = {}
  PROVE  \A q \in Workers : WorkerInv(q)'
<1>1. work'[w] = x
  BY DEF Becomes, IInv, TypeOK
<1>2. lock = w /\ work[w].of \in Proposals
  BY DEF IInv, WorkerInv, Holds
<1>3. Holds(w)'
  BY <1>1, <1>2 DEF Holds
<1>4. Owns(w)'
  BY <1>1 DEF Owns
<1>5. Found(w)'
  BY <1>1 DEF Found, IsExact
<1>6. QED
  BY <1>3, <1>4, <1>5, Others DEF WorkerInv

(* A worktree of a call that has not come to its cleanup has its directory. *)
LEMMA NotStale ==
  ASSUME IInv, NEW w \in Workers, work[w].step \in BeforeCleanup
  PROVE  <<work[w].of, "stale">> \notin trees
BY DEF IInv, WorkerInv, Found

(* Steps that do not touch the rows, the branches or the worktrees.        *)
LEMMA QuietStep ==
  ASSUME IInv, NEW w \in Workers,
         Preflight(w) \/ Stage(w) \/ Verify(w) \/ Check(w) \/ Recover(w) \/ Rollback(w)
  PROVE  IInv'
<1> USE BoundsAssumption, NoneAssumption DEF rows, repository
<1>0. /\ TypeOK /\ WorkerInv(w) /\ work[w].step # "idle" /\ lock = w
      /\ work[w].of \in Proposals
  BY DEF IInv, WorkerInv, Holds, Preflight, Stage, Verify, Check, Recover, Rollback, At
<1>1. UNCHANGED <<rows, repository, ref, trees, made, events>>
  BY DEF Preflight, Stage, Verify, Check, Recover, Rollback
<1>2. RowInv'
  BY <1>1, RowsKept
<1>3. faults' \in 0..MaxFaults
  BY <1>0 DEF Preflight, Stage, Verify, Check, Recover, Rollback, Fault, TypeOK
<1>4. ASSUME Leave(w) PROVE IInv'
  <2>1. TypeOK'
    BY <1>0, <1>1, <1>3, <1>4, LeaveType DEF TypeOK
  <2>2. QED
    BY <1>0, <1>2, <1>4, <2>1, LeaveInv, Assemble
<1>5. ASSUME NEW x, Becomes(w, x), lock' = lock, \A q \in Workers : WorkerInv(q)'
      PROVE  IInv'
  <2>1. TypeOK'
    BY <1>0, <1>1, <1>3, <1>5, BecomesType DEF TypeOK
  <2>2. QED
    BY <1>2, <1>5, <2>1, Assemble
<1>6. CASE Preflight(w)
  <2>1. work[w].step = "preflight" /\ work[w].result = "none"
    BY <1>0, <1>6 DEF Preflight, At, WorkerInv, Found
  <2>2. ASSUME lock' = lock, NEW x \in Locals, Becomes(w, x), x.step = "begin",
               x.of = work[w].of, x.plan \in Plan, x.result = work[w].result
        PROVE  IInv'
    BY <1>0, <1>5, <2>1, <2>2, Arrive DEF Applying, BeforeCommit, BeforeCleanup
  <2>3. QED
    BY <1>0, <1>4, <1>6, <2>2, PreflightEffect
<1>7. CASE Stage(w)
  <2>1. work[w].step = "stage" /\ lock' = lock
    BY <1>7 DEF Stage, At
  <2>2. PICK x \in Locals : /\ Becomes(w, x)
                            /\ x.step \in {"verify", "cleanup"} /\ x.of = work[w].of
                            /\ x.result = work[w].result
    BY <1>0, <1>7, StageEffect
  <2>3. status[x.of] = "applying" /\ made[x.of] = 0 /\ x.result = "none"
    BY <1>0, <2>1, <2>2 DEF WorkerInv, Owns, Found, Applying, BeforeCommit, BeforeCleanup
  <2>4. \A q \in Workers : WorkerInv(q)'
    BY <1>0, <1>1, <2>1, <2>2, <2>3, Arrive, NotStale
       DEF Applying, BeforeCommit, BeforeCleanup
  <2>5. QED
    BY <1>5, <2>1, <2>2, <2>4
<1>8. CASE Verify(w)
  <2>1. work[w].step = "verify" /\ lock' = lock
    BY <1>8 DEF Verify, At
  <2>2. PICK step \in {"commit", "cleanup"} : Goto(w, step)
    BY <1>8 DEF Verify
  <2>3. step \in Steps
    BY DEF Steps
  <2>4. PICK x \in Locals : /\ Becomes(w, x)
                            /\ x.step = step /\ x.of = work[w].of
                            /\ x.result = work[w].result
    BY <1>0, <2>2, <2>3, GotoEffect
  <2>5. status[x.of] = "applying" /\ made[x.of] = 0 /\ x.result = "none"
    BY <1>0, <2>1, <2>4 DEF WorkerInv, Owns, Found, Applying, BeforeCommit, BeforeCleanup
  <2>6. \A q \in Workers : WorkerInv(q)'
    BY <1>0, <1>1, <2>1, <2>4, <2>5, Arrive, NotStale
       DEF Applying, BeforeCommit, BeforeCleanup
  <2>7. QED
    BY <1>5, <2>1, <2>4, <2>6
<1>9. CASE Check(w)
  <2>1. work[w].step = "check" /\ lock' = lock
    BY <1>9 DEF Check, At
  <2>2. PICK x \in Locals : /\ Becomes(w, x)
                            /\ x.step = "cleanup" /\ x.of = work[w].of
                            /\ x.result = "exact" =>
                                 x.commit = ref[work[w].of] /\ IsExact(work[w].of, x.commit)
    BY <1>0, <1>9, CheckEffect
  <2>3. status[work[w].of] = "applying"
    BY <1>0, <2>1 DEF WorkerInv, Owns, Applying
  <2>4. x.result = "exact" => IsExact(x.of, x.commit)' /\ made'[x.of] = 1
    BY <1>0, <1>1, <2>2, <2>3, ExactMade DEF Begun, IsExact
  <2>5. \A q \in Workers : WorkerInv(q)'
    BY <1>0, <1>1, <2>1, <2>2, <2>3, <2>4, Arrive, NotStale
       DEF Applying, BeforeCommit, BeforeCleanup
  <2>6. QED
    BY <1>5, <2>1, <2>2, <2>5
<1>10. CASE Recover(w)
  <2>1. work[w].step = "recover"
    BY <1>10 DEF Recover, At
  <2>2. ASSUME lock' = lock, NEW x \in Locals, Becomes(w, x), x.of = work[w].of,
               x.step \in {"failed", "sweep"},
               x.step = "sweep" =>
                 x.commit = ref[work[w].of] /\ IsExact(work[w].of, x.commit)
        PROVE  IInv'
    <3>1. status[work[w].of] = "applying"
      BY <1>0, <2>1 DEF WorkerInv, Owns, Applying
    <3>2. x.step = "sweep" => IsExact(x.of, x.commit)' /\ made'[x.of] = 1
      BY <1>0, <1>1, <2>2, <3>1, ExactMade DEF Begun, IsExact
    <3>3. \A q \in Workers : WorkerInv(q)'
      BY <1>0, <1>1, <2>2, <3>1, <3>2, Arrive DEF Applying, BeforeCommit, BeforeCleanup
    <3>4. QED
      BY <1>5, <2>2, <3>3
  <2>3. QED
    BY <1>0, <1>4, <1>10, <2>2, RecoverEffect
<1>11. CASE Rollback(w)
  <2>1. work[w].step = "rollback"
    BY <1>11 DEF Rollback, At
  <2>2. ASSUME Goto(w, "unapply"), lock' = lock PROVE IInv'
    <3>1. "unapply" \in Steps
      BY DEF Steps
    <3>2. PICK x \in Locals : Becomes(w, x) /\ x.step = "unapply" /\ x.of = work[w].of
      BY <1>0, <2>2, <3>1, GotoEffect
    <3>3. status[work[w].of] = "applied"
      BY <1>0, <2>1 DEF WorkerInv, Owns
    <3>4. \A q \in Workers : WorkerInv(q)'
      BY <1>0, <1>1, <2>2, <3>2, <3>3, Arrive DEF Applying, BeforeCommit, BeforeCleanup
    <3>5. QED
      BY <1>5, <2>2, <3>2, <3>4
  <2>3. QED
    BY <1>4, <1>11, <2>2 DEF Rollback
<1>12. QED
  BY <1>6, <1>7, <1>8, <1>9, <1>10, <1>11

(* A call starts.                                                          *)
LEMMA OpenStep ==
  ASSUME IInv, NEW w \in Workers, NEW p \in Proposals, Open(w, p)
  PROVE  IInv'
<1>1. TypeOK /\ lock = NONE /\ lock' = w
  BY DEF IInv, Open
<1>2. UNCHANGED <<rows, repository, ref, trees, made, events, faults>>
  BY DEF Open
<1>3. PICK x \in Locals : /\ Becomes(w, x) /\ x.of = p
                          /\ <<status[p], x.step>> \in FirstStep
                          /\ x.step = "preflight" => x.result = "none"
  BY OpenEffect
<1>4. TypeOK'
  BY <1>1, <1>2, <1>3, BecomesType DEF TypeOK, rows, repository
<1>5. RowInv'
  BY <1>2, RowsKept
<1>6. work'[w] = x
  BY <1>1, <1>3 DEF Becomes, TypeOK
<1>7. \/ x.step = "preflight"
      \/ x.step = "recover" /\ status[p] = "applying"
      \/ x.step = "rollback" /\ status[p] = "applied"
  BY <1>3 DEF FirstStep
<1>8. WorkerInv(w)'
  <2>1. Holds(w)'
    BY <1>1, <1>3, <1>6 DEF Holds
  <2>2. Owns(w)'
    BY <1>2, <1>3, <1>6, <1>7 DEF Owns, Applying, BeforeCommit, BeforeCleanup, rows
  <2>3. Found(w)'
    BY <1>3, <1>6, <1>7 DEF Found, BeforeCommit, BeforeCleanup
  <2>4. QED
    BY <2>1, <2>2, <2>3 DEF WorkerInv
<1>9. \A q \in Workers : WorkerInv(q)'
  BY <1>1, <1>3, <1>8, Others
<1>10. QED
  BY <1>4, <1>5, <1>9, Assemble

(* begin_apply: the approved proposal gets its plan.                       *)
LEMMA BeginStep ==
  ASSUME IInv, NEW w \in Workers, BeginApply(w)
  PROVE  IInv'
<1> DEFINE p == work[w].of
<1>0. /\ TypeOK /\ WorkerInv(w) /\ work[w].step = "begin" /\ lock = w
      /\ p \in Proposals /\ work[w].plan \in Plan
  BY DEF IInv, WorkerInv, Holds, Owns, BeginApply, At
<1>1. UNCHANGED <<subject, applied, repository, ref, trees, made, events, faults>>
  BY DEF BeginApply
<1>2. CASE Leave(w) /\ UNCHANGED <<status, plan>>
  <2>1. TypeOK'
    BY <1>0, <1>1, <1>2, LeaveType DEF TypeOK, repository
  <2>2. RowInv'
    BY <1>1, <1>2, RowsKept DEF rows
  <2>3. QED
    BY <1>0, <1>2, <2>1, <2>2, LeaveInv, Assemble
<1>3. CASE /\ status[p] = "approved"
           /\ status' = [status EXCEPT ![p] = "applying"]
           /\ plan' = [plan EXCEPT ![p] = work[w].plan]
           /\ Goto(w, "branch") /\ lock' = lock
  <2>1. "branch" \in Steps
    BY DEF Steps
  <2>2. PICK x \in Locals : /\ Becomes(w, x)
                            /\ x.step = "branch" /\ x.of = work[w].of
                            /\ x.result = work[w].result
    BY <1>0, <1>3, <2>1, GotoEffect
  <2>3. TypeOK'
    BY <1>0, <1>1, <1>3, <2>2, BecomesType DEF TypeOK, repository, Statuses
  <2>4. /\ status'[p] = "applying" /\ plan'[p] \in Plan
        /\ \A q \in Proposals : q # p => status'[q] = status[q] /\ plan'[q] = plan[q]
    BY <1>0, <1>3 DEF TypeOK
  <2>5. OnlyApprovedRuns' /\ CommittedOnce' /\ Planned' /\ RefMade'
    BY <1>1, <2>4 DEF IInv, OnlyApprovedRuns, CommittedOnce, Planned, RefMade
  <2>6. AppliedIsExact' /\ AppliedIsClean'
    BY <1>1, <2>4 DEF IInv, AppliedIsExact, AppliedIsClean, IsExact
  <2>7. OneActivePerSignature'
    BY <1>1, <1>3, <2>4 DEF IInv, OneActivePerSignature
  <2>8. RowInv'
    BY <2>5, <2>6, <2>7 DEF RowInv
  <2>9. made[p] = 0 /\ work[w].result = "none" /\ <<p, "stale">> \notin trees
    BY <1>0, <1>3 DEF IInv, OnlyApprovedRuns, WorkerInv, Found, Private
  <2>10. \A q \in Workers : WorkerInv(q)'
    BY <1>0, <1>1, <1>3, <2>2, <2>4, <2>9, Arrive DEF Applying, BeforeCommit, BeforeCleanup
  <2>11. QED
    BY <2>3, <2>8, <2>10, Assemble
<1>4. QED
  BY <1>2, <1>3 DEF BeginApply

(* Branch, worktree and commit of a proposal that is being applied: what   *)
(* the rows say of the other proposals does not depend on them.            *)
LEMMA ApplyingKeeps ==
  ASSUME IInv, NEW p \in Proposals, status[p] = "applying", UNCHANGED rows,
         \A q \in Proposals : q # p => ref'[q] = ref[q] /\ made'[q] = made[q],
         \A q \in Proposals : q # p =>
           Private(q) \cap trees' \subseteq trees,
         made'[p] <= 1,
         ref'[p] # NONE /\ ref'[p].kind = "service" => made'[p] = 1
  PROVE  RowInv'
<1> USE DEF rows
<1>1. OnlyApprovedRuns' /\ CommittedOnce' /\ Planned' /\ RefMade'
  BY DEF IInv, OnlyApprovedRuns, CommittedOnce, Planned, RefMade
<1>2. AppliedIsExact' /\ AppliedIsClean'
  BY DEF IInv, AppliedIsExact, AppliedIsClean, IsExact
<1>3. OneActivePerSignature'
  BY DEF IInv, OneActivePerSignature
<1>4. QED
  BY <1>1, <1>2, <1>3 DEF RowInv

(* What a cleanup leaves of the worktree is nothing to the rows.           *)
LEMMA HalfwayKeeps ==
  ASSUME IInv, NEW p \in Proposals, status[p] = "applying", UNCHANGED <<rows, ref, made>>,
         trees' \in Halfway(p) \cup {trees \ {<<p, "service">>}}
  PROVE  RowInv'
<1>1. \A q \in Proposals : q # p => Private(q) \cap trees' \subseteq trees
  BY DEF Halfway, Private
<1>2. made'[p] <= 1 /\ (ref'[p] # NONE /\ ref'[p].kind = "service" => made'[p] = 1)
  BY DEF IInv, CommittedOnce, RefMade
<1>3. QED
  BY <1>1, <1>2, ApplyingKeeps

(* The branch and its worktree are created.                                *)
LEMMA BranchStep ==
  ASSUME IInv, NEW w \in Workers, CreateBranch(w)
  PROVE  IInv'
<1> USE BoundsAssumption, NoneAssumption
<1> DEFINE p == work[w].of
           base == Owner(plan[p].base)
<1>0. /\ TypeOK /\ WorkerInv(w) /\ work[w].step = "branch" /\ lock = w
      /\ p \in Proposals /\ status[p] = "applying" /\ made[p] = 0
  BY DEF IInv, WorkerInv, Holds, Owns, CreateBranch, At, Applying, BeforeCommit, BeforeCleanup
<1>1. UNCHANGED <<rows, lock, repository, made, events>>
  BY DEF CreateBranch
<1>2. base \in Commit /\ base.kind = "owner"
  <2>1. plan[p].base \in 0..MaxCommits
    BY <1>0 DEF IInv, Planned, Begun, Plan
  <2>2. QED
    BY <2>1 DEF Owner, Commit
<1>3. ref' \in {ref, [ref EXCEPT ![p] = base]}
  BY DEF CreateBranch
<1>4. trees' \in {trees, trees \cup {<<p, "service">>}}
  BY DEF CreateBranch
<1>5. PICK step \in {"stage", "cleanup", "failed"} : Goto(w, step)
  BY DEF CreateBranch
<1>6. step \in Steps
  BY DEF Steps
<1>7. PICK x \in Locals : /\ Becomes(w, x)
                          /\ x.step = step /\ x.of = work[w].of
                          /\ x.result = work[w].result
  BY <1>0, <1>5, <1>6, GotoEffect
<1>8. ref' \in [Proposals -> Commit \cup {NONE}]
  BY <1>0, <1>2, <1>3 DEF TypeOK
<1>9. TypeOK'
  <2>1. faults' \in 0..MaxFaults
    BY <1>0 DEF CreateBranch, Fault, TypeOK
  <2>2. trees' \subseteq Trees
    BY <1>0, <1>4 DEF TypeOK, Trees
  <2>3. work' \in [Workers -> Locals]
    BY <1>0, <1>7, BecomesType
  <2>4. QED
    BY <1>0, <1>1, <1>8, <2>1, <2>2, <2>3 DEF TypeOK, rows, repository
<1>10. /\ \A q \in Proposals : q # p => ref'[q] = ref[q]
       /\ ref'[p] = ref[p] \/ ref'[p] = base
  BY <1>0, <1>3 DEF TypeOK
<1>11. RowInv'
  <2>1. ref'[p] # NONE /\ ref'[p].kind = "service" => made'[p] = 1
    BY <1>0, <1>1, <1>2, <1>10 DEF IInv, RefMade
  <2>2. made'[p] <= 1 /\ \A q \in Proposals : made'[q] = made[q]
    BY <1>0, <1>1
  <2>3. \A q \in Proposals : q # p => Private(q) \cap trees' \subseteq trees
    BY <1>4 DEF Private
  <2>4. QED
    BY <1>0, <1>1, <1>10, <2>1, <2>2, <2>3, ApplyingKeeps
<1>12. work[w].result = "none"
  BY <1>0 DEF WorkerInv, Found, BeforeCommit, BeforeCleanup
<1>13. \A q \in Workers : WorkerInv(q)'
  <2>1. <<p, "stale">> \notin trees'
    BY <1>0, <1>4, NotStale DEF BeforeCleanup
  <2>2. QED
    BY <1>0, <1>1, <1>7, <1>12, <2>1, Arrive DEF Applying, BeforeCommit, BeforeCleanup, rows
<1>14. QED
  BY <1>9, <1>11, <1>13, Assemble

(* The patch is committed, or not.                                         *)
LEMMA CommitStep ==
  ASSUME IInv, NEW w \in Workers, CommitPatch(w)
  PROVE  IInv'
<1> USE BoundsAssumption, NoneAssumption
<1> DEFINE p == work[w].of
<1>0. /\ TypeOK /\ WorkerInv(w) /\ work[w].step = "commit" /\ lock = w
      /\ p \in Proposals /\ status[p] = "applying" /\ made[p] = 0
      /\ work[w].result = "none"
  BY DEF IInv, WorkerInv, Holds, Owns, Found, CommitPatch, At, Applying, BeforeCommit,
     BeforeCleanup
<1>1. UNCHANGED <<rows, lock, repository, trees, events>>
  BY DEF CommitPatch
<1>2. PICK x \in Locals : /\ Becomes(w, x)
                          /\ x.of = work[w].of
                          /\ \/ x.step = "check"
                             \/ /\ x.step = "cleanup" /\ x.result = work[w].result
                                /\ UNCHANGED <<ref, made>>
  BY <1>0, CommitEffect
<1>3. plan[p].base \in 0..MaxCommits
  BY <1>0 DEF IInv, Planned, Begun, Plan
<1>4. \/ UNCHANGED <<ref, made>>
      \/ /\ \E kind \in {"service", "foreign"} :
              ref' = [ref EXCEPT ![p] = [kind |-> kind, base |-> plan[p].base]]
         /\ made' = [made EXCEPT ![p] = @ + 1]
  BY DEF CommitPatch
<1>5. /\ ref' \in [Proposals -> Commit \cup {NONE}]
      /\ made' \in [Proposals -> Nat]
      /\ \A q \in Proposals : q # p => ref'[q] = ref[q] /\ made'[q] = made[q]
      /\ (ref'[p] = ref[p] /\ made'[p] = 0) \/ made'[p] = 1
  <2>1. CASE UNCHANGED <<ref, made>>
    BY <1>0, <2>1 DEF TypeOK
  <2>2. ASSUME NEW kind \in {"service", "foreign"},
               ref' = [ref EXCEPT ![p] = [kind |-> kind, base |-> plan[p].base]],
               made' = [made EXCEPT ![p] = @ + 1]
        PROVE  <1>5!1 /\ <1>5!2 /\ <1>5!3 /\ <1>5!4
    <3>1. [kind |-> kind, base |-> plan[p].base] \in Commit
      BY <1>3 DEF Commit
    <3>2. QED
      BY <1>0, <2>2, <3>1 DEF TypeOK
  <2>3. QED
    BY <1>4, <2>1, <2>2
<1>6. TypeOK'
  <2>1. faults' \in 0..MaxFaults
    BY <1>0 DEF CommitPatch, Fault, TypeOK
  <2>2. work' \in [Workers -> Locals]
    BY <1>0, <1>2, BecomesType
  <2>3. QED
    BY <1>0, <1>1, <1>5, <2>1, <2>2 DEF TypeOK, rows, repository
<1>7. RowInv'
  <2>1. ref'[p] # NONE /\ ref'[p].kind = "service" => made'[p] = 1
    BY <1>0, <1>5 DEF IInv, RefMade
  <2>2. made'[p] <= 1
    BY <1>5
  <2>3. QED
    BY <1>0, <1>1, <1>5, <2>1, <2>2, ApplyingKeeps
<1>8. \A q \in Workers : WorkerInv(q)'
  <2>1. status'[x.of] = "applying" /\ lock' = lock /\ <<x.of, "stale">> \notin trees'
    BY <1>0, <1>1, <1>2, NotStale DEF rows, BeforeCleanup
  <2>2. CASE x.step = "check"
    BY <1>0, <1>2, <2>1, <2>2, Arrive DEF BeforeCommit, BeforeCleanup
  <2>3. CASE x.step = "cleanup" /\ x.result = work[w].result
    BY <1>0, <1>2, <2>1, <2>3, Arrive DEF BeforeCommit, BeforeCleanup
  <2>4. QED
    BY <1>2, <2>2, <2>3
<1>9. QED
  BY <1>6, <1>7, <1>8, Assemble

(* The private worktree is removed, in part or not: cleanup and sweep.     *)
LEMMA CleanupStep ==
  ASSUME IInv, NEW w \in Workers, Cleanup(w) \/ Sweep(w)
  PROVE  IInv'
<1> USE BoundsAssumption, NoneAssumption
<1> DEFINE p == work[w].of
<1>0. /\ TypeOK /\ WorkerInv(w) /\ work[w].step \in {"cleanup", "sweep"} /\ lock = w
      /\ p \in Proposals /\ status[p] = "applying"
  BY DEF IInv, WorkerInv, Holds, Owns, Cleanup, Sweep, At, Applying
<1>1. UNCHANGED <<rows, repository, ref, made, events>>
  BY DEF Cleanup, Sweep
<1>2. trees' \in Halfway(p) \cup {trees \ {<<p, "service">>}}
  BY DEF Cleanup, Sweep, Halfway
<1>3. RowInv'
  BY <1>0, <1>1, <1>2, HalfwayKeeps
<1>4. trees' \subseteq Trees /\ faults' \in 0..MaxFaults
  <2>1. trees' \subseteq Trees
    BY <1>0, <1>2 DEF TypeOK, Halfway, Trees
  <2>2. faults' \in 0..MaxFaults
    BY <1>0 DEF Cleanup, Sweep, Fault, TypeOK
  <2>3. QED
    BY <2>1, <2>2
<1>5. ASSUME Leave(w) PROVE IInv'
  <2>1. TypeOK'
    BY <1>0, <1>1, <1>4, <1>5, LeaveType DEF TypeOK, rows, repository
  <2>2. QED
    BY <1>0, <1>3, <1>5, <2>1, LeaveInv, Assemble
<1>6. ASSUME NEW step \in {"applied", "failed"}, Goto(w, step), lock' = lock,
             step = "applied" =>
               /\ Private(p) \cap trees' = {}
               /\ work[w].step = "sweep" \/ work[w].result = "exact"
      PROVE  IInv'
  <2>1. step \in Steps
    BY DEF Steps
  <2>2. PICK x \in Locals : /\ Becomes(w, x)
                            /\ x.step = step /\ x.of = work[w].of
                            /\ x.result = work[w].result /\ x.commit = work[w].commit
    BY <1>0, <1>6, <2>1, GotoEffect
  <2>3. TypeOK'
    BY <1>0, <1>1, <1>4, <1>6, <2>2, BecomesType DEF TypeOK, rows, repository
  <2>4. step = "applied" => IsExact(x.of, x.commit)' /\ made'[x.of] = 1
    BY <1>0, <1>1, <1>6, <2>2 DEF WorkerInv, Found, IsExact, rows
  <2>5. status'[x.of] = "applying"
    BY <1>0, <1>1, <2>2 DEF rows
  <2>6. \A q \in Workers : WorkerInv(q)'
    BY <1>0, <1>6, <2>2, <2>4, <2>5, Arrive DEF BeforeCommit, BeforeCleanup
  <2>7. QED
    BY <1>3, <2>3, <2>6, Assemble
<1>7. CASE Cleanup(w)
  <2>1. <<p, "stale">> \notin trees
    BY <1>0, <1>7 DEF Cleanup, At, WorkerInv, Found, BeforeCleanup
  <2>2. QED
    BY <1>5, <1>6, <1>7, <2>1 DEF Cleanup, Private
<1>8. CASE Sweep(w)
  <2>1. work[w].step = "sweep"
    BY <1>8 DEF Sweep, At
  <2>2. QED
    BY <1>5, <1>6, <1>8, <2>1 DEF Sweep, Private
<1>9. QED
  BY <1>7, <1>8

(* The process dies, in the middle of a cleanup or elsewhere.              *)
LEMMA CrashStep ==
  ASSUME IInv, NEW w \in Workers, Crash(w)
  PROVE  IInv'
<1> USE BoundsAssumption, NoneAssumption
<1> DEFINE p == work[w].of
<1>0. /\ TypeOK /\ WorkerInv(w) /\ work[w].step # "idle" /\ lock = w
      /\ p \in Proposals
  BY DEF IInv, WorkerInv, Holds, Crash, At
<1>1. Leave(w) /\ UNCHANGED <<rows, repository, ref, made, events>>
  BY DEF Crash
<1>2. RowInv'
  <2>1. CASE work[w].step \in {"cleanup", "sweep"}
    <3>1. status[p] = "applying" /\ trees' \in Halfway(p)
      BY <1>0, <2>1 DEF WorkerInv, Owns, Applying, Crash
    <3>2. QED
      BY <1>0, <1>1, <3>1, HalfwayKeeps
  <2>2. CASE work[w].step \notin {"cleanup", "sweep"}
    BY <1>1, <2>2, RowsKept DEF Crash
  <2>3. QED
    BY <2>1, <2>2
<1>3. trees' \subseteq Trees /\ faults' \in 0..MaxFaults
  <2>1. trees' \subseteq Trees
    BY <1>0 DEF Crash, TypeOK, Halfway, Trees
  <2>2. faults' \in 0..MaxFaults
    BY <1>0 DEF Crash, Fault, TypeOK
  <2>3. QED
    BY <2>1, <2>2
<1>4. TypeOK'
  BY <1>0, <1>1, <1>3, LeaveType DEF TypeOK, rows, repository
<1>5. QED
  BY <1>0, <1>1, <1>2, <1>4, LeaveInv, Assemble

(* The outcome is recorded, unless the write fails.                        *)
LEMMA MarkStep ==
  ASSUME IInv, NEW w \in Workers, MarkApplied(w) \/ MarkFailed(w) \/ MarkRolledBack(w)
  PROVE  IInv'
<1> USE BoundsAssumption, NoneAssumption
<1> DEFINE p == work[w].of
<1>0. /\ TypeOK /\ WorkerInv(w) /\ work[w].step # "idle" /\ lock = w /\ p \in Proposals
  BY DEF IInv, WorkerInv, Holds, MarkApplied, MarkFailed, MarkRolledBack, Mark, At
<1>1. Leave(w) /\ UNCHANGED <<subject, plan, repository, ref, trees, made, events>>
  BY DEF MarkApplied, MarkFailed, MarkRolledBack, Mark
<1>2. \/ UNCHANGED <<status, applied>>
      \/ /\ work[w].step = "applied" /\ status[p] = "applying"
         /\ status' = [status EXCEPT ![p] = "applied"]
         /\ applied' = [applied EXCEPT ![p] = work[w].commit]
      \/ /\ status[p] = "applying" /\ status' = [status EXCEPT ![p] = "failed"]
         /\ applied' = applied
      \/ /\ status[p] = "applied" /\ status' = [status EXCEPT ![p] = "rolled_back"]
         /\ applied' = applied
  BY DEF MarkApplied, MarkFailed, MarkRolledBack, Mark, At
<1>3. TypeOK'
  <2>1. faults' \in 0..MaxFaults
    BY <1>0 DEF MarkApplied, MarkFailed, MarkRolledBack, Mark, Fault, TypeOK
  <2>2. work' \in [Workers -> Locals] /\ lock' \in Workers \cup {NONE}
    BY <1>0, <1>1, LeaveType
  <2>3. work[w].commit \in Commit \cup {NONE}
    BY <1>0 DEF TypeOK, Locals
  <2>4. status' \in [Proposals -> Statuses]
    BY <1>0, <1>2 DEF TypeOK, Statuses
  <2>5. applied' \in [Proposals -> Commit \cup {NONE}]
    BY <1>0, <1>2, <2>3 DEF TypeOK
  <2>6. QED
    BY <1>0, <1>1, <2>1, <2>2, <2>4, <2>5 DEF TypeOK, repository
<1>4. \A q \in Workers : WorkerInv(q)'
  BY <1>0, <1>1, LeaveInv
<1>5. CASE UNCHANGED <<status, applied>>
  <2>1. RowInv'
    BY <1>1, <1>5, RowsKept DEF rows
  <2>2. QED
    BY <1>3, <1>4, <2>1, Assemble
<1>6. CASE ~UNCHANGED <<status, applied>>
  <2>1. /\ status[p] \in {"applying", "applied"}
        /\ status'[p] \in {"applied", "failed", "rolled_back"}
        /\ \A q \in Proposals : q # p => status'[q] = status[q] /\ applied'[q] = applied[q]
    BY <1>0, <1>2, <1>6 DEF TypeOK
  <2>2. status'[p] \in {"applied", "rolled_back"} =>
          /\ IsExact(p, applied'[p]) /\ made[p] = 1
          /\ Private(p) \cap trees = {}
    <3>1. CASE work[w].step = "applied" /\ status' = [status EXCEPT ![p] = "applied"]
               /\ applied' = [applied EXCEPT ![p] = work[w].commit]
      BY <1>0, <3>1 DEF WorkerInv, Found, TypeOK
    <3>2. CASE status' = [status EXCEPT ![p] = "failed"]
      BY <1>0, <3>2 DEF TypeOK
    <3>3. CASE status[p] = "applied" /\ applied' = applied
      BY <1>0, <3>3 DEF IInv, AppliedIsExact, AppliedIsClean
    <3>4. QED
      BY <1>2, <1>6, <3>1, <3>2, <3>3
  <2>3. OnlyApprovedRuns' /\ CommittedOnce' /\ Planned' /\ RefMade'
    BY <1>1, <2>1 DEF IInv, OnlyApprovedRuns, CommittedOnce, Planned, RefMade, Begun
  <2>4. AppliedIsExact' /\ AppliedIsClean'
    BY <1>1, <2>1, <2>2 DEF IInv, AppliedIsExact, AppliedIsClean, IsExact
  <2>5. OneActivePerSignature'
    BY <1>1, <2>1 DEF IInv, OneActivePerSignature
  <2>6. QED
    BY <1>3, <1>4, <2>3, <2>4, <2>5, Assemble DEF RowInv
<1>7. QED
  BY <1>5, <1>6

-----------------------------------------------------------------------------
(* The theorems.                                                           *)

(* Every step, and every stutter, preserves the inductive invariant.       *)
LEMMA NextInv == IInv /\ [Next]_vars => IInv'
<1> SUFFICES ASSUME IInv, [Next]_vars PROVE IInv'
  OBVIOUS
<1>1. CASE OwnerActs
  BY <1>1, OwnerStep
<1>2. ASSUME NEW w \in Workers, NEW p \in Proposals, Open(w, p) PROVE IInv'
  BY <1>2, OpenStep
<1>3. ASSUME NEW w \in Workers, Proceed(w) PROVE IInv'
  BY <1>3, QuietStep, BeginStep, BranchStep, CommitStep, CleanupStep, MarkStep DEF Proceed
<1>4. ASSUME NEW w \in Workers, Crash(w) PROVE IInv'
  BY <1>4, CrashStep
<1>5. CASE UNCHANGED vars
  <2>1. UNCHANGED <<rows, lock, repository, ref, trees, work, made, events, faults>>
    BY <1>5 DEF vars
  <2>2. TypeOK'
    BY <2>1 DEF IInv, TypeOK, rows, repository
  <2>3. \A w \in Workers : WorkerInv(w)'
    BY <2>1, OwnerKeeps DEF rows
  <2>4. QED
    BY <2>1, <2>2, <2>3, RowsKept, Assemble
<1>6. QED
  BY <1>1, <1>2, <1>3, <1>4, <1>5 DEF Next

(* The inductive invariant holds in every behaviour.                       *)
THEOREM Invariance == Spec => []IInv
BY InitInv, NextInv, PTL DEF Spec

(* Rows, branches, worktrees and locals keep their types.                  *)
THEOREM TypeCorrectness == Spec => []TypeOK
<1>1. IInv => TypeOK
  BY DEF IInv
<1>2. QED
  BY Invariance, <1>1, PTL

(* A proposal that was not approved, or was rejected in time, has no plan, *)
(* no branch and no commit: apply touches Git only after begin_apply.      *)
THEOREM OnlyApprovedTouchGit == Spec => []OnlyApprovedRuns
<1>1. IInv => OnlyApprovedRuns
  BY DEF IInv
<1>2. QED
  BY Invariance, <1>1, PTL

(* Whatever is interrupted and repeated, a patch is committed once.        *)
THEOREM PatchCommittedOnce == Spec => []CommittedOnce
<1>1. IInv => CommittedOnce
  BY DEF IInv
<1>2. QED
  BY Invariance, <1>1, PTL

(* The recorded commit is the patch on the planned commit, also after a    *)
(* recovery in a repository its owner has changed.                         *)
THEOREM AppliedCommitsAreExact == Spec => []AppliedIsExact
<1>1. IInv => AppliedIsExact
  BY DEF IInv
<1>2. QED
  BY Invariance, <1>1, PTL

(* An applied proposal has no private worktree, whatever failed before.    *)
THEOREM AppliedLeavesNoWorktree == Spec => []AppliedIsClean
<1>1. IInv => AppliedIsClean
  BY DEF IInv
<1>2. QED
  BY Invariance, <1>1, PTL

(* The three together: an applied proposal is its patch, committed once on *)
(* the planned commit, with nothing left behind.                           *)
THEOREM AppliedExactlyOnce == Spec => []AppliedOnce
<1>1. IInv => AppliedOnce
  BY DEF IInv, AppliedOnce
<1>2. QED
  BY Invariance, <1>1, PTL

(* No two active proposals ever share a signature.                         *)
THEOREM SignaturesStayUnique == Spec => []OneActivePerSignature
<1>1. IInv => OneActivePerSignature
  BY DEF IInv
<1>2. QED
  BY Invariance, <1>1, PTL
=============================================================================
