-------------------------- MODULE KnowledgeProofs --------------------------
(***************************************************************************)
(* Proofs about the memories, the brief, the retry queue and the facts of  *)
(* projects of Knowledge, for every set of projects, captures, compactors,  *)
(* rows, items, scanners, directories, promotions and changes.              *)
(***************************************************************************)
EXTENDS Knowledge, Integers, Sequences, FiniteSets, Functions, FiniteSetTheorems,
        SequenceTheorems, TLAPS

-----------------------------------------------------------------------------
(* Sums.                                                                   *)

(* The elements are added in the order in which CHOOSE gives them.         *)
Adding(p, a, x) == x + a
AnyOf(T) == CHOOSE x \in T : TRUE

(* The parts of a sum so far are not more than q, the larger one, has.     *)
NotMore(q, T, a) ==
  /\ a \in Int
  /\ SumFunction([x \in q.of \cap T |-> q.values[x]]) <= a

Sum == INSTANCE FoldTheorems WITH Op <- Adding, Pick <- AnyOf, Inv <- NotMore

(* CHOOSE takes an element of a set.                                       *)
LEMMA AnyPicks ==
  ASSUME NEW S
  PROVE  Sum!Picks(S)
BY DEF Sum!Picks, AnyOf

(* A finite set is one there too.                                          *)
LEMMA SumFinite ==
  ASSUME NEW S, IsFiniteSet(S)
  PROVE  Sum!IsFiniteSet(S)
BY DEF IsFiniteSet, Sum!IsFiniteSet

(* The sum of a function is a fold of its values.                          *)
LEMMA SumIsFold ==
  ASSUME NEW S, NEW f \in [S -> Int]
  PROVE  SumFunction(f) = Sum!FoldOf(0, 0, f, S)
<1>1. DOMAIN f = S
  OBVIOUS
<1>2. SumFunction(f) = SumFunctionOnSet(f, S)
  BY <1>1 DEF SumFunction
<1>3. SumFunctionOnSet(f, S) = Sum!FoldOf(0, 0, f, S)
  BY DEF SumFunctionOnSet, FoldFunctionOnSet, MapThenFoldSet, Sum!FoldOf, Sum!MapThenFoldSet,
         Adding, AnyOf
<1>4. QED
  BY <1>2, <1>3

(* A sum is a number, and that of nothing is nothing.                      *)
LEMMA SumType ==
  ASSUME NEW S, IsFiniteSet(S), NEW f \in [S -> Int]
  PROVE  SumFunction(f) \in Int /\ (S = {} => SumFunction(f) = 0)
<1>1. Sum!FoldOf(0, 0, f, {}) = 0
  BY Sum!FoldNothing
<1>2. Sum!Commutes(0, 0, f, S, Int)
  BY DEF Sum!Commutes, Adding
<1>3. Sum!Picks(S) /\ Sum!IsFiniteSet(S)
  BY AnyPicks, SumFinite
<1>4. Sum!FoldOf(0, 0, f, S) \in Int
  BY <1>2, <1>3, Sum!FoldTake
<1>5. SumFunction(f) = Sum!FoldOf(0, 0, f, S)
  BY SumIsFold
<1>6. QED
  BY <1>1, <1>4, <1>5

(* A sum is any one of its parts and the sum of the others.                *)
LEMMA SumTake ==
  ASSUME NEW S, IsFiniteSet(S), NEW f \in [S -> Int], NEW x \in S
  PROVE  SumFunction(f) = f[x] + SumFunction([y \in S \ {x} |-> f[y]])
<1> DEFINE k == [y \in S \ {x} |-> f[y]]
           T == S \ {x}
<1>1. T \in SUBSET S /\ IsFiniteSet(T) /\ k \in [T -> Int] /\ \A y \in T : f[y] = k[y]
  BY FS_Subset
<1> HIDE DEF k
<1>2. Sum!Commutes(0, 0, f, S, Int)
  BY DEF Sum!Commutes, Adding
<1>3. /\ Sum!Picks(S) /\ Sum!Picks(T)
      /\ Sum!IsFiniteSet(S) /\ Sum!IsFiniteSet(T)
  BY <1>1, AnyPicks, SumFinite
<1>4. \A y \in S : Sum!FoldOf(0, 0, f, S) = Adding(0, Sum!FoldOf(0, 0, f, S \ {y}), f[y])
  BY <1>2, <1>3, Sum!FoldTake
<1> HIDE DEF T
<1>5. Sum!FoldOf(0, 0, f, T) = Sum!FoldOf(0, 0, k, T)
  BY <1>1, <1>3, Sum!FoldSame
<1>6. SumFunction(k) = Sum!FoldOf(0, 0, k, T) /\ SumFunction(f) = Sum!FoldOf(0, 0, f, S)
  BY <1>1, SumIsFold
<1>7. QED
  BY <1>4, <1>5, <1>6 DEF k, T, Adding

(* More parts, or larger ones, do not sum up to less.                      *)
LEMMA SumMonotone ==
  ASSUME NEW U, IsFiniteSet(U), NEW S \in SUBSET U,
         NEW f \in [S -> Nat], NEW k \in [U -> Nat], \A x \in S : f[x] <= k[x]
  PROVE  SumFunction(f) <= SumFunction(k)
<1> DEFINE q == [of |-> S, values |-> f]
           Part(T) == SumFunction([x \in S \cap T |-> f[x]])
<1>1. Sum!Picks(U) /\ Sum!IsFiniteSet(U)
  BY AnyPicks, SumFinite
<1>2. NotMore(q, {}, 0)
  <2>1. [x \in S \cap {} |-> f[x]] \in [{} -> Int] /\ IsFiniteSet({})
    BY FS_EmptySet
  <2>2. Part({}) = 0
    BY <2>1, SumType
  <2>3. QED
    BY <2>2 DEF NotMore
<1>3. ASSUME NEW T \in SUBSET U, NEW a, T # {}, NotMore(q, T \ {AnyOf(T)}, a)
      PROVE  NotMore(q, T, Adding(0, a, k[AnyOf(T)]))
  <2> DEFINE x == AnyOf(T)
             P == T \ {x}
  <2>1. x \in T /\ x \in U
    BY <1>3 DEF AnyOf
  <2> HIDE DEF x
  <2>2. a \in Int /\ Part(P) <= a
    BY <1>3 DEF NotMore, x
  <2>3. k[x] \in Nat
    BY <2>1
  <2>4. Part(T) \in Int /\ Part(P) \in Int
    <3>1. ASSUME NEW R \in SUBSET U PROVE Part(R) \in Int
      <4> DEFINE g == [y \in S \cap R |-> f[y]]
      <4>1. IsFiniteSet(S \cap R) /\ g \in [S \cap R -> Int]
        BY FS_Subset
      <4> HIDE DEF g
      <4>2. SumFunction(g) \in Int
        BY <4>1, SumType
      <4>3. QED
        BY <4>2 DEF g
    <3> HIDE DEF Part
    <3>2. QED
      BY <3>1
  <2>5. Part(T) <= k[x] + a
    <3>1. CASE x \in S
      <4> DEFINE g == [y \in S \cap T |-> f[y]]
      <4>1. /\ IsFiniteSet(S \cap T) /\ g \in [S \cap T -> Int] /\ x \in S \cap T
            /\ g[x] = f[x] /\ (S \cap T) \ {x} = S \cap P
            /\ [y \in (S \cap T) \ {x} |-> g[y]] = [y \in S \cap P |-> f[y]]
        <5>1. IsFiniteSet(S \cap T)
          BY FS_Subset
        <5>2. QED
          BY <2>1, <3>1, <5>1
      <4> HIDE DEF g
      <4>2. SumFunction(g) = g[x] + SumFunction([y \in (S \cap T) \ {x} |-> g[y]])
        BY <4>1, SumTake
      <4>3. Part(T) = f[x] + Part(P)
        BY <4>1, <4>2 DEF g
      <4>4. f[x] <= k[x] /\ f[x] \in Nat
        BY <3>1
      <4> HIDE DEF Part, P
      <4>5. QED
        BY <2>2, <2>3, <2>4, <4>3, <4>4
    <3>2. CASE x \notin S
      <4>1. S \cap T = S \cap P
        BY <3>2
      <4>2. Part(T) = Part(P)
        BY <4>1
      <4> HIDE DEF Part, P
      <4>3. QED
        BY <2>2, <2>3, <2>4, <4>2
    <3>3. QED
      BY <3>1, <3>2
  <2>6. k[x] + a \in Int
    BY <2>2, <2>3
  <2>7. QED
    BY <2>5, <2>6 DEF NotMore, Adding, x
<1> HIDE DEF q
<1>4. \A T \in SUBSET U : \A a :
        T # {} /\ NotMore(q, T \ {AnyOf(T)}, a) => NotMore(q, T, Adding(0, a, k[AnyOf(T)]))
  BY <1>3
<1>5. NotMore(q, U, Sum!FoldOf(0, 0, k, U))
  BY <1>1, <1>2, <1>4, Sum!FoldInduction
<1>6. SumFunction(k) = Sum!FoldOf(0, 0, k, U)
  <2>1. k \in [U -> Int]
    OBVIOUS
  <2>2. QED
    BY <2>1, SumIsFold
<1>7. [x \in S \cap U |-> f[x]] = f
  OBVIOUS
<1>8. QED
  BY <1>5, <1>6, <1>7 DEF NotMore, q

-----------------------------------------------------------------------------
(* Memories.                                                               *)

(* While the focus is on a component, it moves alone.                      *)
LEMMA MemoriesMove ==
  ASSUME [Next]_vars, focus = "memories"
  PROVE  focus' = "memories" /\ [Kept!Next]_(Kept!vars)
<1>1. CASE UNCHANGED vars
  BY <1>1 DEF vars, memoriesVars, Kept!vars
<1>2. CASE Next
  BY <1>2 DEF Next, Kept!Next, KeptAlone
<1>3. QED
  BY <1>1, <1>2

Declared == UNION {s.rows : s \in Sources}
States == {"active", "archived", "deleted", "cold"}
MemoryRows ==
  [project : Projects, ns : Namespaces, task : {s.task : s \in Sources},
   kind : {r[1] : r \in Declared}, text : {r[2] : r \in Declared},
   source : Sources, at : Nat, state : States]
Candidates == [project : Projects, observed : Nat]
Runs == [pc : {"idle", "next", "compact"}, asOf : Nat, queue : SUBSET Candidates,
         at : Candidates \cup {NONE}, todo : SUBSET Namespaces, good : BOOLEAN]

MemoriesType ==
  /\ clock \in Nat
  /\ projects \in [Projects -> [enabled : BOOLEAN, state : {"active", "inactive"},
                                observed : Nat]]
  /\ memories \subseteq MemoryRows /\ IsFiniteSet(memories)
  /\ \A m \in memories : m.at <= clock
  /\ refs \subseteq Sources
  /\ prepared \subseteq [source : Sources, at : Nat]
  /\ run \in [Compactors -> Runs]
  /\ \A c \in Compactors : run[c].pc = "compact" => run[c].at \in Candidates

(* What is prepared is stored before its project could be dormant.         *)
Timely ==
  /\ \A p \in prepared : p.at <= clock /\ clock - p.at <= MaxGap
  /\ \A c \in Compactors : run[c].asOf <= clock
  /\ \A p \in Projects : projects[p].state = "inactive" =>
       projects[p].observed + InactiveDays <= clock

(* A compactor that still has its project as it found it knows of every    *)
(* active row of it.                                                       *)
Undisturbed(c) ==
  /\ run[c].pc = "compact" /\ run[c].good
  /\ projects[run[c].at.project].observed = run[c].at.observed
  /\ run[c].at.observed + InactiveDays <= run[c].asOf

Surveyed ==
  \A c \in Compactors : Undisturbed(c) =>
    \A m \in memories : m.project = run[c].at.project /\ m.state = "active" =>
      m.ns \in run[c].todo

(* A key names one row, and a row that was compacted is not active again.  *)
KeysUnique == \A m, n \in memories : Kept!Key(m) = Kept!Key(n) => m = n
Folded ==
  \A r \in retros : \A k \in r.sources :
    \E m \in memories : Kept!Key(m) = k /\ m.state # "active"

MemoriesInv ==
  /\ MemoriesType
  /\ Timely
  /\ Surveyed
  /\ KeysUnique
  /\ Folded
  /\ Kept!InactiveIsDrained
  /\ Kept!NothingLost

(* Rows whose lifecycle changes keep everything else.                      *)
Turn(all, R, x) == (all \ R) \cup {[m EXCEPT !.state = x] : m \in R}
Turned(n, R, x) == IF n \in R THEN [n EXCEPT !.state = x] ELSE n

(* A turned row is the same row but for its lifecycle.                     *)
LEMMA TurnedRow ==
  ASSUME NEW n \in MemoryRows, NEW R, NEW x \in States
  PROVE  /\ Turned(n, R, x) \in MemoryRows
         /\ Turned(n, R, x).state = IF n \in R THEN x ELSE n.state
         /\ Turned(n, R, x).project = n.project
         /\ Turned(n, R, x).ns = n.ns
         /\ Turned(n, R, x).source = n.source
         /\ Turned(n, R, x).at = n.at
         /\ Kept!Key(Turned(n, R, x)) = Kept!Key(n)
         /\ Kept!Group(Turned(n, R, x)) = Kept!Group(n)
BY DEF Turned, MemoryRows, Kept!Key, Kept!Group

(* The rows afterwards are the rows before, turned or not.                 *)
LEMMA TurnIsImage ==
  ASSUME NEW all, NEW R \in SUBSET all, NEW x
  PROVE  /\ \A n \in all : Turned(n, R, x) \in Turn(all, R, x)
         /\ \A m \in Turn(all, R, x) : \E n \in all : m = Turned(n, R, x)
BY DEF Turn, Turned

(* There are no more of them,                                              *)
LEMMA TurnIsFinite ==
  ASSUME NEW all, IsFiniteSet(all), NEW R \in SUBSET all, NEW x
  PROVE  IsFiniteSet(Turn(all, R, x))
<1> DEFINE f == [n \in all |-> Turned(n, R, x)]
<1>1. f \in Surjection(all, Turn(all, R, x))
  BY TurnIsImage DEF Surjection
<1>2. QED
  BY <1>1, FS_Surjection

(* and a key still names one.                                              *)
LEMMA TurnKeepsKeys ==
  ASSUME NEW all \in SUBSET MemoryRows, NEW R \in SUBSET all, NEW x \in States,
         \A m, n \in all : Kept!Key(m) = Kept!Key(n) => m = n
  PROVE  \A m, n \in Turn(all, R, x) : Kept!Key(m) = Kept!Key(n) => m = n
<1>1. ASSUME NEW m \in Turn(all, R, x), NEW n \in Turn(all, R, x),
             Kept!Key(m) = Kept!Key(n)
      PROVE  m = n
  <2>1. PICK a \in all : m = Turned(a, R, x)
    BY TurnIsImage, SMTT(60)
  <2>2. PICK b \in all : n = Turned(b, R, x)
    BY TurnIsImage
  <2>3. Kept!Key(a) = Kept!Key(b)
    BY <1>1, <2>1, <2>2, TurnedRow
  <2>4. QED
    BY <2>1, <2>2, <2>3
<1>2. QED
  BY <1>1

(* An observation of the present.                                          *)
LEMMA AdvancedFacts ==
  ASSUME MemoriesType, NEW p \in Projects, NEW t \in Nat
  PROVE  LET after == Kept!Advanced(p, t, t)
         IN /\ after \in [Projects -> [enabled : BOOLEAN, state : {"active", "inactive"},
                                       observed : Nat]]
            /\ \A q \in Projects \ {p} : after[q] = projects[q]
            /\ after[p].enabled = projects[p].enabled
            /\ t <= after[p].observed
            /\ after[p] # projects[p] => after[p].observed = t /\ after[p].state = "active"
            /\ projects[p].observed < t => after[p].state = "active"
<1>1. projects[p] \in [enabled : BOOLEAN, state : {"active", "inactive"}, observed : Nat]
  BY DEF MemoriesType
<1>2. CASE projects[p].observed > t \/ (t = projects[p].observed /\ projects[p].state = "active")
  <2>1. Kept!Advanced(p, t, t) = projects
    BY <1>1, <1>2 DEF Kept!Advanced
  <2>2. QED
    BY <1>1, <1>2, <2>1 DEF MemoriesType
<1>3. CASE ~(projects[p].observed > t \/ (t = projects[p].observed /\ projects[p].state = "active"))
  <2> DEFINE new == [projects[p] EXCEPT !.observed = t, !.state = "active"]
  <2>1. Kept!Advanced(p, t, t) = [projects EXCEPT ![p] = new]
    BY <1>1, <1>3 DEF Kept!Advanced
  <2>2. /\ new \in [enabled : BOOLEAN, state : {"active", "inactive"}, observed : Nat]
        /\ new.enabled = projects[p].enabled /\ new.observed = t /\ new.state = "active"
    BY <1>1
  <2> HIDE DEF new
  <2>3. QED
    BY <2>1, <2>2 DEF MemoriesType
<1>4. QED
  BY <1>2, <1>3

(* The retrospective that tells of a row, and the row that a resolution    *)
(* resolved.                                                               *)
Tells(r, m) ==
  /\ r.project = m.project /\ r.ns = m.ns
  /\ Kept!Key(m) \in r.sources /\ Kept!Group(m) \in r.entries
Resolves(y, m) ==
  /\ Kept!Key(m) = y.target /\ m.state \in {"archived", "deleted"}
  /\ m.source # y.source /\ m.source.at <= y.source.at

(* Rows are added, and some of them turned from active.                    *)
RowsChange(added, R, x) ==
  /\ added \subseteq MemoryRows /\ IsFiniteSet(added)
  /\ \A m \in added : m.state = "active" /\ m.at <= clock
  /\ \A m, n \in memories \cup added : Kept!Key(m) = Kept!Key(n) => m = n
  /\ x \in States \ {"active"}
  /\ R \subseteq memories \cup added
  /\ x = "cold" => \A m \in R : m.state = "active"
  /\ memories' = Turn(memories \cup added, R, x)

(* What that leaves as it was.                                             *)
RowsKept(added, R, x) ==
  /\ memories' \subseteq MemoryRows /\ IsFiniteSet(memories')
  /\ \A m \in memories' : m.at <= clock
  /\ KeysUnique'
  /\ \A r \in retros : \A k \in r.sources :
       \E m \in memories' : Kept!Key(m) = k /\ m.state # "active"
  /\ \A m \in memories' : m.state = "cold" =>
       (\E r \in retros : Tells(r, m)) \/ (x = "cold" /\ \E n \in R : m = Turned(n, R, x))
  /\ \A y \in resolutions : y.status = "resolved" =>
       \E m \in memories' : Resolves(y, m)
  /\ \A m \in memories' : m.state = "active" => m \in (memories \cup added) \ R

(* No row vanishes or becomes active, and none loses what tells of it.     *)
LEMMA RowsMove ==
  ASSUME MemoriesInv, NEW added, NEW R, NEW x, RowsChange(added, R, x)
  PROVE  RowsKept(added, R, x)
<1> USE DEF RowsChange
<1> DEFINE all == memories \cup added
<1>1. /\ memories \subseteq MemoryRows /\ IsFiniteSet(memories)
      /\ \A m \in memories : m.at <= clock
  BY DEF MemoriesInv, MemoriesType
<1>2. /\ all \in SUBSET MemoryRows /\ R \in SUBSET all /\ x \in States
      /\ \A m \in all : m.at <= clock
      /\ IsFiniteSet(all)
  <2>1. all \in SUBSET MemoryRows /\ \A m \in all : m.at <= clock
    BY <1>1
  <2>2. IsFiniteSet(all)
    BY <1>1, FS_Union
  <2>3. QED
    BY <2>1, <2>2
<1>3. /\ memories' = Turn(all, R, x)
      /\ \A n \in all : Turned(n, R, x) \in memories'
      /\ \A m \in memories' : \E n \in all : m = Turned(n, R, x)
      /\ \A m, n \in all : Kept!Key(m) = Kept!Key(n) => m = n
      /\ memories \subseteq all
  <2>1. memories' = Turn(all, R, x)
    OBVIOUS
  <2>2. \A m, n \in all : Kept!Key(m) = Kept!Key(n) => m = n
    OBVIOUS
  <2>3. memories \subseteq all
    OBVIOUS
  <2> HIDE DEF all
  <2>4. QED
    <3>1. /\ \A n \in all : Turned(n, R, x) \in Turn(all, R, x)
          /\ \A m \in Turn(all, R, x) : \E n \in all : m = Turned(n, R, x)
      BY <1>2 DEF Turn, Turned
    <3>2. QED
      BY <2>1, <2>2, <2>3, <3>1
<1>10. ASSUME NEW m \in all, m \notin R PROVE m \in all \ R
  BY <1>10
<1>12. all \ R = (memories \cup added) \ R
  OBVIOUS
<1>13. ASSUME NEW m \in all, m.state # "active" PROVE m \in memories
  BY <1>13
<1> HIDE DEF all
<1>14. \A n \in all :
         /\ Turned(n, R, x) \in MemoryRows
         /\ Turned(n, R, x).state = IF n \in R THEN x ELSE n.state
         /\ Turned(n, R, x).project = n.project
         /\ Turned(n, R, x).ns = n.ns
         /\ Turned(n, R, x).source = n.source
         /\ Turned(n, R, x).at = n.at
         /\ Kept!Key(Turned(n, R, x)) = Kept!Key(n)
         /\ Kept!Group(Turned(n, R, x)) = Kept!Group(n)
  <2>1. ASSUME NEW n \in all PROVE n \in MemoryRows
    BY <1>2
  <2>2. QED
    BY <1>2, <2>1, TurnedRow
<1>4. memories' \subseteq MemoryRows /\ \A m \in memories' : m.at <= clock
  <2>1. ASSUME NEW m \in memories' PROVE m \in MemoryRows /\ m.at <= clock
    <3>1. PICK n \in all : m = Turned(n, R, x)
      BY <1>3
    <3>2. m.at = n.at /\ m \in MemoryRows
      BY <1>14, <3>1
    <3>3. QED
      BY <1>2, <3>2
  <2>2. QED
    BY <2>1
<1>5. IsFiniteSet(memories')
  BY <1>2, <1>3, TurnIsFinite
<1>6. KeysUnique'
  BY <1>2, <1>3, TurnKeepsKeys DEF KeysUnique
<1>7. ASSUME NEW r \in retros, NEW k \in r.sources
      PROVE  \E m \in memories' : Kept!Key(m) = k /\ m.state # "active"
  <2>1. PICK m \in memories : Kept!Key(m) = k /\ m.state # "active"
    BY DEF MemoriesInv, Folded
  <2>2. QED
    BY <1>2, <1>3, <1>14, <2>1
<1>8. ASSUME NEW m \in memories', m.state = "cold"
      PROVE  (\E r \in retros : Tells(r, m)) \/ (x = "cold" /\ \E n \in R : m = Turned(n, R, x))
  <2>1. PICK n \in all : m = Turned(n, R, x)
    BY <1>3
  <2>2. CASE n \in R
    BY <1>2, <1>8, <1>14, <2>1, <2>2
  <2>3. CASE n \notin R
    <3>1. m = n /\ n \in memories
      BY <1>8, <1>13, <2>1, <2>3 DEF Turned
    <3>2. QED
      BY <1>8, <3>1 DEF MemoriesInv, Kept!NothingLost, Tells
  <2>4. QED
    BY <2>2, <2>3
<1>9. ASSUME NEW y \in resolutions, y.status = "resolved"
      PROVE  \E m \in memories' : Resolves(y, m)
  <2>1. PICK m \in memories : Resolves(y, m)
    BY <1>9 DEF MemoriesInv, Kept!NothingLost, Resolves
  <2>2. Turned(m, R, x).state \in {"archived", "deleted"}
    BY <1>2, <1>3, <1>14, <2>1 DEF Resolves, States
  <2>3. Resolves(y, Turned(m, R, x))
    BY <1>2, <1>3, <1>14, <2>1, <2>2 DEF Resolves
  <2>4. QED
    BY <1>3, <2>1, <2>3
<1>11. ASSUME NEW m \in memories', m.state = "active"
       PROVE  m \in (memories \cup added) \ R
  <2>1. PICK n \in all : m = Turned(n, R, x)
    BY <1>3
  <2>2. n \notin R
    BY <1>2, <1>11, <1>14, <2>1
  <2>3. QED
    BY <1>12, <2>1, <2>2 DEF Turned
<1>15. QED
  BY <1>4, <1>5, <1>6, <1>7, <1>8, <1>9, <1>11 DEF RowsKept

-----------------------------------------------------------------------------
(* A capture.                                                              *)
LEMMA InsertedRows ==
  ASSUME MemoriesInv, NEW p \in prepared
  PROVE  LET added == Kept!Inserted(p.source, p.at)
         IN /\ added \in SUBSET MemoryRows /\ IsFiniteSet(added)
            /\ \A m \in added : /\ m.state = "active" /\ m.at = p.at
                                /\ m.project = p.source.project
            /\ \A m, n \in memories \cup added : Kept!Key(m) = Kept!Key(n) => m = n
<1> DEFINE s == p.source
           added == Kept!Inserted(s, p.at)
           f == [m \in added |-> <<m.kind, m.text>>]
<1>1. /\ s \in Sources /\ p.at \in Nat
      /\ s.project \in Projects /\ s.ns \in Namespaces /\ IsFiniteSet(s.rows)
      /\ s.rows \subseteq Declared
  BY MemoriesAssumption DEF MemoriesInv, MemoriesType, Declared
<1>2. \A m \in added :
        /\ m \in [project : {s.project}, ns : {s.ns}, task : {s.task},
                  kind : {r[1] : r \in s.rows}, text : {r[2] : r \in s.rows},
                  source : {s}, at : {p.at}, state : {"active"}]
        /\ <<m.kind, m.text>> \in s.rows
        /\ Kept!Key(m) \notin {Kept!Key(n) : n \in memories}
  BY DEF Kept!Inserted
<1>3. ASSUME NEW m \in added PROVE m \in MemoryRows
  BY <1>1, <1>2, ZenonT(60) DEF MemoryRows, States
<1> HIDE DEF added
<1>4. ASSUME NEW m \in added, NEW n \in added, m.kind = n.kind, m.text = n.text
      PROVE  m = n
  <2>1. /\ m = [project |-> s.project, ns |-> s.ns, task |-> s.task, kind |-> m.kind,
                text |-> m.text, source |-> s, at |-> p.at, state |-> "active"]
        /\ n = [project |-> s.project, ns |-> s.ns, task |-> s.task, kind |-> n.kind,
                text |-> n.text, source |-> s, at |-> p.at, state |-> "active"]
    BY <1>2
  <2>2. QED
    BY <1>4, <2>1
<1>5. IsFiniteSet(added)
  <2>1. f \in Injection(added, s.rows)
    <3>1. f \in [added -> s.rows]
      BY <1>2
    <3>2. ASSUME NEW m \in added, NEW n \in added, f[m] = f[n] PROVE m = n
      BY <1>4, <3>2
    <3>3. QED
      BY <3>1, <3>2 DEF Injection, IsInjective
  <2>2. QED
    BY <1>1, <2>1, FS_Injection
<1>6. ASSUME NEW m \in memories \cup added, NEW n \in memories \cup added,
             Kept!Key(m) = Kept!Key(n)
      PROVE  m = n
  <2>1. CASE m \in memories /\ n \in memories
    BY <1>6, <2>1 DEF MemoriesInv, KeysUnique
  <2>2. CASE m \in added /\ n \in added
    BY <1>4, <1>6, <2>2 DEF Kept!Key
  <2>3. CASE m \in added /\ n \in memories
    BY <1>2, <1>6, <2>3
  <2>4. CASE n \in added /\ m \in memories
    BY <1>2, <1>6, <2>4
  <2>5. QED
    BY <2>1, <2>2, <2>3, <2>4
<1>7. QED
  BY <1>2, <1>3, <1>5, <1>6 DEF added

(* A capture is recent: an observation of its time is later than that of   *)
(* any project found dormant.                                              *)
LEMMA CaptureIsRecent ==
  ASSUME MemoriesInv, NEW p \in prepared
  PROVE  /\ p.at \in Nat
         /\ \A u \in Projects : projects[u].state = "inactive" => projects[u].observed < p.at
         /\ \A c \in Compactors : Undisturbed(c) => run[c].at.observed < p.at
<1>1. p.at \in Nat /\ p.at <= clock /\ clock - p.at <= MaxGap /\ clock \in Nat
  BY DEF MemoriesInv, MemoriesType, Timely
<1>2. ASSUME NEW u \in Projects, projects[u].state = "inactive"
      PROVE  projects[u].observed < p.at
  <2>1. projects[u].observed \in Nat /\ projects[u].observed + InactiveDays <= clock
    BY <1>2 DEF MemoriesInv, MemoriesType, Timely
  <2>2. QED
    BY <1>1, <2>1, MemoriesAssumption
<1>3. ASSUME NEW c \in Compactors, Undisturbed(c)
      PROVE  run[c].at.observed < p.at
  <2>1. /\ run[c].asOf <= clock /\ run[c].asOf \in Nat
        /\ run[c].at.observed + InactiveDays <= run[c].asOf
        /\ run[c].at.observed \in Nat
    BY <1>3 DEF MemoriesInv, MemoriesType, Timely, Undisturbed, Runs, Candidates
  <2>2. QED
    BY <1>1, <2>1, MemoriesAssumption
<1>4. QED
  BY <1>1, <1>2, <1>3

(* What a capture resolves had been reported by another before.            *)
LEMMA StoreStep ==
  ASSUME MemoriesInv, NEW p \in prepared, Kept!Store(p)
  PROVE  /\ memories' \subseteq MemoryRows /\ IsFiniteSet(memories')
         /\ \A m \in memories' : m.at <= clock
         /\ KeysUnique'
         /\ \A r \in retros : \A k \in r.sources :
              \E m \in memories' : Kept!Key(m) = k /\ m.state # "active"
         /\ \A m \in memories' : m.state = "cold" => \E r \in retros : Tells(r, m)
         /\ \A y \in resolutions' : y.status = "resolved" =>
              \E m \in memories' : Resolves(y, m)
         /\ \A m \in memories' : m.state = "active" /\ m.project # p.source.project =>
              m \in memories
         /\ \/ projects' = Kept!Advanced(p.source.project, p.at, p.at)
            \/ projects' = projects /\ \A m \in memories' : m.state = "active" => m \in memories
         /\ refs' = refs \cup {p.source}
<1> DEFINE s == p.source
           added == Kept!Inserted(s, p.at)
           all == memories \cup added
           targets == UNION {Kept!ResolvedIssues(s, text, all) : text \in s.resolves}
           unmatched == {text \in s.resolves :
                           Kept!ResolvedIssues(s, text, all) = {}
                           /\ ~Kept!AlreadyResolved(s, text)}
<1>1. /\ memories' = (all \ targets) \cup {[m EXCEPT !.state = "archived"] : m \in targets}
      /\ resolutions' = resolutions
           \cup {Kept!Resolution(s, m.text, Kept!Key(m)) : m \in targets}
           \cup {Kept!Resolution(s, text, NONE) : text \in unmatched}
      /\ projects' = IF Kept!Effective(added, targets, unmatched)
                     THEN Kept!Advanced(s.project, p.at, p.at) ELSE projects
      /\ refs' = refs \cup {s}
  BY DEF Kept!Store
<1>2. /\ added \in SUBSET MemoryRows /\ IsFiniteSet(added)
      /\ \A m \in added : /\ m.state = "active" /\ m.at = p.at
                          /\ m.project = p.source.project
      /\ \A m, n \in memories \cup added : Kept!Key(m) = Kept!Key(n) => m = n
  BY InsertedRows
<1>3. p.at <= clock
  BY DEF MemoriesInv, Timely
<1>4. \A m \in targets : /\ m \in all /\ m.state = "active" /\ m.source # s
                         /\ m.source.at <= s.at
  BY DEF Kept!ResolvedIssues
<1>5. (added = {} /\ targets = {}) \/ Kept!Effective(added, targets, unmatched)
  BY DEF Kept!Effective
<1>13. ASSUME NEW text
       PROVE  Kept!Resolution(s, text, NONE).status # "resolved"
  BY DEF Kept!Resolution
<1>14. ASSUME NEW m, NEW k
       PROVE  Kept!Resolution(s, m.text, k).target = k /\ Kept!Resolution(s, m.text, k).source = s
  BY DEF Kept!Resolution
<1> HIDE DEF targets, unmatched, added
<1>6. memories' = Turn(memories \cup added, targets, "archived")
  BY <1>1 DEF Turn
<1>7. targets \in SUBSET (memories \cup added)
  BY <1>4
<1>8. \A m \in added : m.state = "active" /\ m.at <= clock
  BY <1>2, <1>3
<1>9. /\ memories' \subseteq MemoryRows /\ IsFiniteSet(memories')
      /\ \A m \in memories' : m.at <= clock
      /\ KeysUnique'
      /\ \A r \in retros : \A k \in r.sources :
           \E m \in memories' : Kept!Key(m) = k /\ m.state # "active"
      /\ \A m \in memories' : m.state = "cold" => \E r \in retros : Tells(r, m)
      /\ \A y \in resolutions : y.status = "resolved" =>
           \E m \in memories' : Resolves(y, m)
      /\ \A m \in memories' : m.state = "active" => m \in (memories \cup added) \ targets
  <2>1. /\ "archived" \in States \ {"active"}
        /\ "archived" = "cold" => \A m \in targets : m.state = "active"
    BY DEF States
  <2>2. \A m, n \in memories \cup added : Kept!Key(m) = Kept!Key(n) => m = n
    BY <1>2
  <2>3. /\ added \in SUBSET MemoryRows /\ IsFiniteSet(added)
    BY <1>2
  <2>4. RowsChange(added, targets, "archived")
    BY <1>6, <1>7, <1>8, <2>1, <2>2, <2>3 DEF RowsChange
  <2>5. RowsKept(added, targets, "archived")
    BY <2>4, RowsMove
  <2>6. QED
    BY <2>5 DEF RowsKept
<1>10. ASSUME NEW m \in targets
       PROVE  \E n \in memories' : /\ Kept!Key(n) = Kept!Key(m) /\ n.state = "archived"
                                   /\ n.source = m.source
  <2>1. m \in MemoryRows
    BY <1>2, <1>7 DEF MemoriesInv, MemoriesType
  <2>2. [m EXCEPT !.state = "archived"] \in memories'
    BY <1>1
  <2>3. QED
    BY <2>1, <2>2 DEF MemoryRows, Kept!Key
<1>11. ASSUME NEW y \in resolutions', y.status = "resolved"
       PROVE  \E m \in memories' : Resolves(y, m)
  <2>1. CASE y \in resolutions
    BY <1>9, <1>11, <2>1
  <2>2. CASE \E m \in targets : y = Kept!Resolution(s, m.text, Kept!Key(m))
    <3>1. PICK m \in targets : y = Kept!Resolution(s, m.text, Kept!Key(m))
      BY <2>2
    <3>2. y.target = Kept!Key(m) /\ y.source = s
      BY <1>14, <3>1
    <3>3. PICK n \in memories' : /\ Kept!Key(n) = Kept!Key(m) /\ n.state = "archived"
                                 /\ n.source = m.source
      BY <1>10
    <3>4. QED
      BY <1>4, <3>2, <3>3 DEF Resolves
  <2>3. CASE \E text \in unmatched : y = Kept!Resolution(s, text, NONE)
    BY <1>11, <1>13, <2>3
  <2>4. QED
    BY <1>1, <2>1, <2>2, <2>3
<1>12. \/ projects' = Kept!Advanced(s.project, p.at, p.at)
       \/ projects' = projects /\ \A m \in memories' : m.state = "active" => m \in memories
  BY <1>1, <1>5, <1>9
<1>15. \A m \in memories' : m.state = "active" /\ m.project # s.project => m \in memories
  BY <1>2, <1>9
<1>16. QED
  BY <1>1, <1>9, <1>11, <1>12, <1>15

(* What is said of the rows only is not disturbed by another's step.       *)
LEMMA SameRows ==
  ASSUME MemoriesInv, UNCHANGED <<memories, retros, resolutions>>
  PROVE  KeysUnique' /\ Folded' /\ Kept!NothingLost'
<1>1. KeysUnique'
  BY DEF MemoriesInv, KeysUnique, Kept!Key
<1>2. Folded'
  BY DEF MemoriesInv, Folded, Kept!Key
<1>3. Kept!NothingLost'
  BY DEF MemoriesInv, Kept!NothingLost, Kept!Key, Kept!Group
<1>4. QED
  BY <1>1, <1>2, <1>3

(* A capture keeps the invariant.                                          *)
LEMMA CaptureStep ==
  ASSUME MemoriesInv, NEW p \in prepared, Kept!Capture(p)
  PROVE  MemoriesInv'
<1> DEFINE u == p.source.project
<1>1. /\ prepared' = prepared \ {p}
      /\ UNCHANGED <<clock, retros, run, owner>>
  BY DEF Kept!Capture
<1>2. p.source \in Sources /\ u \in Projects
  BY MemoriesAssumption DEF MemoriesInv, MemoriesType
<1>3. CASE UNCHANGED <<projects, memories, refs, resolutions>>
  <2>1. MemoriesType'
    BY <1>1, <1>3 DEF MemoriesInv, MemoriesType
  <2>2. Timely' /\ Surveyed'
    BY <1>1, <1>3 DEF MemoriesInv, Timely, Surveyed, Undisturbed
  <2>3. Kept!InactiveIsDrained'
    BY <1>1, <1>3 DEF MemoriesInv, Kept!InactiveIsDrained
  <2>4. QED
    BY <1>1, <1>3, <2>1, <2>2, <2>3, SameRows DEF MemoriesInv
<1>4. CASE Kept!Store(p)
  <2>1. /\ memories' \subseteq MemoryRows /\ IsFiniteSet(memories')
        /\ \A m \in memories' : m.at <= clock
        /\ KeysUnique'
        /\ \A r \in retros : \A k \in r.sources :
             \E m \in memories' : Kept!Key(m) = k /\ m.state # "active"
        /\ \A m \in memories' : m.state = "cold" => \E r \in retros : Tells(r, m)
        /\ \A y \in resolutions' : y.status = "resolved" =>
             \E m \in memories' : Resolves(y, m)
        /\ \A m \in memories' : m.state = "active" /\ m.project # u => m \in memories
        /\ \/ projects' = Kept!Advanced(u, p.at, p.at)
           \/ projects' = projects /\ \A m \in memories' : m.state = "active" => m \in memories
        /\ refs' = refs \cup {p.source}
    BY <1>4, StoreStep
  <2>2. /\ p.at \in Nat
        /\ \A v \in Projects : projects[v].state = "inactive" => projects[v].observed < p.at
        /\ \A c \in Compactors : Undisturbed(c) => run[c].at.observed < p.at
    BY CaptureIsRecent
  <2>3. /\ projects' \in [Projects -> [enabled : BOOLEAN, state : {"active", "inactive"},
                                       observed : Nat]]
        /\ \A v \in Projects \ {u} : projects'[v] = projects[v]
        /\ \/ p.at <= projects'[u].observed /\ projects'[u].state = "active"
           \/ projects' = projects /\ \A m \in memories' : m.state = "active" => m \in memories
    <3>1. MemoriesType
      BY DEF MemoriesInv
    <3>2. CASE projects' = projects
                 /\ \A m \in memories' : m.state = "active" => m \in memories
      BY <3>1, <3>2 DEF MemoriesType
    <3>3. CASE projects' = Kept!Advanced(u, p.at, p.at)
      <4>1. /\ projects' \in [Projects -> [enabled : BOOLEAN, state : {"active", "inactive"},
                                           observed : Nat]]
            /\ \A v \in Projects \ {u} : projects'[v] = projects[v]
            /\ p.at <= projects'[u].observed
            /\ projects'[u] # projects[u] => projects'[u].state = "active"
            /\ projects[u].observed < p.at => projects'[u].state = "active"
        BY <1>2, <2>2, <3>1, <3>3, AdvancedFacts
      <4>2. projects'[u].state = "active"
        <5>1. CASE projects[u].state = "inactive"
          BY <1>2, <2>2, <4>1, <5>1
        <5>2. CASE projects[u].state # "inactive"
          BY <1>2, <3>1, <4>1, <5>2 DEF MemoriesType
        <5>3. QED
          BY <5>1, <5>2
      <4>3. QED
        BY <4>1, <4>2
    <3>4. QED
      BY <2>1, <3>2, <3>3
  <2> HIDE DEF u
  <2>4. MemoriesType'
    BY <1>1, <1>2, <2>1, <2>3 DEF MemoriesInv, MemoriesType
  <2>5. Timely'
    BY <1>1, <2>3 DEF MemoriesInv, Timely
  <2>6. ASSUME NEW c \in Compactors, Undisturbed(c)',
               NEW m \in memories', m.project = run'[c].at.project, m.state = "active"
        PROVE  m.ns \in run'[c].todo
    <3>1. run[c].at \in Candidates
      BY <1>1, <2>6 DEF MemoriesInv, MemoriesType, Undisturbed
    <3>2. run[c].at.project \in Projects /\ run[c].at.observed \in Nat
      BY <3>1 DEF Candidates
    <3>3. CASE run[c].at.project # u \/ projects' = projects
      <4>1. Undisturbed(c)
        BY <1>1, <2>3, <2>6, <3>2, <3>3 DEF Undisturbed
      <4>2. m \in memories
        BY <1>1, <2>1, <2>3, <2>2, <2>6, <3>3, <4>1, <3>2 DEF Undisturbed
      <4>3. QED
        BY <1>1, <2>6, <4>1, <4>2 DEF MemoriesInv, Surveyed
    <3>4. CASE run[c].at.project = u /\ p.at <= projects'[u].observed
      <4>1. run[c].at.observed < p.at
        <5>1. /\ run[c].asOf <= clock /\ run[c].asOf \in Nat
              /\ run[c].at.observed + InactiveDays <= run[c].asOf
          BY <1>1, <2>6 DEF MemoriesInv, MemoriesType, Timely, Undisturbed, Runs
        <5>2. p.at <= clock /\ clock - p.at <= MaxGap /\ clock \in Nat
          BY DEF MemoriesInv, MemoriesType, Timely
        <5>3. QED
          BY <2>2, <3>2, <5>1, <5>2, MemoriesAssumption
      <4>2. projects'[u].observed = run[c].at.observed
        BY <1>1, <2>6, <3>4 DEF Undisturbed
      <4>3. QED
        BY <2>2, <3>2, <3>4, <4>1, <4>2
    <3>5. QED
      BY <2>3, <3>3, <3>4
  <2>7. Folded'
    BY <1>1, <2>1 DEF Folded, Kept!Key
  <2>8. ASSUME NEW v \in Projects, projects'[v].state = "inactive",
               NEW m \in memories', m.project = v, m.state = "active"
        PROVE  FALSE
    <3>1. CASE v # u \/ projects' = projects
      <4>1. projects[v].state = "inactive"
        BY <2>3, <2>8, <3>1
      <4>2. m \in memories
        BY <2>1, <2>2, <2>3, <2>8, <3>1
      <4>3. QED
        BY <2>8, <4>1, <4>2 DEF MemoriesInv, Kept!InactiveIsDrained
    <3>2. CASE v = u /\ projects'[u].state = "active"
      BY <2>8, <3>2
    <3>3. QED
      BY <2>3, <3>1, <3>2
  <2>9. Kept!NothingLost'
    BY <1>1, <2>1 DEF MemoriesInv, Kept!NothingLost, Tells, Resolves, Kept!Key, Kept!Group
  <2>10. QED
    BY <2>1, <2>4, <2>5, <2>6, <2>7, <2>8, <2>9 DEF MemoriesInv, Surveyed,
      Kept!InactiveIsDrained
<1>5. QED
  BY <1>3, <1>4 DEF Kept!Capture

-----------------------------------------------------------------------------
(* Observations, the owner and the clock.                                  *)

(* A project is switched on or off, or observed.                           *)
LEMMA ProjectStep ==
  ASSUME MemoriesInv, NEW u \in Projects, Kept!ObserveChange(u) \/ Kept!SetEnabled(u)
  PROVE  MemoriesInv'
<1>1. UNCHANGED <<clock, memories, refs, resolutions, retros, prepared, run>>
  BY DEF Kept!ObserveChange, Kept!SetEnabled
<1>2. /\ projects' \in [Projects -> [enabled : BOOLEAN, state : {"active", "inactive"},
                                     observed : Nat]]
      /\ \A v \in Projects \ {u} : projects'[v].state = projects[v].state
                                   /\ projects'[v].observed = projects[v].observed
      /\ \/ projects'[u].state = projects[u].state
            /\ projects'[u].observed = projects[u].observed
         \/ projects'[u].state = "active" /\ clock - projects'[u].observed <= MaxGap
  <2>1. CASE Kept!SetEnabled(u)
    <3>1. projects' = [projects EXCEPT ![u].enabled = ~@]
      BY <2>1 DEF Kept!SetEnabled
    <3>2. QED
      BY <3>1 DEF MemoriesInv, MemoriesType
  <2>2. CASE Kept!ObserveChange(u)
    <3>1. PICK t \in {n \in 0..clock : clock - n <= MaxGap} : projects' = Kept!Advanced(u, t, t)
      BY <2>2 DEF Kept!ObserveChange
    <3>2. t \in Nat /\ clock - t <= MaxGap
      BY DEF MemoriesInv, MemoriesType
    <3>3. MemoriesType
      BY DEF MemoriesInv
    <3>4. /\ projects' \in [Projects -> [enabled : BOOLEAN, state : {"active", "inactive"},
                                         observed : Nat]]
          /\ \A v \in Projects \ {u} : projects'[v] = projects[v]
          /\ projects'[u] # projects[u] =>
               projects'[u].observed = t /\ projects'[u].state = "active"
      BY <3>1, <3>2, <3>3, AdvancedFacts
    <3>5. QED
      BY <3>2, <3>4
  <2>3. QED
    BY <2>1, <2>2
<1>3. MemoriesType'
  BY <1>1, <1>2 DEF MemoriesInv, MemoriesType
<1>4. Timely'
  BY <1>1, <1>2 DEF MemoriesInv, Timely
<1>5. ASSUME NEW c \in Compactors, Undisturbed(c)' PROVE Undisturbed(c)
  <2>1. /\ run[c].at \in Candidates /\ run[c].asOf \in Nat /\ run[c].asOf <= clock
        /\ clock \in Nat
    BY <1>1, <1>5 DEF MemoriesInv, MemoriesType, Timely, Undisturbed, Runs
  <2>2. run[c].at.project \in Projects /\ run[c].at.observed \in Nat
    BY <2>1 DEF Candidates
  <2>3. /\ projects'[run[c].at.project].observed = run[c].at.observed
        /\ run[c].at.observed + InactiveDays <= run[c].asOf
        /\ run[c].pc = "compact" /\ run[c].good
    BY <1>1, <1>5 DEF Undisturbed
  <2>4. ~(run[c].at.project = u /\ clock - projects'[u].observed <= MaxGap)
    BY <2>1, <2>2, <2>3, MemoriesAssumption
  <2>5. projects[run[c].at.project].observed = run[c].at.observed
    BY <1>2, <2>2, <2>3, <2>4
  <2>6. QED
    BY <2>3, <2>5 DEF Undisturbed
<1>6. Surveyed'
  BY <1>1, <1>5 DEF MemoriesInv, Surveyed
<1>7. Kept!InactiveIsDrained'
  <2>1. \A v \in Projects : projects'[v].state = "inactive" => projects[v].state = "inactive"
    BY <1>2
  <2>2. QED
    BY <1>1, <2>1 DEF MemoriesInv, Kept!InactiveIsDrained
<1>8. QED
  BY <1>1, <1>3, <1>4, <1>6, <1>7, SameRows DEF MemoriesInv

(* A capture is prepared.                                                  *)
LEMMA PrepareStep ==
  ASSUME MemoriesInv, NEW s \in Sources, Kept!Prepare(s)
  PROVE  MemoriesInv'
<1>1. /\ prepared' = prepared \cup {[source |-> s, at |-> clock]}
      /\ UNCHANGED <<clock, projects, memories, refs, resolutions, retros, run>>
  BY DEF Kept!Prepare
<1>2. MemoriesType'
  BY <1>1 DEF MemoriesInv, MemoriesType
<1>3. Timely'
  <2>1. clock <= clock /\ clock - clock <= MaxGap
    BY MemoriesAssumption DEF MemoriesInv, MemoriesType
  <2>2. QED
    BY <1>1, <2>1 DEF MemoriesInv, Timely
<1>4. Surveyed' /\ Kept!InactiveIsDrained'
  BY <1>1 DEF MemoriesInv, Surveyed, Undisturbed, Kept!InactiveIsDrained
<1>5. QED
  BY <1>1, <1>2, <1>3, <1>4, SameRows DEF MemoriesInv

(* Time passes, while no prepared capture is late.                         *)
LEMMA TickStep ==
  ASSUME MemoriesInv, Kept!Tick
  PROVE  MemoriesInv'
<1>1. /\ \A p \in prepared : clock - p.at < MaxGap
      /\ clock' = clock + 1
      /\ UNCHANGED <<projects, memories, refs, resolutions, retros, prepared, run>>
  BY DEF Kept!Tick
<1>2. MemoriesType'
  <2>1. clock \in Nat /\ clock' \in Nat
    BY <1>1 DEF MemoriesInv, MemoriesType
  <2>2. \A m \in memories : m.at <= clock'
    <3>1. ASSUME NEW m \in memories PROVE m.at <= clock'
      <4>1. m.at \in Nat /\ m.at <= clock
        BY DEF MemoriesInv, MemoriesType, MemoryRows
      <4>2. QED
        BY <1>1, <2>1, <4>1
    <3>2. QED
      BY <3>1
  <2>3. QED
    BY <1>1, <2>1, <2>2 DEF MemoriesInv, MemoriesType
<1>3. Timely'
  <2>1. ASSUME NEW p \in prepared PROVE p.at <= clock' /\ clock' - p.at <= MaxGap
    <3>1. p.at \in Nat /\ clock \in Nat /\ p.at <= clock
      BY DEF MemoriesInv, MemoriesType, Timely
    <3>2. QED
      BY <1>1, <3>1, MemoriesAssumption
  <2>2. ASSUME NEW c \in Compactors PROVE run[c].asOf <= clock'
    <3>1. run[c].asOf \in Nat /\ clock \in Nat /\ run[c].asOf <= clock
      BY DEF MemoriesInv, MemoriesType, Timely, Runs
    <3>2. QED
      BY <1>1, <3>1
  <2>3. ASSUME NEW u \in Projects, projects[u].state = "inactive"
        PROVE  projects[u].observed + InactiveDays <= clock'
    <3>1. /\ projects[u].observed \in Nat /\ clock \in Nat
          /\ projects[u].observed + InactiveDays <= clock
      BY <2>3 DEF MemoriesInv, MemoriesType, Timely
    <3>2. QED
      BY <1>1, <3>1, MemoriesAssumption
  <2>4. QED
    BY <1>1, <2>1, <2>2, <2>3 DEF Timely
<1>4. Surveyed' /\ Kept!InactiveIsDrained'
  BY <1>1 DEF MemoriesInv, Surveyed, Undisturbed, Kept!InactiveIsDrained
<1>5. QED
  BY <1>1, <1>2, <1>3, <1>4, SameRows DEF MemoriesInv

(* The owner archives or deletes a row.                                    *)
LEMMA LifecycleStep ==
  ASSUME MemoriesInv, NEW m \in memories, Kept!SetLifecycle(m)
  PROVE  MemoriesInv'
<1>1. PICK x \in {"archived", "deleted"} :
        memories' = (memories \ {m}) \cup {[m EXCEPT !.state = x]}
  BY DEF Kept!SetLifecycle
<1>2. UNCHANGED <<clock, projects, refs, resolutions, retros, prepared, run>>
  BY DEF Kept!SetLifecycle
<1>3. RowsChange({}, {m}, x)
  <2>1. memories' = Turn(memories \cup {}, {m}, x)
    <3>1. {[n EXCEPT !.state = x] : n \in {m}} = {[m EXCEPT !.state = x]}
      OBVIOUS
    <3>2. memories \cup {} = memories
      OBVIOUS
    <3>3. QED
      BY <1>1, <3>1, <3>2 DEF Turn
  <2>2. IsFiniteSet({})
    BY FS_EmptySet
  <2>3. \A a, b \in memories \cup {} : Kept!Key(a) = Kept!Key(b) => a = b
    BY DEF MemoriesInv, KeysUnique
  <2>4. QED
    BY <2>1, <2>2, <2>3 DEF RowsChange, States
<1>4. RowsKept({}, {m}, x)
  BY <1>3, RowsMove
<1>5. /\ memories' \subseteq MemoryRows /\ IsFiniteSet(memories')
      /\ \A n \in memories' : n.at <= clock
      /\ KeysUnique'
      /\ \A r \in retros : \A k \in r.sources :
           \E n \in memories' : Kept!Key(n) = k /\ n.state # "active"
      /\ \A n \in memories' : n.state = "cold" => \E r \in retros : Tells(r, n)
      /\ \A y \in resolutions : y.status = "resolved" =>
           \E n \in memories' : Resolves(y, n)
      /\ \A n \in memories' : n.state = "active" => n \in memories
  BY <1>4 DEF RowsKept
<1>6. MemoriesType'
  BY <1>2, <1>5 DEF MemoriesInv, MemoriesType
<1>7. Timely' /\ Surveyed' /\ Kept!InactiveIsDrained'
  BY <1>2, <1>5 DEF MemoriesInv, Timely, Surveyed, Undisturbed, Kept!InactiveIsDrained
<1>8. Folded'
  BY <1>2, <1>5 DEF Folded, Kept!Key
<1>9. Kept!NothingLost'
  BY <1>2, <1>5 DEF MemoriesInv, Kept!NothingLost, Tells, Resolves, Kept!Key, Kept!Group
<1>10. QED
  BY <1>5, <1>6, <1>7, <1>8, <1>9 DEF MemoriesInv

-----------------------------------------------------------------------------
(* Compaction.                                                             *)

(* A plan is made of the rows it is given.                                 *)
LEMMA PlanIsPart ==
  ASSUME NEW X, NEW mandatory \in SUBSET X, NEW optional \in Seq(X),
         Kept!Plan(mandatory, optional) # NONE
  PROVE  Kept!Plan(mandatory, optional) \subseteq X
<1> DEFINE Using(k) == mandatory \cup {optional[i] : i \in 1..k}
           fitting == {k \in 0..Len(optional) : Using(k) # {} /\ Kept!Fits(Using(k))}
           best == CHOOSE k \in fitting : \A j \in fitting : j <= k
<1>1. fitting # {} /\ Kept!Plan(mandatory, optional) = Using(best)
  BY DEF Kept!Plan
<1>2. Len(optional) \in Nat /\ fitting \in SUBSET (0..Len(optional))
  OBVIOUS
<1>3. best \in 0..Len(optional)
  <2> HIDE DEF fitting
  <2>1. PICK k \in fitting : \A j \in fitting : j <= k
    BY <1>1, <1>2, Sum!GreatestExists
  <2>2. QED
    BY <1>2, <2>1
<1>4. \A i \in 1..best : optional[i] \in X
  <2> HIDE DEF best
  <2> QED BY <1>3
<1>5. QED
  BY <1>1, <1>4

(* Both modules count alike.                                               *)
LEMMA SameCount ==
  ASSUME NEW X
  PROVE  Kept!Cardinality(X) = Cardinality(X)
BY DEF Cardinality, Kept!Cardinality

(* The optional rows it is given are rows that could be compacted.         *)
LEMMA OptionalArePart ==
  ASSUME NEW X, IsFiniteSet(X), NEW order \in Kept!OptionalOrders(X), NEW room \in Nat
  PROVE  SubSeq(order, 1, IF room < Len(order) THEN room ELSE Len(order)) \in Seq(X)
<1> DEFINE Y == {m \in X : m.kind \notin Kept!Mandatory}
<1>1. order \in [1..Cardinality(Y) -> Y]
  BY SameCount DEF Kept!OptionalOrders, Kept!SetToSeqs
<1>2. Cardinality(Y) \in Nat
  BY FS_Subset, FS_CardinalityType
<1>3. order \in Seq(X) /\ Len(order) \in Nat
  <2> HIDE DEF Y
  <2>1. Y \subseteq X
    BY DEF Y
  <2>2. order \in Seq(Y)
    BY <1>1, <1>2
  <2>3. QED
    BY <1>1, <1>2, <2>1, <2>2
<1>4. QED
  BY <1>3

(* Every row told of is told by the entry of its group.                    *)
LEMMA EntriesTell ==
  ASSUME MemoriesInv, NEW X \in SUBSET memories, NEW m \in X
  PROVE  \E e \in Kept!Entries(X) : Kept!Group(e) = Kept!Group(m)
<1> DEFINE g == Kept!Group(m)
           peers == {n \in X : Kept!Group(n) = g}
           times == {n.at : n \in peers}
           e == CHOOSE n \in Kept!Newest(peers) : TRUE
<1>1. m \in peers /\ peers \subseteq memories
  OBVIOUS
<1>2. clock \in Nat /\ \A n \in memories : n.at \in Nat /\ n.at <= clock
  BY DEF MemoriesInv, MemoriesType, MemoryRows
<1>3. times \in SUBSET (0..clock) /\ times # {}
  BY <1>1, <1>2
<1>4. PICK t \in times : \A u \in times : u <= t
  <2> HIDE DEF times
  <2> QED BY <1>2, <1>3, Sum!GreatestExists
<1>5. PICK n \in peers : n.at = t
  OBVIOUS
<1>6. n \in Kept!Newest(peers)
  BY <1>4, <1>5 DEF Kept!Newest
<1>7. e \in Kept!Newest(peers)
  BY <1>6
<1>8. Kept!Group(e) = g
  BY <1>7 DEF Kept!Newest
<1>9. e \in Kept!Entries(X)
  BY DEF Kept!Entries
<1>10. QED
  BY <1>8, <1>9

(* What is compacted goes cold and into a retrospective.                   *)
CompactedInto(c, ns, cold) ==
  LET q == run[c].at
      found == Kept!SourceRows(q.project, ns)
  IN /\ ns \in run[c].todo
     /\ cold \subseteq found
     /\ memories' = (memories \ cold) \cup {[m EXCEPT !.state = "cold"] : m \in cold}
     /\ retros' = retros \cup {Kept!Retrospective(q.project, ns, cold, cold, run[c].asOf)}
     /\ run' = [run EXCEPT ![c].todo = @ \ {ns}, ![c].good = @ /\ cold = found]

(* What a namespace that is not compacted leaves behind.                   *)
PassedOver(c, ns) ==
  /\ ns \in run[c].todo
  /\ UNCHANGED <<memories, retros>>
  /\ \/ Kept!Failed(c, ns)
     \/ /\ Kept!SourceRows(run[c].at.project, ns) = {}
        /\ run' = [run EXCEPT ![c].todo = @ \ {ns}]

(* One or the other happens to the namespace that is next.                 *)
LEMMA CompactionCases ==
  ASSUME MemoriesInv, NEW c \in Compactors, Kept!CompactNamespace(c)
  PROVE  \E ns \in run[c].todo : PassedOver(c, ns) \/ \E cold : CompactedInto(c, ns, cold)
<1>1. PICK ns \in run[c].todo :
       LET q == run[c].at
           found == Kept!SourceRows(q.project, ns)
           mandatory == {m \in found : m.kind \in Kept!Mandatory}
           room == SourceLimit - Kept!Cardinality(mandatory)
       IN IF ~Kept!Eligible(c, q) \/ room < 0
          THEN Kept!Failed(c, ns) /\ UNCHANGED <<memories, retros>>
          ELSE IF found = {}
          THEN /\ run' = [run EXCEPT ![c].todo = @ \ {ns}]
               /\ UNCHANGED <<memories, retros>>
          ELSE \E order \in Kept!OptionalOrders(found) :
               LET optional == SubSeq(order, 1, IF room < Len(order) THEN room ELSE Len(order))
                   plan == Kept!Plan(mandatory, optional)
                   cold == Kept!ColdRows(plan, mandatory \cup Kept!ToSet(optional))
               IN IF plan = NONE THEN Kept!Failed(c, ns) /\ UNCHANGED <<memories, retros>>
                  ELSE /\ memories' = (memories \ cold)
                            \cup {[m EXCEPT !.state = "cold"] : m \in cold}
                       /\ retros' = retros \cup
                            {Kept!Retrospective(q.project, ns, plan, cold, run[c].asOf)}
                       /\ run' = [run EXCEPT ![c].todo = @ \ {ns},
                                             ![c].good = @ /\ cold = found]
  BY DEF Kept!CompactNamespace
<1> DEFINE q == run[c].at
           found == Kept!SourceRows(q.project, ns)
           mandatory == {m \in found : m.kind \in Kept!Mandatory}
           room == SourceLimit - Kept!Cardinality(mandatory)
           Optional(order) == SubSeq(order, 1, IF room < Len(order) THEN room ELSE Len(order))
           Chosen(order) == Kept!Plan(mandatory, Optional(order))
<1>2. IsFiniteSet(found) /\ mandatory \subseteq found /\ room \in Int
  <2>1. found \subseteq memories /\ mandatory \subseteq found
    BY DEF Kept!SourceRows
  <2>2. IsFiniteSet(memories)
    BY DEF MemoriesInv, MemoriesType
  <2>3. IsFiniteSet(found) /\ IsFiniteSet(mandatory)
    BY <2>1, <2>2, FS_Subset
  <2>4. Cardinality(mandatory) \in Nat
    BY <2>3, FS_CardinalityType
  <2> HIDE DEF found, mandatory
  <2>5. QED
    BY <2>1, <2>3, <2>4, MemoriesAssumption, SameCount
<1>3. CASE Kept!Failed(c, ns) /\ UNCHANGED <<memories, retros>>
  BY <1>3 DEF PassedOver
<1>4. CASE ~(room < 0) /\ \E order \in Kept!OptionalOrders(found) :
             /\ Chosen(order) # NONE
             /\ memories' = (memories \ Chosen(order))
                   \cup {[m EXCEPT !.state = "cold"] : m \in Chosen(order)}
             /\ retros' = retros \cup
                  {Kept!Retrospective(q.project, ns, Chosen(order), Chosen(order), run[c].asOf)}
             /\ run' = [run EXCEPT ![c].todo = @ \ {ns},
                                   ![c].good = @ /\ Chosen(order) = found]
  <2>1. PICK order \in Kept!OptionalOrders(found) :
             /\ Chosen(order) # NONE
             /\ memories' = (memories \ Chosen(order))
                   \cup {[m EXCEPT !.state = "cold"] : m \in Chosen(order)}
             /\ retros' = retros \cup
                  {Kept!Retrospective(q.project, ns, Chosen(order), Chosen(order), run[c].asOf)}
             /\ run' = [run EXCEPT ![c].todo = @ \ {ns},
                                   ![c].good = @ /\ Chosen(order) = found]
    BY <1>4
  <2>2. Chosen(order) \subseteq found
    <3> HIDE DEF found, mandatory, room
    <3>1. room \in Nat
      BY <1>2, <1>4
    <3>2. Optional(order) \in Seq(found)
      BY <1>2, <3>1, OptionalArePart
    <3> HIDE DEF Optional
    <3>3. QED
      BY <1>2, <2>1, <3>2, PlanIsPart
  <2> HIDE DEF Chosen
  <2>3. CompactedInto(c, ns, Chosen(order))
    BY <2>1, <2>2 DEF CompactedInto
  <2>4. QED
    BY <2>3
<1>5. CASE found = {} /\ run' = [run EXCEPT ![c].todo = @ \ {ns}]
           /\ UNCHANGED <<memories, retros>>
  BY <1>5 DEF PassedOver
<1>6. QED
  BY <1>1, <1>3, <1>4, <1>5 DEF Kept!ColdRows

(* One compactor goes on with less to do; nothing else changes.            *)
LEMMA LessToDo ==
  ASSUME MemoriesInv, NEW c \in Compactors, NEW ns \in Namespaces, NEW good \in BOOLEAN,
         run' = [run EXCEPT ![c].todo = @ \ {ns}, ![c].good = good]
  PROVE  /\ run' \in [Compactors -> Runs]
         /\ \A d \in Compactors : /\ run'[d].pc = run[d].pc /\ run'[d].at = run[d].at
                                  /\ run'[d].asOf = run[d].asOf
         /\ \A d \in Compactors \ {c} : run'[d] = run[d]
         /\ run'[c].todo = run[c].todo \ {ns} /\ run'[c].good = good
<1>1. run \in [Compactors -> Runs]
  BY DEF MemoriesInv, MemoriesType
<1>2. run' \in [Compactors -> Runs]
  <2> DEFINE less == run[c].todo \ {ns}
             q == [run[c] EXCEPT !.todo = less, !.good = good]
  <2>1. run[c] \in Runs /\ less \in SUBSET Namespaces
    BY <1>1 DEF Runs
  <2> HIDE DEF less
  <2>2. q \in Runs
    BY <2>1 DEF Runs
  <2>3. run' = [run EXCEPT ![c] = q]
    BY <1>1 DEF less
  <2> HIDE DEF q
  <2>4. QED
    BY <1>1, <2>2, <2>3
<1>3. \A d \in Compactors \ {c} : run'[d] = run[d]
  BY <1>1
<1>4. /\ run'[c].pc = run[c].pc /\ run'[c].at = run[c].at /\ run'[c].asOf = run[c].asOf
      /\ run'[c].todo = run[c].todo \ {ns} /\ run'[c].good = good
  BY <1>1 DEF Runs
<1>5. QED
  BY <1>2, <1>3, <1>4

(* A namespace is passed over.                                             *)
LEMMA PassedOverStep ==
  ASSUME MemoriesInv, NEW c \in Compactors, NEW ns \in run[c].todo, run[c].pc = "compact",
         PassedOver(c, ns), UNCHANGED <<clock, projects, refs, resolutions, prepared>>
  PROVE  MemoriesInv'
<1>1. UNCHANGED <<memories, retros, clock, projects, refs, resolutions, prepared>>
  BY DEF PassedOver
<1>2. ns \in Namespaces /\ run[c].good \in BOOLEAN
      /\ run \in [Compactors -> Runs] /\ run[c] \in Runs
  BY DEF MemoriesInv, MemoriesType, Runs
<1>3. PICK good \in BOOLEAN :
        /\ run' = [run EXCEPT ![c].todo = @ \ {ns}, ![c].good = good]
        /\ good => run[c].good /\ Kept!SourceRows(run[c].at.project, ns) = {}
  <2>1. CASE Kept!Failed(c, ns)
    <3>1. run' = [run EXCEPT ![c].todo = @ \ {ns}, ![c].good = FALSE]
      BY <2>1 DEF Kept!Failed
    <3>2. QED
      BY <3>1
  <2>2. CASE /\ Kept!SourceRows(run[c].at.project, ns) = {}
             /\ run' = [run EXCEPT ![c].todo = @ \ {ns}]
    <3>1. run' = [run EXCEPT ![c].todo = @ \ {ns}, ![c].good = run[c].good]
      BY <1>2, <2>2 DEF Runs
    <3>2. QED
      BY <1>2, <2>2, <3>1
  <2>3. QED
    BY <2>1, <2>2 DEF PassedOver
<1>4. /\ run' \in [Compactors -> Runs]
      /\ \A d \in Compactors : /\ run'[d].pc = run[d].pc /\ run'[d].at = run[d].at
                               /\ run'[d].asOf = run[d].asOf
      /\ \A d \in Compactors \ {c} : run'[d] = run[d]
      /\ run'[c].todo = run[c].todo \ {ns} /\ run'[c].good = good
  BY <1>2, <1>3, LessToDo
<1>5. MemoriesType' /\ Timely'
  BY <1>1, <1>4 DEF MemoriesInv, MemoriesType, Timely
<1>6. ASSUME NEW d \in Compactors, Undisturbed(d)',
             NEW m \in memories', m.project = run'[d].at.project, m.state = "active"
      PROVE  m.ns \in run'[d].todo
  <2>1. Undisturbed(d)
    BY <1>1, <1>3, <1>4, <1>6 DEF Undisturbed
  <2>2. m.ns \in run[d].todo
    BY <1>1, <1>4, <1>6, <2>1 DEF MemoriesInv, Surveyed
  <2>3. CASE d = c
    <3>1. Kept!SourceRows(run[c].at.project, ns) = {}
      BY <1>3, <1>4, <1>6, <2>3 DEF Undisturbed
    <3>2. m.ns # ns
      BY <1>1, <1>4, <1>6, <2>3, <3>1 DEF Kept!SourceRows
    <3>3. QED
      BY <1>4, <2>2, <2>3, <3>2
  <2>4. QED
    BY <1>4, <2>2, <2>3, SMTT(60)
<1>7. Kept!InactiveIsDrained'
  BY <1>1 DEF MemoriesInv, Kept!InactiveIsDrained
<1>8. QED
  BY <1>1, <1>5, <1>6, <1>7, SameRows DEF MemoriesInv, Surveyed

(* Rows of a namespace go cold.                                            *)
LEMMA CompactedStep ==
  ASSUME MemoriesInv, NEW c \in Compactors, NEW ns \in run[c].todo, run[c].pc = "compact",
         NEW cold, CompactedInto(c, ns, cold),
         UNCHANGED <<clock, projects, refs, resolutions, prepared>>
  PROVE  MemoriesInv'
<1> DEFINE q == run[c].at
           found == Kept!SourceRows(q.project, ns)
           tale == Kept!Retrospective(q.project, ns, cold, cold, run[c].asOf)
<1>1. /\ cold \subseteq found
      /\ memories' = (memories \ cold) \cup {[m EXCEPT !.state = "cold"] : m \in cold}
      /\ retros' = retros \cup {tale}
      /\ run' = [run EXCEPT ![c].todo = @ \ {ns}, ![c].good = @ /\ cold = found]
  BY DEF CompactedInto
<1>2. ns \in Namespaces /\ run[c].good \in BOOLEAN
  BY DEF MemoriesInv, MemoriesType, Runs
<1>3. /\ cold \subseteq memories
      /\ \A m \in cold : m.project = q.project /\ m.ns = ns /\ m.state = "active"
      /\ \A m \in memories : m.project = q.project /\ m.ns = ns /\ m.state = "active" =>
           m \in found
  BY <1>1 DEF Kept!SourceRows
<1>4. /\ tale.project = q.project /\ tale.ns = ns
      /\ tale.sources = {Kept!Key(m) : m \in cold}
      /\ \A m \in cold : Kept!Group(m) \in tale.entries
  <2>1. \A m \in cold : Kept!Group(m) \in {Kept!Group(e) : e \in Kept!Entries(cold)}
    <3>1. ASSUME NEW m \in cold
          PROVE  Kept!Group(m) \in {Kept!Group(e) : e \in Kept!Entries(cold)}
      <4>1. PICK e \in Kept!Entries(cold) : Kept!Group(e) = Kept!Group(m)
        BY <1>3, EntriesTell
      <4>2. QED
        BY <4>1
    <3>2. QED
      BY <3>1
  <2>2. QED
    BY <2>1 DEF Kept!Retrospective
<1> HIDE DEF tale, found
<1>5. RowsChange({}, cold, "cold")
  <2>1. memories' = Turn(memories \cup {}, cold, "cold")
    <3>1. memories \cup {} = memories
      OBVIOUS
    <3>2. QED
      BY <1>1, <3>1 DEF Turn
  <2>2. IsFiniteSet({})
    BY FS_EmptySet
  <2>3. \A a, b \in memories \cup {} : Kept!Key(a) = Kept!Key(b) => a = b
    BY DEF MemoriesInv, KeysUnique
  <2>4. QED
    BY <1>3, <2>1, <2>2, <2>3 DEF RowsChange, States
<1>6. RowsKept({}, cold, "cold")
  BY <1>5, RowsMove
<1>7. /\ memories' \subseteq MemoryRows /\ IsFiniteSet(memories')
      /\ \A n \in memories' : n.at <= clock
      /\ KeysUnique'
      /\ \A r \in retros : \A k \in r.sources :
           \E n \in memories' : Kept!Key(n) = k /\ n.state # "active"
      /\ \A n \in memories' : n.state = "cold" =>
           (\E r \in retros : Tells(r, n)) \/ \E m \in cold : n = Turned(m, cold, "cold")
      /\ \A y \in resolutions : y.status = "resolved" =>
           \E n \in memories' : Resolves(y, n)
      /\ \A n \in memories' : n.state = "active" => n \in memories \ cold
  BY <1>6 DEF RowsKept
<1>8. \A m \in cold :
        /\ Turned(m, cold, "cold") \in memories'
        /\ Turned(m, cold, "cold").state = "cold"
        /\ Turned(m, cold, "cold").project = m.project
        /\ Turned(m, cold, "cold").ns = m.ns
        /\ Kept!Key(Turned(m, cold, "cold")) = Kept!Key(m)
        /\ Kept!Group(Turned(m, cold, "cold")) = Kept!Group(m)
  <2>1. ASSUME NEW m \in cold PROVE m \in MemoryRows
    BY <1>3 DEF MemoriesInv, MemoriesType
  <2>2. "cold" \in States
    BY DEF States
  <2>3. \A m \in cold : Turned(m, cold, "cold") \in memories'
    BY <1>1 DEF Turned
  <2>4. QED
    BY <2>1, <2>2, <2>3, TurnedRow
<1>9. /\ run' \in [Compactors -> Runs]
      /\ \A d \in Compactors : /\ run'[d].pc = run[d].pc /\ run'[d].at = run[d].at
                               /\ run'[d].asOf = run[d].asOf
      /\ \A d \in Compactors \ {c} : run'[d] = run[d]
      /\ run'[c].todo = run[c].todo \ {ns}
      /\ run'[c].good = (run[c].good /\ cold = found)
  <2> DEFINE good == run[c].good /\ cold = found
  <2>1. good \in BOOLEAN
    BY <1>2
  <2>2. run' = [run EXCEPT ![c].todo = @ \ {ns}, ![c].good = good]
    <3>1. run \in [Compactors -> Runs] /\ run[c] \in Runs
      BY DEF MemoriesInv, MemoriesType
    <3>2. QED
      BY <1>1, <3>1 DEF Runs
  <2> HIDE DEF good
  <2>3. /\ run' \in [Compactors -> Runs]
        /\ \A d \in Compactors : /\ run'[d].pc = run[d].pc /\ run'[d].at = run[d].at
                                 /\ run'[d].asOf = run[d].asOf
        /\ \A d \in Compactors \ {c} : run'[d] = run[d]
        /\ run'[c].todo = run[c].todo \ {ns} /\ run'[c].good = good
    BY <1>2, <2>1, <2>2, LessToDo
  <2>4. QED
    BY <2>3 DEF good
<1>10. MemoriesType' /\ Timely'
  BY <1>7, <1>9 DEF MemoriesInv, MemoriesType, Timely
<1>11. ASSUME NEW d \in Compactors, Undisturbed(d)',
              NEW m \in memories', m.project = run'[d].at.project, m.state = "active"
       PROVE  m.ns \in run'[d].todo
  <2>1. Undisturbed(d) /\ m \in memories \ cold
    BY <1>7, <1>9, <1>11 DEF Undisturbed
  <2>2. m.ns \in run[d].todo
    BY <1>9, <1>11, <2>1 DEF MemoriesInv, Surveyed
  <2>3. CASE d = c
    <3>1. cold = found
      BY <1>9, <1>11, <2>3 DEF Undisturbed
    <3>2. m.ns # ns
      BY <1>3, <1>9, <1>11, <2>1, <2>3, <3>1
    <3>3. QED
      BY <1>9, <2>2, <2>3, <3>2
  <2>4. QED
    BY <1>9, <2>2, <2>3
<1>12. ASSUME NEW r \in retros', NEW k \in r.sources
       PROVE  \E n \in memories' : Kept!Key(n) = k /\ n.state # "active"
  <2>1. CASE r \in retros
    BY <1>7, <2>1
  <2>2. CASE r = tale
    <3>1. PICK m \in cold : k = Kept!Key(m)
      BY <1>4, <2>2
    <3>2. QED
      BY <1>8, <3>1
  <2>3. QED
    BY <1>1, <2>1, <2>2
<1>13. Folded'
  BY <1>12 DEF Folded, Kept!Key
<1>14. ASSUME NEW n \in memories', n.state = "cold"
       PROVE  \E r \in retros' : Tells(r, n)
  <2>1. CASE \E r \in retros : Tells(r, n)
    BY <1>1, <2>1
  <2>2. CASE \E m \in cold : n = Turned(m, cold, "cold")
    <3>1. PICK m \in cold : n = Turned(m, cold, "cold")
      BY <2>2
    <3>2. n.project = q.project /\ n.ns = ns
      BY <1>3, <1>8, <3>1
    <3>3. Kept!Key(n) \in tale.sources /\ Kept!Group(n) \in tale.entries
      BY <1>4, <1>8, <3>1
    <3>4. Tells(tale, n)
      BY <1>4, <3>2, <3>3 DEF Tells
    <3>5. QED
      BY <1>1, <3>4
  <2>3. QED
    BY <1>7, <1>14, <2>1, <2>2
<1>15. ASSUME NEW r \in retros PROVE r.sources \cap tale.sources = {}
  <2>1. ASSUME NEW k, k \in r.sources, k \in tale.sources PROVE FALSE
    <3>1. PICK m \in memories : Kept!Key(m) = k /\ m.state # "active"
      BY <2>1 DEF MemoriesInv, Folded
    <3>2. PICK n \in cold : k = Kept!Key(n)
      BY <1>4, <2>1
    <3>3. m = n
      BY <1>3, <3>1, <3>2 DEF MemoriesInv, KeysUnique
    <3>4. QED
      BY <1>3, <3>1, <3>3
  <2>2. QED
    BY <2>1
<1>16. ASSUME NEW r \in retros', NEW t \in retros', r # t
       PROVE  r.sources \cap t.sources = {}
  <2>1. CASE r \in retros /\ t \in retros
    BY <1>16, <2>1 DEF MemoriesInv, Kept!NothingLost
  <2>2. CASE r \in retros /\ t = tale
    BY <1>15, <2>2
  <2>3. CASE t \in retros /\ r = tale
    BY <1>15, <2>3
  <2>4. QED
    BY <1>1, <1>16, <2>1, <2>2, <2>3
<1>17. Kept!NothingLost'
  <2>1. \A y \in resolutions' : y.status = "resolved" => \E n \in memories' : Resolves(y, n)
    BY <1>7
  <2>2. QED
    BY <1>14, <1>16, <2>1 DEF Kept!NothingLost, Tells, Resolves, Kept!Key, Kept!Group
<1>18. Kept!InactiveIsDrained'
  BY <1>7 DEF MemoriesInv, Kept!InactiveIsDrained
<1>19. QED
  BY <1>7, <1>10, <1>11, <1>13, <1>17, <1>18 DEF MemoriesInv, Surveyed

(* A namespace is compacted, or not.                                       *)
LEMMA CompactNamespaceStep ==
  ASSUME MemoriesInv, NEW c \in Compactors,
         Kept!CompactNamespace(c) \/ Kept!FailNamespace(c)
  PROVE  MemoriesInv'
<1>1. /\ run[c].pc = "compact"
      /\ UNCHANGED <<clock, projects, refs, resolutions, prepared>>
  BY DEF Kept!CompactNamespace, Kept!FailNamespace
<1>2. CASE Kept!CompactNamespace(c)
  <2>1. PICK ns \in run[c].todo : PassedOver(c, ns) \/ \E cold : CompactedInto(c, ns, cold)
    BY <1>2, CompactionCases
  <2>2. CASE PassedOver(c, ns)
    BY <1>1, <2>2, PassedOverStep
  <2>3. CASE \E cold : CompactedInto(c, ns, cold)
    BY <1>1, <2>3, CompactedStep
  <2>4. QED
    BY <2>1, <2>2, <2>3
<1>3. CASE Kept!FailNamespace(c)
  <2>1. PICK ns \in run[c].todo : Kept!Failed(c, ns)
    BY <1>3 DEF Kept!FailNamespace
  <2>2. UNCHANGED <<memories, retros>>
    BY <1>3 DEF Kept!FailNamespace
  <2>3. PassedOver(c, ns)
    BY <2>1, <2>2 DEF PassedOver
  <2>4. QED
    BY <1>1, <2>3, PassedOverStep
<1>4. QED
  BY <1>2, <1>3

(* A run starts, takes its next project or ends: what it starts with is    *)
(* what there is.                                                          *)
LEMMA RunStep ==
  ASSUME MemoriesInv, NEW c \in Compactors,
         Kept!Select(c) \/ Kept!Enumerate(c) \/ Kept!Leave(c)
  PROVE  MemoriesInv'
<1>1. UNCHANGED <<clock, projects, memories, refs, resolutions, retros, prepared>>
  BY DEF Kept!Select, Kept!Enumerate, Kept!Leave
<1>2. /\ run \in [Compactors -> Runs] /\ clock \in Nat
      /\ \A d \in Compactors : run[d].asOf <= clock
      /\ \A d \in Compactors : run[d].pc = "compact" => run[d].at \in Candidates
  BY DEF MemoriesInv, MemoriesType, Timely
<1>3. \A m \in memories : m.ns \in Namespaces
  BY DEF MemoriesInv, MemoriesType, MemoryRows
<1>4. /\ run' \in [Compactors -> Runs]
      /\ \A d \in Compactors : run'[d].asOf <= clock
      /\ \A d \in Compactors \ {c} : run'[d] = run[d]
      /\ run'[c].pc = "compact" =>
           \/ run'[c].at = run[c].at /\ run'[c].good = run[c].good /\ run[c].pc = "compact"
              /\ run'[c].todo = run[c].todo /\ run'[c].asOf = run[c].asOf
           \/ run'[c].at \in Candidates
              /\ run'[c].todo = Kept!NamespacesOf(run'[c].at.project)
  <2>1. CASE Kept!Select(c)
    <3>1. run' = [run EXCEPT ![c] = [Kept!Idle EXCEPT !.pc = "next", !.asOf = clock,
                                                     !.queue = Kept!Dormant(clock)]]
      BY <2>1 DEF Kept!Select
    <3>2. Kept!Dormant(clock) \subseteq Candidates
      <4>1. \A u \in Projects : projects[u].observed \in Nat
        BY DEF MemoriesInv, MemoriesType
      <4>2. QED
        BY <4>1 DEF Kept!Dormant, Candidates
    <3> DEFINE D == Kept!Dormant(clock)
               start == [Kept!Idle EXCEPT !.pc = "next", !.asOf = clock, !.queue = D]
    <3>3. Kept!Idle \in Runs
      BY DEF Kept!Idle, Runs
    <3>4. start \in Runs /\ start.pc = "next" /\ start.asOf = clock
      <4> HIDE DEF D
      <4> QED BY <1>2, <3>2, <3>3 DEF D, Runs
    <3>5. run' = [run EXCEPT ![c] = start]
      BY <3>1
    <3> HIDE DEF start
    <3>6. QED
      BY <1>2, <3>4, <3>5
  <2>2. CASE Kept!Enumerate(c)
    <3>1. PICK q \in run[c].queue :
            run' = IF Kept!Eligible(c, q)
                   THEN [run EXCEPT ![c].pc = "compact", ![c].at = q, ![c].queue = @ \ {q},
                                    ![c].good = TRUE, ![c].todo = Kept!NamespacesOf(q.project)]
                   ELSE [run EXCEPT ![c].queue = @ \ {q}]
      BY <2>2 DEF Kept!Enumerate
    <3>2. q \in Candidates /\ run[c].pc = "next"
      BY <1>2, <2>2 DEF Runs, Kept!Enumerate
    <3>3. Kept!NamespacesOf(q.project) \subseteq Namespaces
      BY DEF Kept!NamespacesOf
    <3>4. CASE Kept!Eligible(c, q)
      <4>1. run' = [run EXCEPT ![c].pc = "compact", ![c].at = q, ![c].queue = @ \ {q},
                               ![c].good = TRUE, ![c].todo = Kept!NamespacesOf(q.project)]
        BY <3>1, <3>4
      <4>2. run' = [run EXCEPT ![c] =
              [pc |-> "compact", asOf |-> run[c].asOf, queue |-> run[c].queue \ {q}, at |-> q,
               todo |-> Kept!NamespacesOf(q.project), good |-> TRUE]]
        BY <1>2, <4>1 DEF Runs
      <4>3. [pc |-> "compact", asOf |-> run[c].asOf, queue |-> run[c].queue \ {q}, at |-> q,
             todo |-> Kept!NamespacesOf(q.project), good |-> TRUE] \in Runs
        BY <1>2, <3>2, <3>3 DEF Runs
      <4>4. QED
        BY <1>2, <3>2, <4>2, <4>3
    <3>5. CASE ~Kept!Eligible(c, q)
      <4>1. run' = [run EXCEPT ![c].queue = @ \ {q}]
        BY <3>1, <3>5
      <4>2. run' \in [Compactors -> Runs]
        BY <1>2, <4>1 DEF Runs
      <4>3. /\ run'[c].pc = "next" /\ run'[c].asOf = run[c].asOf
            /\ \A d \in Compactors \ {c} : run'[d] = run[d]
        BY <1>2, <3>2, <4>1 DEF Runs
      <4>4. QED
        BY <1>2, <4>2, <4>3
    <3>6. QED
      BY <3>4, <3>5
  <2>3. CASE Kept!Leave(c)
    <3>1. run' = [run EXCEPT ![c] = Kept!Idle]
      BY <2>3 DEF Kept!Leave
    <3>2. Kept!Idle \in Runs /\ Kept!Idle.pc = "idle" /\ Kept!Idle.asOf = 0
      BY DEF Kept!Idle, Runs
    <3>3. QED
      BY <1>2, <3>1, <3>2
  <2>4. QED
    BY <2>1, <2>2, <2>3
<1>5. MemoriesType'
  <2>1. \A d \in Compactors : run'[d].pc = "compact" => run'[d].at \in Candidates
    BY <1>2, <1>4
  <2>2. QED
    BY <1>1, <1>4, <2>1 DEF MemoriesInv, MemoriesType
<1>6. Timely'
  BY <1>1, <1>4 DEF MemoriesInv, Timely
<1>7. ASSUME NEW d \in Compactors, Undisturbed(d)',
             NEW m \in memories', m.project = run'[d].at.project, m.state = "active"
      PROVE  m.ns \in run'[d].todo
  <2>1. CASE d = c /\ run'[c].todo = Kept!NamespacesOf(run'[c].at.project)
    BY <1>1, <1>3, <1>7, <2>1 DEF Kept!NamespacesOf, Kept!SourceRows
  <2>2. CASE ~(d = c /\ run'[c].todo = Kept!NamespacesOf(run'[c].at.project))
    <3>1. run'[d].pc = "compact" /\ run'[d].good
      BY <1>7 DEF Undisturbed
    <3>2. /\ run'[d].at = run[d].at /\ run'[d].good = run[d].good /\ run[d].pc = "compact"
          /\ run'[d].todo = run[d].todo /\ run'[d].asOf = run[d].asOf
      BY <1>4, <2>2, <3>1
    <3>3. Undisturbed(d)
      BY <1>1, <1>7, <3>1, <3>2 DEF Undisturbed
    <3>4. QED
      BY <1>1, <1>7, <3>2, <3>3 DEF MemoriesInv, Surveyed
  <2>3. QED
    BY <2>1, <2>2
<1>8. Kept!InactiveIsDrained'
  BY <1>1 DEF MemoriesInv, Kept!InactiveIsDrained
<1>9. QED
  BY <1>1, <1>5, <1>6, <1>7, <1>8, SameRows, SMTT(60) DEF MemoriesInv, Surveyed

(* A project is marked inactive only when none of its rows is active.      *)
LEMMA MarkInactiveStep ==
  ASSUME MemoriesInv, NEW c \in Compactors, Kept!MarkInactive(c)
  PROVE  MemoriesInv'
<1> DEFINE q == run[c].at
<1>1. /\ run[c].pc = "compact" /\ run[c].todo = {}
      /\ projects' = IF run[c].good /\ Kept!Eligible(c, q)
                     THEN [projects EXCEPT ![q.project].state = "inactive"] ELSE projects
      /\ run' = [run EXCEPT ![c] = [@ EXCEPT !.pc = "next", !.at = NONE]]
      /\ UNCHANGED <<clock, memories, refs, resolutions, retros, prepared>>
  BY DEF Kept!MarkInactive
<1>2. /\ run \in [Compactors -> Runs] /\ run[c] \in Runs /\ clock \in Nat
      /\ \A d \in Compactors : run[d].asOf <= clock
      /\ q \in Candidates
  BY <1>1 DEF MemoriesInv, MemoriesType, Timely
<1>3. /\ q.project \in Projects /\ q.observed \in Nat /\ run[c].asOf \in Nat
  BY <1>2 DEF Candidates, Runs
<1>4. /\ run' \in [Compactors -> Runs] /\ run'[c].pc = "next" /\ run'[c].asOf = run[c].asOf
      /\ \A d \in Compactors \ {c} : run'[d] = run[d]
  BY <1>1, <1>2 DEF Runs
<1>5. /\ projects' \in [Projects -> [enabled : BOOLEAN, state : {"active", "inactive"},
                                     observed : Nat]]
      /\ \A v \in Projects : projects'[v].observed = projects[v].observed
      /\ \A v \in Projects : projects'[v].state = "inactive" =>
           \/ projects[v].state = "inactive"
           \/ v = q.project /\ run[c].good /\ Kept!Eligible(c, q)
  BY <1>1, <1>3 DEF MemoriesInv, MemoriesType
<1>6. MemoriesType'
  BY <1>1, <1>2, <1>4, <1>5 DEF MemoriesInv, MemoriesType
<1>7. run[c].good /\ Kept!Eligible(c, q) =>
        /\ Undisturbed(c)
        /\ projects[q.project].observed + InactiveDays <= clock
  <2>1. ASSUME run[c].good, Kept!Eligible(c, q)
        PROVE  /\ Undisturbed(c)
               /\ projects[q.project].observed + InactiveDays <= clock
    <3>1. projects[q.project].observed = q.observed /\ q.observed <= run[c].asOf - InactiveDays
      BY <2>1 DEF Kept!Eligible
    <3>2. q.observed + InactiveDays <= run[c].asOf /\ run[c].asOf <= clock
      BY <1>2, <1>3, <3>1, MemoriesAssumption
    <3>3. q.observed + InactiveDays <= clock
      BY <1>2, <1>3, <3>2, MemoriesAssumption
    <3>4. QED
      BY <1>1, <2>1, <3>1, <3>2, <3>3 DEF Undisturbed
  <2>2. QED
    BY <2>1
<1>8. Timely'
  <2>1. \A v \in Projects : projects'[v].state = "inactive" =>
          projects'[v].observed + InactiveDays <= clock
    BY <1>5, <1>7 DEF MemoriesInv, Timely
  <2>2. \A d \in Compactors : run'[d].asOf <= clock
    BY <1>2, <1>4
  <2>3. QED
    BY <1>1, <2>1, <2>2 DEF MemoriesInv, Timely
<1>9. ASSUME NEW d \in Compactors, Undisturbed(d)'
      PROVE  d # c /\ Undisturbed(d)
  <2>1. d # c
    BY <1>4, <1>9 DEF Undisturbed
  <2>2. run[d].at.project \in Projects
    BY <1>4, <1>9, <2>1 DEF MemoriesInv, MemoriesType, Undisturbed, Candidates
  <2>3. QED
    BY <1>4, <1>5, <1>9, <2>1, <2>2 DEF Undisturbed
<1>10. Surveyed'
  BY <1>1, <1>4, <1>9 DEF MemoriesInv, Surveyed
<1>11. ASSUME NEW v \in Projects, projects'[v].state = "inactive",
              NEW m \in memories, m.project = v, m.state = "active"
       PROVE  FALSE
  <2>1. CASE projects[v].state = "inactive"
    BY <1>11, <2>1 DEF MemoriesInv, Kept!InactiveIsDrained
  <2>2. CASE v = q.project /\ run[c].good /\ Kept!Eligible(c, q)
    <3>1. m.ns \in run[c].todo
      BY <1>7, <1>11, <2>2 DEF MemoriesInv, Surveyed
    <3>2. QED
      BY <1>1, <3>1
  <2>3. QED
    BY <1>5, <1>11, <2>1, <2>2
<1>12. Kept!InactiveIsDrained'
  BY <1>1, <1>11 DEF Kept!InactiveIsDrained
<1>13. QED
  BY <1>1, <1>6, <1>8, <1>10, <1>12, SameRows DEF MemoriesInv

-----------------------------------------------------------------------------
(* The memories in every reachable state.                                  *)

(* They start with none.                                                   *)
LEMMA MemoriesInit ==
  ASSUME Kept!Init
  PROVE  MemoriesInv
<1>1. /\ clock = 0 /\ memories = {} /\ refs = {} /\ resolutions = {} /\ retros = {}
      /\ prepared = {}
      /\ projects = [p \in Projects |-> [enabled |-> TRUE, state |-> "active", observed |-> 0]]
      /\ run = [c \in Compactors |-> Kept!Idle]
  BY DEF Kept!Init
<1>2. Kept!Idle \in Runs /\ Kept!Idle.pc = "idle" /\ Kept!Idle.asOf = 0
  BY DEF Kept!Idle, Runs
<1>3. IsFiniteSet(memories)
  BY <1>1, FS_EmptySet
<1>4. MemoriesType
  BY <1>1, <1>2, <1>3 DEF MemoriesType
<1>5. Timely
  BY <1>1, <1>2 DEF Timely
<1>6. Surveyed /\ KeysUnique /\ Folded
  BY <1>1, <1>2 DEF Surveyed, Undisturbed, KeysUnique, Folded
<1>7. Kept!InactiveIsDrained /\ Kept!NothingLost
  BY <1>1 DEF Kept!InactiveIsDrained, Kept!NothingLost
<1>8. QED
  BY <1>4, <1>5, <1>6, <1>7 DEF MemoriesInv

(* Every step of theirs keeps the invariant.                               *)
LEMMA MemoriesStep ==
  ASSUME MemoriesInv, [Kept!Next]_(Kept!vars)
  PROVE  MemoriesInv'
<1>1. CASE UNCHANGED Kept!vars
  <2>1. UNCHANGED <<clock, projects, memories, refs, resolutions, retros, prepared, run>>
    BY <1>1 DEF Kept!vars
  <2>2. MemoriesType' /\ Timely'
    BY <2>1 DEF MemoriesInv, MemoriesType, Timely
  <2>3. Surveyed' /\ Kept!InactiveIsDrained'
    BY <2>1 DEF MemoriesInv, Surveyed, Undisturbed, Kept!InactiveIsDrained
  <2>4. QED
    BY <2>1, <2>2, <2>3, SameRows DEF MemoriesInv
<1>2. CASE Kept!Next
  <2>1. CASE Kept!Tick
    BY <2>1, TickStep
  <2>2. CASE \E s \in Sources : Kept!Prepare(s)
    BY <2>2, PrepareStep
  <2>3. CASE \E p \in prepared : Kept!Capture(p)
    BY <2>3, CaptureStep
  <2>4. CASE \E p \in Projects : Kept!ObserveChange(p) \/ Kept!SetEnabled(p)
    BY <2>4, ProjectStep
  <2>5. CASE \E m \in memories : Kept!SetLifecycle(m)
    BY <2>5, LifecycleStep
  <2>6. CASE \E c \in Compactors : Kept!Compact(c)
    <3>1. PICK c \in Compactors : Kept!Compact(c)
      BY <2>6
    <3>2. CASE Kept!Select(c) \/ Kept!Enumerate(c) \/ Kept!Leave(c)
      BY <3>2, RunStep
    <3>3. CASE Kept!CompactNamespace(c) \/ Kept!FailNamespace(c)
      BY <3>3, CompactNamespaceStep
    <3>4. CASE Kept!MarkInactive(c)
      BY <3>4, MarkInactiveStep
    <3>5. QED
      BY <3>1, <3>2, <3>3, <3>4 DEF Kept!Compact
  <2>7. QED
    BY <1>2, <2>1, <2>2, <2>3, <2>4, <2>5, <2>6 DEF Kept!Next
<1>3. QED
  BY <1>1, <1>2

(* Compaction, however it is raced by captures and by the owner, makes a   *)
(* project inactive only when no row of it is active, and what it takes    *)
(* away is in exactly one retrospective.                                   *)
(* (services/compaction.py; the run knowledge checks it on one instance)   *)
THEOREM MemoriesKept == Spec => []MemoriesAreKept
<1> DEFINE Good == focus = "memories" => MemoriesInv
<1>1. Init => Good
  BY MemoriesInit DEF Init
<1>2. Good /\ [Next]_vars => Good'
  <2>1. ASSUME Good, [Next]_vars, focus' = "memories" PROVE MemoriesInv'
    <3>1. focus = "memories"
      <4>1. CASE UNCHANGED vars
        BY <2>1, <4>1 DEF vars
      <4>2. CASE Next
        BY <2>1, <4>2 DEF Next, KeptAlone, FactsAlone, BriefAlone, RetryAlone
      <4>3. QED
        BY <2>1, <4>1, <4>2
    <3>2. [Kept!Next]_(Kept!vars)
      BY <2>1, <3>1, MemoriesMove
    <3>3. QED
      BY <2>1, <3>1, <3>2, MemoriesStep
  <2>2. QED
    BY <2>1
<1>3. Good => MemoriesAreKept
  BY DEF MemoriesInv, MemoriesAreKept
<1>4. QED
  BY <1>1, <1>2, <1>3, PTL DEF Spec

-----------------------------------------------------------------------------
(* Recall.                                                                 *)

(* While the focus is on a recall, it moves alone.                         *)
LEMMA RecallMoves ==
  ASSUME [Next]_vars, focus = "recall"
  PROVE  focus' = "recall" /\ [Brief!Next]_(Brief!vars)
<1>1. CASE UNCHANGED vars
  BY <1>1 DEF vars, recallVars, Brief!vars
<1>2. CASE Next
  BY <1>2 DEF Next, Brief!Next, BriefAlone
<1>3. QED
  BY <1>1, <1>2

(* A call has a place where it is.                                         *)
Placed == "pc" \in DOMAIN call

(* Where a step leads to.                                                  *)
LEMMA BriefGiven ==
  ASSUME Placed, [Brief!Next]_(Brief!vars)
  PROVE  /\ Placed'
         /\ call'.pc = "brief" /\ call.pc # "brief" => Brief!GiveBrief
<1> USE DEF Placed
<1>1. CASE UNCHANGED Brief!vars
  BY <1>1 DEF Brief!vars
<1>2. CASE Brief!FindProject \/ Brief!Identify \/ Brief!CheckReads
  BY <1>2 DEF Brief!FindProject, Brief!Identify, Brief!CheckReads
<1>3. CASE \E source \in Brief!Places, query \in Brief!Queries : Brief!Search(source, query)
  BY <1>3 DEF Brief!Search
<1>4. CASE Brief!TakeMandatory
  BY <1>4 DEF Brief!TakeMandatory, Brief!Chosen
<1>5. CASE Brief!FitPrefix \/ Brief!FitLimit
  BY <1>5 DEF Brief!FitPrefix, Brief!FitLimit, Brief!Narrowed
<1>6. CASE Brief!KeepPrefix
  BY <1>6 DEF Brief!KeepPrefix, Brief!Chosen
<1>7. CASE Brief!KeepLimit
  BY <1>7, SMTT(60) DEF Brief!KeepLimit, Brief!Chosen
<1>8. CASE Brief!Enforce
  BY <1>8 DEF Brief!Enforce, Brief!Chosen
<1>9. CASE Brief!TryOptional
  BY <1>9 DEF Brief!TryOptional
<1>10. CASE Brief!CountBrief
  BY <1>10 DEF Brief!CountBrief
<1>11. CASE Brief!Trim
  BY <1>11 DEF Brief!Trim
<1>12. CASE Brief!GiveBrief
  BY <1>12 DEF Brief!GiveBrief
<1>13. CASE Brief!ChangeRows \/ Brief!ChangeProject \/ Brief!MoveDirectory
  BY <1>13 DEF Brief!ChangeRows, Brief!ChangeProject, Brief!MoveDirectory
<1>14. QED
  BY <1>1, <1>2, <1>3, <1>4, <1>5, <1>6, <1>7, <1>8, <1>9, <1>10, <1>11, <1>12, <1>13
    DEF Brief!Next

(* A brief is given only for a project that is enabled and bound to the    *)
(* directory in which the recall found it.                                 *)
(* (services/recall.py; the run knowledge checks it on one instance)       *)
THEOREM BriefsAreLive == Spec => BriefOfLiveProject
<1> DEFINE Good == focus = "recall" => Placed
           Live == focus = "recall" => Brief!BriefOfLiveProject
<1>1. Init => Good
  BY DEF Init, Brief!Init, Brief!New, Placed
<1>2. ASSUME Good, [Next]_vars, focus = "recall"
      PROVE  Placed' /\ Brief!BriefOfLiveProject
  <2>1. [Brief!Next]_(Brief!vars)
    BY <1>2, RecallMoves
  <2>2. Placed' /\ (call'.pc = "brief" /\ call.pc # "brief" => Brief!GiveBrief)
    BY <1>2, <2>1, BriefGiven
  <2>3. ASSUME Brief!GiveBrief, call'.pc = "brief"
        PROVE  project.enabled /\ project.identity = directory /\ directory = call.identity
    <3>1. Brief!StillLive
      BY <1>2, <2>3 DEF Brief!GiveBrief, Placed
    <3>2. QED
      BY <3>1 DEF Brief!StillLive, Brief!LiveIdentity
  <2>4. QED
    BY <2>2, <2>3 DEF Brief!BriefOfLiveProject
<1>3. Good /\ [Next]_vars => Good'
  <2>1. ASSUME [Next]_vars, focus' = "recall" PROVE focus = "recall"
    BY <2>1 DEF Next, vars, KeptAlone, FactsAlone, BriefAlone, RetryAlone
  <2>2. QED
    BY <1>2, <2>1
<1>4. Good /\ [Next]_vars => [Live]_vars
  BY <1>2
<1>5. QED
  BY <1>1, <1>3, <1>4, PTL DEF Spec, BriefOfLiveProject
-----------------------------------------------------------------------------
(* The retry queue.                                                        *)

(* While the focus is on the queue, it moves alone.                        *)
LEMMA RetriesMove ==
  ASSUME [Next]_vars, focus = "retries"
  PROVE  focus' = "retries" /\ [Retry!Next]_(Retry!vars)
<1>1. CASE UNCHANGED vars
  BY <1>1 DEF vars, retriesVars, Retry!vars
<1>2. CASE Next
  BY <1>2 DEF Next, Retry!Next, RetryAlone
<1>3. QED
  BY <1>1, <1>2

QueueRows == [item : Items, project : Projects, good : BOOLEAN, created : Nat, last : Nat]

RetryType ==
  /\ queue \subseteq QueueRows /\ IsFiniteSet(queue)
  /\ delivered \subseteq Items /\ enabled \subseteq Projects /\ inPlace \subseteq Projects
  /\ drain \in [pc : {"idle", "next", "capture", "failed"}, ids : Seq(Items)]
  /\ retryClock \in Nat

(* An item waits once, until it is delivered.                              *)
OneRowEach == \A a, b \in queue : a.item = b.item => a = b
NotDelivered == \A a \in queue : a.item \notin delivered

(* What is still to be tried waits, and none of it twice.                  *)
StillWaiting ==
  /\ \A n \in 1..Len(drain.ids) : drain.ids[n] \in Retry!Queued
  /\ \A m, n \in 1..Len(drain.ids) : drain.ids[m] = drain.ids[n] => m = n

(* The item of a transaction, and that its project is enabled while the    *)
(* transaction is open.                                                    *)
Opened ==
  /\ drain.pc \in {"capture", "failed"} => drain.ids # <<>>
  /\ drain.pc = "capture" => Retry!Selected.project \in enabled

RetryInv == RetryType /\ OneRowEach /\ NotDelivered /\ StillWaiting /\ Opened

(* The row of an item that waits.                                          *)
LEMMA RowOfItem ==
  ASSUME RetryInv
  PROVE  /\ \A a \in queue : Retry!Row(a.item) = a
         /\ \A i \in Retry!Queued : Retry!Row(i) \in queue /\ Retry!Row(i).item = i
<1>1. ASSUME NEW a \in queue PROVE Retry!Row(a.item) = a
  BY <1>1 DEF RetryInv, OneRowEach, Retry!Row
<1>2. QED
  BY <1>1 DEF Retry!Queued

(* The item that is tried.                                                 *)
LEMMA SelectedWaits ==
  ASSUME RetryInv, drain.ids # <<>>
  PROVE  /\ Retry!Selected \in queue /\ Retry!Selected.item = Head(drain.ids)
         /\ Tail(drain.ids) \in Seq(Items)
         /\ Len(Tail(drain.ids)) = Len(drain.ids) - 1
         /\ \A n \in 1..Len(Tail(drain.ids)) :
              /\ Tail(drain.ids)[n] = drain.ids[n + 1]
              /\ drain.ids[n + 1] # Head(drain.ids)
<1>1. drain.ids \in Seq(Items) /\ Len(drain.ids) \in Nat /\ Len(drain.ids) # 0
  BY DEF RetryInv, RetryType
<1>2. Head(drain.ids) = drain.ids[1]
  BY <1>1
<1>3. Head(drain.ids) \in Retry!Queued
  BY <1>1, <1>2 DEF RetryInv, StillWaiting
<1>4. Retry!Selected \in queue /\ Retry!Selected.item = Head(drain.ids)
  BY <1>3, RowOfItem DEF Retry!Selected
<1>5. /\ Tail(drain.ids) \in Seq(Items) /\ Len(Tail(drain.ids)) = Len(drain.ids) - 1
      /\ \A n \in 1..Len(Tail(drain.ids)) : Tail(drain.ids)[n] = drain.ids[n + 1]
  BY <1>1
<1>6. \A n \in 1..Len(Tail(drain.ids)) : drain.ids[n + 1] # Head(drain.ids)
  BY <1>1, <1>2, <1>5 DEF RetryInv, StillWaiting
<1>7. QED
  BY <1>4, <1>5, <1>6

(* Whatever else a step does, the rest of the batch waits as long as no      *)
(* item of it is taken from the queue.                                     *)
LEMMA BatchWaits ==
  ASSUME RetryInv,
         drain'.ids = drain.ids \/ (drain.ids # <<>> /\ drain'.ids = Tail(drain.ids)),
         \A i \in Retry!Queued :
           (drain.ids # <<>> /\ drain'.ids = Tail(drain.ids) /\ i = Head(drain.ids))
           \/ i \in (Retry!Queued)'
  PROVE  StillWaiting'
<1>1. CASE drain.ids # <<>> /\ drain'.ids = Tail(drain.ids)
  <2>1. drain.ids \in Seq(Items) /\ Len(drain.ids) \in Nat
    BY DEF RetryInv, RetryType
  <2>2. \A n \in 1..Len(drain'.ids) :
          /\ n + 1 \in 1..Len(drain.ids) /\ drain'.ids[n] = drain.ids[n + 1]
          /\ drain.ids[n + 1] # Head(drain.ids)
    BY <1>1, <2>1, SelectedWaits
  <2>3. \A n \in 1..Len(drain'.ids) : drain'.ids[n] \in (Retry!Queued)'
    BY <1>1, <2>2 DEF RetryInv, StillWaiting
  <2>4. \A m, n \in 1..Len(drain'.ids) : drain'.ids[m] = drain'.ids[n] => m + 1 = n + 1
    BY <2>2 DEF RetryInv, StillWaiting
  <2>5. \A m, n \in 1..Len(drain'.ids) : m + 1 = n + 1 => m = n
    BY <1>1, <2>1, SelectedWaits
  <2>6. QED
    BY <2>3, <2>4, <2>5 DEF StillWaiting
<1>2. CASE drain'.ids = drain.ids /\ ~(drain.ids # <<>> /\ drain'.ids = Tail(drain.ids))
  BY <1>2 DEF RetryInv, StillWaiting
<1>3. QED
  BY <1>1, <1>2

(* A step that leaves the queue as it is.                                  *)
LEMMA QueueStays ==
  ASSUME RetryInv, UNCHANGED <<queue, delivered>>
  PROVE  OneRowEach' /\ NotDelivered' /\ Retry!DeliveredOrKept
  BY DEF RetryInv, OneRowEach, NotDelivered, Retry!DeliveredOrKept

(* A capture is queued.                                                    *)
LEMMA EnqueueStep ==
  ASSUME RetryInv, NEW i \in Items, NEW p \in Projects, Retry!Enqueue(i, p)
  PROVE  RetryInv' /\ Retry!DeliveredOrKept
<1>1. PICK a \in QueueRows :
        /\ a.item = i /\ queue' = queue \cup {a}
        /\ i \notin Retry!Queued /\ i \notin delivered
        /\ retryClock' = retryClock + 1
        /\ UNCHANGED <<delivered, enabled, inPlace, drain>>
  BY DEF Retry!Enqueue, QueueRows, RetryInv, RetryType
<1>2. RetryType'
  <2>1. IsFiniteSet(queue')
    BY <1>1, FS_AddElement DEF RetryInv, RetryType
  <2>2. QED
    BY <1>1, <2>1 DEF RetryInv, RetryType
<1>3. OneRowEach' /\ NotDelivered'
  BY <1>1 DEF RetryInv, OneRowEach, NotDelivered, Retry!Queued
<1>4. StillWaiting'
  BY <1>1, BatchWaits DEF Retry!Queued
<1>5. Opened'
  <2>1. ASSUME drain.pc = "capture" PROVE (Retry!Selected)' = Retry!Selected
    <3>1. Retry!Selected \in queue /\ Retry!Selected.item = Head(drain.ids)
      BY <2>1, SelectedWaits DEF RetryInv, Opened
    <3>2. Retry!Selected \in queue' /\ \A c, d \in queue' : c.item = d.item => c = d
      BY <1>1, <1>3, <3>1 DEF OneRowEach
    <3>3. QED
      BY <1>1, <3>1, <3>2 DEF Retry!Selected, Retry!Row
  <2>2. QED
    BY <1>1, <2>1 DEF RetryInv, Opened
<1>6. Retry!DeliveredOrKept
  BY <1>1, <1>3 DEF Retry!DeliveredOrKept, NotDelivered
<1>7. QED
  BY <1>2, <1>3, <1>4, <1>5, <1>6 DEF RetryInv

(* How many rows there are.                                                *)
LEMMA CountOfRows ==
  ASSUME NEW S, IsFiniteSet(S)
  PROVE  Retry!Cardinality(S) \in Nat
<1>1. Retry!Cardinality(S) = Cardinality(S)
  BY DEF Cardinality, Retry!Cardinality
<1>2. QED
  BY <1>1, FS_CardinalityType

(* The rows of a drain, in the order of their turn.                        *)
LEMMA DrainOrder ==
  ASSUME RetryInv, Retry!StartDrain
  PROVE  \E k \in Nat : \E order \in [1..k -> queue], batch \in 0..k :
           /\ Retry!InTurn(order)
           /\ drain' = [pc |-> "next", ids |-> [n \in 1..batch |-> order[n].item]]
<1>1. PICK order \in [1..Retry!Cardinality(queue) -> queue] :
        /\ Retry!InTurn(order)
        /\ drain' = [pc |-> "next", ids |-> [n \in 1..Retry!Batch |-> order[n].item]]
  BY DEF Retry!StartDrain
<1>2. Retry!Cardinality(queue) \in Nat
  BY CountOfRows DEF RetryInv, RetryType
<1>3. Retry!Batch \in 0..Retry!Cardinality(queue)
  BY <1>2, RetryAssumption DEF Retry!Batch
<1>4. QED
  BY <1>1, <1>2, <1>3

(* A drain begins.                                                         *)
LEMMA StartStep ==
  ASSUME RetryInv, Retry!StartDrain
  PROVE  RetryInv' /\ Retry!DeliveredOrKept /\ Retry!NoOvertaking
<1>0. PICK k \in Nat : \E order \in [1..k -> queue], batch \in 0..k :
        /\ Retry!InTurn(order)
        /\ drain' = [pc |-> "next", ids |-> [n \in 1..batch |-> order[n].item]]
  BY DrainOrder
<1>1. PICK order \in [1..k -> queue], batch \in 0..k :
        /\ Retry!InTurn(order)
        /\ drain' = [pc |-> "next", ids |-> [n \in 1..batch |-> order[n].item]]
  BY <1>0
<1>2. UNCHANGED <<queue, delivered, enabled, inPlace, retryClock>>
  BY DEF Retry!StartDrain
<1>3. /\ drain'.pc = "next" /\ drain'.ids = [n \in 1..batch |-> order[n].item]
      /\ \A n \in 1..batch : n \in 1..k /\ order[n] \in queue /\ drain'.ids[n] = order[n].item
  BY <1>1
<1>4. \A n \in 1..batch : order[n].item \in Items
  BY <1>3 DEF RetryInv, RetryType, QueueRows
<1>5. drain'.ids \in Seq(Items) /\ Len(drain'.ids) = batch /\ DOMAIN drain'.ids = 1..batch
  BY <1>3, <1>4
<1>6. RetryType'
  BY <1>1, <1>2, <1>3, <1>5 DEF RetryInv, RetryType
<1>7. \A m, n \in 1..k : order[m] = order[n] => m = n
  <2> SUFFICES ASSUME NEW m \in 1..k, NEW n \in 1..k, order[m] = order[n] PROVE m = n
    OBVIOUS
  <2>1. ~(m < n) /\ ~(n < m)
    BY <1>1 DEF Retry!InTurn
  <2>2. QED
    BY <2>1
<1>8. StillWaiting'
  <2>1. \A n \in 1..batch : drain'.ids[n] \in (Retry!Queued)'
    BY <1>2, <1>3 DEF Retry!Queued
  <2>2. \A m, n \in 1..batch : drain'.ids[m] = drain'.ids[n] => m = n
    BY <1>3, <1>7 DEF RetryInv, OneRowEach
  <2>3. QED
    BY <1>5, <2>1, <2>2 DEF StillWaiting
<1>9. OneRowEach' /\ NotDelivered' /\ Retry!DeliveredOrKept
  BY <1>2, QueueStays
<1>10. Opened'
  BY <1>3 DEF Opened
<1>11. Retry!NoOvertaking
  <2> SUFFICES ASSUME NEW n \in 1..batch, NEW again \in queue, again = order[n], again.last # 0,
                      NEW a \in queue, a.created < again.last, a.last < again.last
               PROVE  \E m \in 1..(n - 1) : drain'.ids[m] = a.item
    <3>1. \A n \in DOMAIN drain'.ids :
            /\ n \in 1..batch /\ order[n] \in queue
            /\ Retry!Row(drain'.ids[n]) = order[n]
      BY <1>3, <1>5, RowOfItem
    <3>2. QED
      BY <3>1 DEF Retry!NoOvertaking
  <2>1. PICK m \in 1..k : order[m] = a
    BY <1>1 DEF Retry!InTurn
  <2>2. a.last \in Nat /\ again.last \in Nat
    BY DEF RetryInv, RetryType, QueueRows
  <2>3. Retry!ComesBefore(a, again)
    BY <2>2 DEF Retry!ComesBefore
  <2>4. n \in 1..k /\ ~(n < m)
    <3>1. n \in 1..k /\ DOMAIN order = 1..k
      BY <1>1
    <3>2. QED
      BY <1>1, <2>1, <2>3, <3>1 DEF Retry!InTurn
  <2>5. m # n
    BY <2>1, <2>2
  <2>6. m \in 1..(n - 1) /\ m \in 1..batch
    BY <2>4, <2>5
  <2>7. QED
    BY <1>3, <2>1, <2>6
<1>12. QED
  BY <1>6, <1>8, <1>9, <1>10, <1>11 DEF RetryInv

(* The steps of a drain that leave the queue as it is, and what happens to  *)
(* the projects meanwhile: an open transaction holds the registry.          *)
LEMMA DrainStep ==
  ASSUME RetryInv,
         \/ Retry!EndDrain \/ Retry!OpenItem \/ Retry!Kill
         \/ \E p \in Projects : Retry!SetEnabled(p) \/ Retry!Move(p)
  PROVE  RetryInv' /\ Retry!DeliveredOrKept
<1>1. /\ UNCHANGED <<queue, delivered, retryClock>>
      /\ enabled' \subseteq Projects /\ inPlace' \subseteq Projects
      /\ enabled' = enabled \/ drain.pc # "capture"
  BY DEF Retry!EndDrain, Retry!OpenItem, Retry!Kill, Retry!SetEnabled, Retry!Move,
         RetryInv, RetryType
<1>2. \/ drain' = Retry!Resting
      \/ drain' = drain /\ (drain.pc = "capture" => enabled' = enabled)
      \/ \E t \in {"capture", "failed"} :
           /\ drain' = [drain EXCEPT !.pc = t] /\ drain.ids # <<>> /\ UNCHANGED enabled
           /\ t = "capture" => Retry!Selected.project \in enabled
  BY DEF Retry!EndDrain, Retry!OpenItem, Retry!Kill, Retry!SetEnabled, Retry!Move, Retry!To,
         Retry!Verified
<1>3. drain' \in [pc : {"idle", "next", "capture", "failed"}, ids : Seq(Items)]
  <2>1. Retry!Resting \in [pc : {"idle", "next", "capture", "failed"}, ids : Seq(Items)]
    BY DEF Retry!Resting
  <2>2. drain \in [pc : {"idle", "next", "capture", "failed"}, ids : Seq(Items)]
    BY DEF RetryInv, RetryType
  <2>3. QED
    BY <1>2, <2>1, <2>2
<1>4. RetryType'
  BY <1>1, <1>3 DEF RetryInv, RetryType
<1>5. StillWaiting'
  <2>1. CASE drain' = Retry!Resting
    BY <2>1 DEF Retry!Resting, StillWaiting
  <2>2. CASE drain'.ids = drain.ids
    BY <1>1, <2>2 DEF RetryInv, StillWaiting, Retry!Queued
  <2>3. drain' = Retry!Resting \/ drain'.ids = drain.ids
    BY <1>2 DEF RetryInv, RetryType
  <2>4. QED
    BY <2>1, <2>2, <2>3
<1>6. Opened'
  <2>1. CASE drain' = Retry!Resting
    BY <2>1 DEF Retry!Resting, Opened
  <2>2. ASSUME drain'.ids = drain.ids PROVE (Retry!Selected)' = Retry!Selected
    BY <1>1, <2>2 DEF Retry!Selected, Retry!Row
  <2>3. CASE drain' = drain /\ (drain.pc = "capture" => enabled' = enabled)
    BY <2>2, <2>3 DEF RetryInv, Opened
  <2>4. CASE \E t \in {"capture", "failed"} :
               /\ drain' = [drain EXCEPT !.pc = t] /\ drain.ids # <<>> /\ UNCHANGED enabled
               /\ t = "capture" => Retry!Selected.project \in enabled
    <3>1. PICK t \in {"capture", "failed"} :
            /\ drain' = [drain EXCEPT !.pc = t] /\ drain.ids # <<>> /\ UNCHANGED enabled
            /\ t = "capture" => Retry!Selected.project \in enabled
      BY <2>4
    <3>2. drain'.pc = t /\ drain'.ids = drain.ids
      BY <3>1 DEF RetryInv, RetryType
    <3>3. QED
      BY <2>2, <3>1, <3>2 DEF Opened
  <2>5. QED
    BY <1>2, <2>1, <2>3, <2>4
<1>7. QED
  BY <1>1, <1>4, <1>5, <1>6, QueueStays DEF RetryInv

(* The item of the transaction is delivered and removed together.           *)
LEMMA CaptureItemStep ==
  ASSUME RetryInv, Retry!CaptureItem
  PROVE  RetryInv' /\ Retry!DeliveredOrKept
<1>1. drain.pc = "capture" /\ drain.ids # <<>> /\ Retry!Selected.project \in enabled
      /\ UNCHANGED <<enabled, inPlace, retryClock>>
  BY DEF Retry!CaptureItem, RetryInv, Opened
<1>2. PICK a \in queue : /\ a = Retry!Selected /\ a.item = Head(drain.ids)
                         /\ Retry!Row(a.item) = a
  BY <1>1, SelectedWaits, RowOfItem
<1>3. CASE /\ Retry!StillVerified(Retry!Selected.project)
           /\ delivered' = delivered \cup {Retry!Selected.item}
           /\ queue' = Retry!WithoutItem(Retry!Selected.item)
           /\ drain' = [pc |-> "next", ids |-> Tail(drain.ids)]
  <2>1. /\ delivered' = delivered \cup {a.item} /\ queue' = queue \ {a}
        /\ drain' = [pc |-> "next", ids |-> Tail(drain.ids)]
        /\ a.project \in inPlace /\ a.project \in enabled
    BY <1>1, <1>2, <1>3 DEF Retry!StillVerified, Retry!WithoutItem
  <2>2. RetryType'
    <3>1. IsFiniteSet(queue')
      BY <2>1, FS_RemoveElement DEF RetryInv, RetryType
    <3>2. a.item \in Items /\ queue' \subseteq QueueRows
      BY <2>1 DEF RetryInv, RetryType, QueueRows
    <3>3. QED
      BY <1>1, <2>1, <3>1, <3>2, SelectedWaits DEF RetryInv, RetryType
  <2>3. \A b \in queue : b # a => b \in queue' /\ b.item # a.item
    BY <2>1 DEF RetryInv, OneRowEach
  <2>4. OneRowEach' /\ NotDelivered'
    BY <2>1, <2>3 DEF RetryInv, OneRowEach, NotDelivered
  <2>5. StillWaiting'
    <3>1. \A i \in Retry!Queued : i = Head(drain.ids) \/ i \in (Retry!Queued)'
      BY <1>2, <2>3 DEF Retry!Queued
    <3>2. QED
      BY <1>1, <2>1, <3>1, BatchWaits
  <2>6. Opened'
    BY <2>1 DEF Opened
  <2>7. Retry!DeliveredOrKept
    BY <2>1, <2>3, <2>4 DEF Retry!DeliveredOrKept, Retry!Verified, NotDelivered
  <2>8. QED
    BY <2>2, <2>4, <2>5, <2>6, <2>7 DEF RetryInv
<1>4. CASE Retry!To("failed") /\ UNCHANGED <<queue, delivered>>
  <2>1. /\ drain' \in [pc : {"idle", "next", "capture", "failed"}, ids : Seq(Items)]
        /\ drain'.pc = "failed" /\ drain'.ids = drain.ids
    BY <1>4 DEF Retry!To, RetryInv, RetryType
  <2>2. RetryType' /\ Opened'
    BY <1>1, <1>4, <2>1 DEF RetryInv, RetryType, Opened
  <2>3. StillWaiting'
    BY <1>4, <2>1, BatchWaits DEF Retry!Queued
  <2>4. QED
    BY <1>4, <2>2, <2>3, QueueStays DEF RetryInv
<1>5. QED
  BY <1>3, <1>4 DEF Retry!CaptureItem

(* A failure is noted on the item, or is not.                              *)
LEMMA RecordFailureStep ==
  ASSUME RetryInv, Retry!RecordFailure
  PROVE  RetryInv' /\ Retry!DeliveredOrKept
<1>1. /\ drain.ids # <<>> /\ drain' = [pc |-> "next", ids |-> Tail(drain.ids)]
      /\ retryClock' = retryClock + 1 /\ UNCHANGED <<delivered, enabled, inPlace>>
  BY DEF Retry!RecordFailure, RetryInv, Opened
<1>2. PICK a \in queue : /\ a = Retry!Selected /\ a.item = Head(drain.ids)
                         /\ Retry!Row(a.item) = a
  BY <1>1, SelectedWaits, RowOfItem
<1>3. PICK b \in QueueRows : b = [a EXCEPT !.last = retryClock]
  BY <1>2 DEF RetryInv, RetryType, QueueRows
<1>4. b.item = a.item /\ b.project = a.project
  BY <1>3 DEF RetryInv, RetryType, QueueRows
<1>5. queue' = (queue \ {a}) \cup {b} \/ queue' = queue
  BY <1>2, <1>3 DEF Retry!RecordFailure, Retry!WithoutItem
<1>6. RetryType' /\ Opened'
  <2>1. IsFiniteSet((queue \ {a}) \cup {b})
    <3>1. IsFiniteSet(queue \ {a})
      BY FS_RemoveElement DEF RetryInv, RetryType
    <3>2. QED
      BY <3>1, FS_AddElement
  <2>2. IsFiniteSet(queue') /\ queue' \subseteq QueueRows
    BY <1>5, <2>1 DEF RetryInv, RetryType
  <2>3. QED
    BY <1>1, <2>2, SelectedWaits DEF RetryInv, RetryType, Opened
<1>7. \A c \in queue : \E d \in queue' : d.item = c.item /\ d.project = c.project
  BY <1>4, <1>5
<1>8. OneRowEach' /\ NotDelivered'
  BY <1>1, <1>4, <1>5 DEF RetryInv, OneRowEach, NotDelivered
<1>9. StillWaiting'
  <2>1. \A i \in Retry!Queued : i \in (Retry!Queued)'
    BY <1>7 DEF Retry!Queued
  <2>2. QED
    BY <1>1, <2>1, BatchWaits
<1>10. Retry!DeliveredOrKept
  BY <1>1, <1>7, <1>8 DEF Retry!DeliveredOrKept, NotDelivered
<1>11. QED
  BY <1>6, <1>8, <1>9, <1>10 DEF RetryInv

(* Every step keeps the invariant and the discipline.                      *)
LEMMA RetryStep ==
  ASSUME RetryInv, [Retry!Next]_(Retry!vars)
  PROVE  RetryInv' /\ Retry!DeliveredOrKept /\ Retry!NoOvertaking
<1>1. CASE UNCHANGED Retry!vars
  <2>1. UNCHANGED <<queue, delivered, enabled, inPlace, drain, retryClock>>
    BY <1>1 DEF Retry!vars
  <2>2. RetryInv'
    BY <2>1 DEF RetryInv, RetryType, OneRowEach, NotDelivered, StillWaiting, Opened,
                Retry!Queued, Retry!Selected, Retry!Row
  <2>3. QED
    BY <2>1, <2>2, QueueStays DEF Retry!NoOvertaking
<1>2. CASE Retry!StartDrain
  BY <1>2, StartStep
<1>3. CASE \/ \E i \in Items, p \in Projects : Retry!Enqueue(i, p)
           \/ Retry!EndDrain \/ Retry!OpenItem \/ Retry!CaptureItem \/ Retry!RecordFailure
           \/ Retry!Kill
           \/ \E p \in Projects : Retry!SetEnabled(p) \/ Retry!Move(p)
  <2>1. RetryInv' /\ Retry!DeliveredOrKept
    BY <1>3, EnqueueStep, DrainStep, CaptureItemStep, RecordFailureStep
  <2>2. drain.pc = "idle" => drain'.pc # "next"
    BY <1>3 DEF Retry!Enqueue, Retry!EndDrain, Retry!OpenItem, Retry!CaptureItem,
                Retry!RecordFailure, Retry!Kill, Retry!SetEnabled, Retry!Move
  <2>3. QED
    BY <2>1, <2>2 DEF Retry!NoOvertaking
<1>4. QED
  BY <1>1, <1>2, <1>3 DEF Retry!Next

(* Nothing waits yet.                                                      *)
LEMMA RetryInit ==
  ASSUME Retry!Init
  PROVE  RetryInv
<1>1. RetryType
  BY FS_EmptySet DEF Retry!Init, Retry!Resting, RetryType
<1>2. QED
  BY <1>1 DEF Retry!Init, Retry!Resting, RetryInv, OneRowEach, NotDelivered, StillWaiting,
              Opened

(* For any number of items and any size of a batch, and whenever a drain   *)
(* fails, is killed or runs beside changes of the projects: an item waits  *)
(* until it is given once to pending capture for its enabled project, and  *)
(* is not tried again before those that wait longer.                       *)
(* (services/retry_queue.py; the run knowledge checks it on one instance)  *)
THEOREM QueueIsDisciplined == Spec => QueueDiscipline
<1> DEFINE Good == focus = "retries" => RetryInv
           Held == focus = "retries" => Retry!DeliveredOrKept /\ Retry!NoOvertaking
<1>1. Init => Good
  BY RetryInit DEF Init
<1>2. Good /\ [Next]_vars => Good'
  <2>1. ASSUME [Next]_vars, focus' = "retries" PROVE focus = "retries"
    BY <2>1 DEF Next, vars, KeptAlone, FactsAlone, BriefAlone, RetryAlone
  <2>2. QED
    BY <2>1, RetriesMove, RetryStep
<1>3. Good /\ [Next]_vars => [Held]_vars
  BY RetriesMove, RetryStep
<1>4. QED
  BY <1>1, <1>2, <1>3, PTL DEF Spec, QueueDiscipline

-----------------------------------------------------------------------------
(* Facts read from the directories of projects: what is found and kept.    *)

Slots == {"git", "files"} \cup Promotions
Readings == [from : Directories, version : Nat, safe : BOOLEAN]
FactRows == [slot : Slots, content : Readings \cup Promotions, at : Nat,
             state : {"active", "cold"}]
Findings == [slot : {"git", "files"}, content : Readings]
Configs == [version : Nat, safe : BOOLEAN]
Scans == [pc : {"idle", "config", "git", "confirm", "files", "verify", "commit"},
          dir : Directories \cup {NONE}, config : Configs \cup {NONE},
          found : SUBSET Findings, at : Nat]

FactsType ==
  /\ factClock \in Nat
  /\ here \in Directories \cup {NONE}
  /\ files \in [Directories -> Nat]
  /\ git \in [Directories -> Configs]
  /\ promotions \in [Promotions -> {"none", "pending", "approved"}]
  /\ scan \in [Scanners -> Scans]

(* Whatever is kept of a slot is not newer than what is current of it, and *)
(* one content is current.                                                 *)
Ordered(all) ==
  /\ all \subseteq FactRows
  /\ \A r \in all : r.at <= factClock
  /\ \A r \in all : \E w \in Facts!Current(all, r.slot) : r.at <= w.at
  /\ \A r \in all : \A w, v \in Facts!Current(all, r.slot) : w.content = v.content
  /\ \A r \in all : r.slot \in Promotions => r.content = r.slot

(* What a scan knows: its directory, and what was found there, once for    *)
(* each slot.                                                              *)
FoundHere(s) ==
  /\ scan[s].pc # "idle" => scan[s].dir \in Directories
  /\ scan[s].at <= factClock
  /\ \A f \in scan[s].found : f.content.from = scan[s].dir
  /\ \A f, g \in scan[s].found : f.slot = g.slot => f = g
  /\ \A f \in scan[s].found : f.slot = "git" => scan[s].pc \notin {"idle", "config", "git"}
  /\ \A f \in scan[s].found : f.slot = "files" => scan[s].pc \in {"verify", "commit"}
  /\ \A f \in scan[s].found : f.content.safe \/ scan[s].pc = "confirm"

(* While git is asked: a configuration whose version is the one checked is *)
(* the one checked, since versions only grow; so it was when git answered. *)
AskedSafely(s) ==
  scan[s].pc \in {"git", "confirm"} =>
    LET now == git[scan[s].dir]
        checked == scan[s].config
    IN /\ checked \in Configs /\ checked.safe
       /\ checked.version <= now.version
       /\ now.version = checked.version => now = checked
       /\ \A f \in scan[s].found :
            /\ checked.version <= f.content.version
            /\ f.content.version <= now.version
            /\ f.content.version = checked.version => f.content.safe

FactsInv ==
  /\ FactsType
  /\ Ordered(facts)
  /\ \A s \in Scanners : FoundHere(s) /\ AskedSafely(s)
  /\ \A p \in Promotions :
       promotions[p] = "approved" <=> Facts!Current(facts, Facts!Rule(p)) # {}

-----------------------------------------------------------------------------
(* An observation.                                                         *)

(* The time a row is kept with is the last one known of its content.       *)
LEMMA LatestTime ==
  ASSUME NEW T \in SUBSET (0..factClock), factClock \in Nat, NEW t \in T
  PROVE  Facts!Max(T) \in T /\ \A u \in T : u <= Facts!Max(T)
<1>1. \E x \in T : \A y \in T : y <= x
  BY Sum!GreatestExists
<1>2. \E x \in T : \A y \in T : x >= y
  BY <1>1
<1>3. QED
  BY <1>2 DEF Facts!Max

(* Observing keeps what is kept in order, disturbs no other slot, and      *)
(* brings no content but its own.                                          *)
LEMMA ObservedInOrder ==
  ASSUME factClock \in Nat, NEW all, Ordered(all),
         NEW f \in FactRows, f.at <= factClock, f.slot \in Promotions => f.content = f.slot
  PROVE  LET after == Facts!Observed(f, all)
         IN /\ Ordered(after)
            /\ \A slot : slot # f.slot => Facts!Current(after, slot) = Facts!Current(all, slot)
            /\ f.slot \in Promotions => Facts!Current(after, f.slot) # {}
            /\ Facts!Current(all, f.slot) # {} => Facts!Current(after, f.slot) # {}
            /\ \A r \in after : \/ r.slot = f.slot /\ r.content = f.content
                                \/ \E q \in all : r.slot = q.slot /\ r.content = q.content
<1> DEFINE wins == Facts!IncomingWins(all, f)
           exact == {r \in all : r.slot = f.slot /\ r.content = f.content}
           lost == {r \in Facts!Current(all, f.slot) : wins /\ r.content # f.content}
           times == {f.at} \cup {r.at : r \in exact}
           at == Facts!Max(times)
           new == Facts!Fact(f.slot, f.content, at, IF wins THEN "active" ELSE "cold")
           cooled == {[r EXCEPT !.state = "cold"] : r \in lost}
           after == Facts!Observed(f, all)
<1>1. after = ((all \ exact) \ lost) \cup cooled \cup {new}
  BY DEF Facts!Observed
<1>2. at \in times /\ \A u \in times : u <= at
  <2>1. times \in SUBSET (0..factClock)
    BY DEF Ordered, FactRows
  <2>2. f.at \in times
    OBVIOUS
  <2> HIDE DEF times
  <2>3. QED
    BY <2>1, <2>2, LatestTime
<1>3. at \in Nat /\ at <= factClock /\ f.at <= at /\ \A r \in exact : r.at <= at
  BY <1>2 DEF Ordered, FactRows
<1>4. /\ new \in FactRows /\ new.slot = f.slot /\ new.content = f.content /\ new.at = at
      /\ new.state = IF wins THEN "active" ELSE "cold"
  <2> HIDE DEF at, wins
  <2> QED BY <1>3 DEF FactRows, Facts!Fact
<1>5. lost \subseteq all /\ exact \subseteq all
  BY DEF Facts!Current
<1>6. \A r \in lost :
        /\ [r EXCEPT !.state = "cold"] \in FactRows
        /\ [r EXCEPT !.state = "cold"].slot = f.slot
        /\ [r EXCEPT !.state = "cold"].content = r.content
        /\ [r EXCEPT !.state = "cold"].at = r.at
        /\ [r EXCEPT !.state = "cold"].state = "cold"
  <2>1. ASSUME NEW r \in lost PROVE r \in FactRows /\ r.slot = f.slot
    BY <1>5 DEF Ordered, Facts!Current
  <2> HIDE DEF lost
  <2>2. QED
    BY <2>1 DEF FactRows
<1> HIDE DEF at, new, times, cooled, after
<1>7. after \subseteq FactRows
  BY <1>1, <1>4, <1>5, <1>6 DEF Ordered, cooled
<1>9. \A r \in after : \/ r = new
                       \/ r \in all /\ r \notin exact /\ r \notin lost
                       \/ r.slot = f.slot /\ r.state = "cold"
                          /\ \E q \in lost : r.content = q.content /\ r.at = q.at
  <2>1. ASSUME NEW r \in cooled
        PROVE  /\ r.slot = f.slot /\ r.state = "cold"
               /\ \E q \in lost : r.content = q.content /\ r.at = q.at
    <3>1. PICK q \in lost : r = [q EXCEPT !.state = "cold"]
      BY DEF cooled
    <3>2. r.slot = f.slot /\ r.content = q.content /\ r.at = q.at /\ r.state = "cold"
      BY <1>6, <3>1
    <3>3. QED
      BY <3>2
  <2>2. \A r \in after : r = new \/ r \in cooled \/ (r \in all /\ r \notin exact /\ r \notin lost)
    BY <1>1
  <2> HIDE DEF lost, exact
  <2>3. QED
    BY <2>1, <2>2
<1>8. \A r \in after : r.at <= factClock
  BY <1>3, <1>4, <1>5, <1>9 DEF Ordered
<1>10. \A r \in after : \/ r.slot = f.slot /\ r.content = f.content
                        \/ \E q \in all : r.slot = q.slot /\ r.content = q.content
  <2>1. \A q \in lost : q \in all /\ q.slot = f.slot
    BY <1>5 DEF Facts!Current
  <2>2. QED
    BY <1>4, <1>9, <2>1
<1>11. \A r \in after : r.slot \in Promotions => r.content = r.slot
  BY <1>10 DEF Ordered
<1>12. ASSUME NEW slot, slot # f.slot
       PROVE  Facts!Current(after, slot) = Facts!Current(all, slot)
  <2>1. \A r : r \in after /\ r.slot = slot <=> r \in all /\ r.slot = slot
    BY <1>1, <1>4, <1>6, <1>12, ZenonT(60) DEF cooled, Facts!Current
  <2>2. QED
    BY <2>1 DEF Facts!Current
<1>13. CASE wins
  <2>1. Facts!Current(after, f.slot) = {new}
    <3>1. new \in Facts!Current(after, f.slot)
      BY <1>1, <1>4, <1>13 DEF Facts!Current
    <3>2. ASSUME NEW r \in Facts!Current(after, f.slot) PROVE r = new
      <4>1. r \in after /\ r.slot = f.slot /\ r.state = "active"
        BY DEF Facts!Current
      <4>2. CASE r \in all /\ r \notin exact /\ r \notin lost
        BY <1>13, <4>1, <4>2 DEF Facts!Current
      <4>3. QED
        BY <1>9, <4>1, <4>2
    <3>3. QED
      BY <3>1, <3>2
  <2>2. ASSUME NEW r \in all, r.slot = f.slot PROVE r.at <= at
    <3> DEFINE current == Facts!Current(all, f.slot)
               T == {w.at : w \in current}
    <3>1. PICK w \in current : r.at <= w.at
      BY <2>2 DEF Ordered
    <3>2. current \subseteq all
      BY DEF Facts!Current
    <3>3. T \in SUBSET (0..factClock) /\ T # {}
      BY <3>1, <3>2 DEF Ordered, FactRows
    <3>4. PICK t \in T : \A u \in T : u <= t
      <4> HIDE DEF T
      <4> QED BY <3>3, Sum!GreatestExists
    <3>5. PICK v \in current : v.at = t
      OBVIOUS
    <3>6. v \in Facts!Winners(all, f.slot)
      BY <3>4, <3>5 DEF Facts!Winners
    <3>7. f.content = v.content \/ f.at > v.at
      BY <1>13, <3>6 DEF Facts!IncomingWins
    <3>8. v.at <= at
      <4>1. CASE f.content = v.content
        <5>1. v \in exact
          BY <3>2, <4>1 DEF Facts!Current
        <5>2. QED
          BY <1>3, <5>1
      <4>2. CASE f.at > v.at
        <5>1. v.at \in Nat /\ f.at \in Nat
          BY <3>2 DEF Ordered, FactRows
        <5>2. QED
          BY <1>3, <4>2, <5>1
      <4>3. QED
        BY <3>7, <4>1, <4>2
    <3>9. r.at \in Nat /\ w.at \in Nat /\ v.at \in Nat /\ w.at <= v.at
      BY <3>2, <3>4, <3>5 DEF Ordered, FactRows
    <3>10. QED
      BY <1>3, <3>1, <3>8, <3>9
  <2>3. ASSUME NEW r \in after
        PROVE  \E w \in Facts!Current(after, r.slot) : r.at <= w.at
    <3>1. CASE r.slot = f.slot
      <4>1. r.at <= at
        <5>1. \A q \in lost : q.at <= at
          BY <1>5, <2>2 DEF Facts!Current
        <5>2. QED
          BY <1>3, <1>4, <1>9, <2>2, <3>1, <5>1
      <4>2. QED
        BY <1>4, <2>1, <3>1, <4>1
    <3>2. CASE r.slot # f.slot
      <4>1. r \in all
        BY <1>4, <1>9, <3>2
      <4>2. QED
        BY <1>12, <3>2, <4>1 DEF Ordered
    <3>3. QED
      BY <3>1, <3>2
  <2>4. ASSUME NEW r \in after, NEW w \in Facts!Current(after, r.slot),
               NEW v \in Facts!Current(after, r.slot)
        PROVE  w.content = v.content
    <3>1. CASE r.slot = f.slot
      BY <2>1, <2>4, <3>1
    <3>2. CASE r.slot # f.slot
      <4>1. r \in all
        BY <1>4, <1>9, <3>2
      <4>2. QED
        BY <1>12, <2>4, <3>2, <4>1 DEF Ordered
    <3>3. QED
      BY <3>1, <3>2
  <2>5. Ordered(after)
    BY <1>7, <1>8, <1>11, <2>3, <2>4 DEF Ordered
  <2>6. QED
    BY <1>10, <1>12, <2>1, <2>5 DEF after
<1>14. CASE ~wins
  <2>1. lost = {}
    BY <1>14
  <2>2. PICK w \in Facts!Winners(all, f.slot) : f.content # w.content /\ ~(f.at > w.at)
    BY <1>14 DEF Facts!IncomingWins
  <2>3. /\ w \in Facts!Current(all, f.slot)
        /\ \A q \in Facts!Current(all, f.slot) : q.at <= w.at
        /\ w \in all /\ w.slot = f.slot /\ w.state = "active"
    BY DEF Facts!Winners, Facts!Current
  <2>4. \A q \in Facts!Current(all, f.slot) : q.content # f.content
    BY <2>2, <2>3 DEF Ordered
  <2>5. Facts!Current(after, f.slot) = Facts!Current(all, f.slot)
    <3>1. ASSUME NEW r \in Facts!Current(after, f.slot)
          PROVE  r \in Facts!Current(all, f.slot)
      <4>1. r \in after /\ r.slot = f.slot /\ r.state = "active"
        BY DEF Facts!Current
      <4>2. r \in all
        BY <1>4, <1>9, <1>14, <4>1
      <4>3. QED
        BY <4>1, <4>2 DEF Facts!Current
    <3>2. ASSUME NEW r \in Facts!Current(all, f.slot)
          PROVE  r \in Facts!Current(after, f.slot)
      <4>1. r \in all /\ r.slot = f.slot /\ r.state = "active" /\ r \notin exact
        BY <2>4 DEF Facts!Current
      <4>2. r \in after
        BY <1>1, <2>1, <4>1
      <4>3. QED
        BY <4>1, <4>2 DEF Facts!Current
    <3>3. QED
      BY <3>1, <3>2
  <2>6. at <= w.at
    <3>1. ASSUME NEW r \in exact PROVE r.at <= w.at
      <4>1. r \in all /\ r.slot = f.slot
        OBVIOUS
      <4>2. PICK q \in Facts!Current(all, f.slot) : r.at <= q.at
        BY <4>1 DEF Ordered
      <4>3. q \in all /\ q.at <= w.at
        BY <2>3, <4>2 DEF Facts!Current
      <4>4. r.at \in Nat /\ q.at \in Nat /\ w.at \in Nat
        BY <2>3, <4>1, <4>3 DEF Ordered, FactRows
      <4>5. QED
        BY <4>2, <4>3, <4>4
    <3>2. f.at <= w.at
      <4>1. f.at \in Nat /\ w.at \in Nat
        BY <2>3 DEF Ordered, FactRows
      <4>2. QED
        BY <2>2, <4>1
    <3>3. QED
      BY <1>2, <3>1, <3>2 DEF times
  <2>7. ASSUME NEW r \in after
        PROVE  \E v \in Facts!Current(after, r.slot) : r.at <= v.at
    <3>1. CASE r = new
      BY <1>4, <2>3, <2>5, <2>6, <3>1
    <3>2. CASE r \in all
      <4>1. Facts!Current(after, r.slot) = Facts!Current(all, r.slot)
        BY <1>12, <2>5
      <4>2. QED
        BY <3>2, <4>1 DEF Ordered
    <3>3. QED
      BY <1>9, <2>1, <3>1, <3>2
  <2>8. ASSUME NEW r \in after, NEW x \in Facts!Current(after, r.slot),
               NEW v \in Facts!Current(after, r.slot)
        PROVE  x.content = v.content
    <3>1. Facts!Current(after, r.slot) = Facts!Current(all, r.slot)
      BY <1>12, <2>5
    <3>2. x \in all /\ x.slot = r.slot
      BY <2>8, <3>1 DEF Facts!Current
    <3>3. QED
      BY <2>8, <3>1, <3>2 DEF Ordered
  <2>9. Ordered(after)
    BY <1>7, <1>8, <1>11, <2>7, <2>8 DEF Ordered
  <2>10. QED
    BY <1>10, <1>12, <2>3, <2>5, <2>9 DEF after
<1>15. QED
  BY <1>13, <1>14

(* A finding is stored.                                                    *)
Stored(f, t, all) == Facts!Observed(Facts!Fact(f.slot, f.content, t, "active"), all)

(* One finding after another is stored; a scan has at most two.            *)
LEMMA OneAfterAnother ==
  ASSUME NEW a, NEW b, NEW found \in SUBSET {a, b}, NEW t
  PROVE  \/ Facts!ObservedAll(found, t) = facts
         \/ \E f \in found : Facts!ObservedAll(found, t) = Stored(f, t, facts)
         \/ \E f, g \in found : Facts!ObservedAll(found, t) = Stored(f, t, Stored(g, t, facts))
<1> DEFINE Any(S) == CHOOSE f \in S : TRUE
           IsFold(g) == g = [S \in SUBSET found |->
                               IF S = {} THEN facts
                               ELSE Stored(Any(S), t, g[S \ {Any(S)}])]
           two == [S \in SUBSET found |->
                     IF S = {} THEN facts
                     ELSE IF S \ {Any(S)} = {} THEN Stored(Any(S), t, facts)
                     ELSE Stored(Any(S), t, Stored(Any(S \ {Any(S)}), t, facts))]
           fold == CHOOSE g : IsFold(g)
<1>1. Facts!ObservedAll(found, t) = fold[found]
  BY DEF Facts!ObservedAll, Facts!FoldSet, Facts!MapThenFoldSet, Stored
<1>2. \A S \in SUBSET found : S # {} =>
        /\ Any(S) \in S /\ S \ {Any(S)} \in SUBSET found
        /\ (S \ {Any(S)}) # {} => (S \ {Any(S)}) \ {Any(S \ {Any(S)})} = {}
  <2>1. ASSUME NEW S \in SUBSET found, S # {} PROVE Any(S) \in S
    BY <2>1
  <2>2. ASSUME NEW S \in SUBSET found, S # {}, S \ {Any(S)} # {}
        PROVE  (S \ {Any(S)}) \ {Any(S \ {Any(S)})} = {}
    <3>1. Any(S) \in S /\ Any(S \ {Any(S)}) \in S \ {Any(S)}
      BY <2>1, <2>2
    <3> HIDE DEF Any
    <3>2. QED
      BY <3>1
  <2> HIDE DEF Any
  <2>3. QED
    BY <2>1, <2>2
<1> HIDE DEF Any
<1>3. IsFold(two)
  <2>1. ASSUME NEW S \in SUBSET found, S # {}
        PROVE  two[S] = Stored(Any(S), t, two[S \ {Any(S)}])
    <3>1. S \ {Any(S)} \in SUBSET found
      BY <1>2, <2>1
    <3>2. CASE S \ {Any(S)} = {}
      <4>1. two[S \ {Any(S)}] = facts
        BY <3>1, <3>2
      <4>2. two[S] = Stored(Any(S), t, facts)
        BY <2>1, <3>2
      <4>3. QED
        BY <4>1, <4>2
    <3>3. CASE S \ {Any(S)} # {}
      <4> DEFINE R == S \ {Any(S)}
      <4>1. R \in SUBSET found /\ R # {} /\ R \ {Any(R)} = {}
        BY <1>2, <2>1, <3>1, <3>3
      <4>2. two[R] = Stored(Any(R), t, facts)
        <5> HIDE DEF R
        <5> QED BY <4>1
      <4>3. two[S] = Stored(Any(S), t, Stored(Any(R), t, facts))
        BY <2>1, <3>3
      <4>4. QED
        BY <4>2, <4>3
    <3>4. QED
      BY <3>2, <3>3
  <2>2. \A S \in SUBSET found :
          two[S] = IF S = {} THEN facts ELSE Stored(Any(S), t, two[S \ {Any(S)}])
    <3>1. ASSUME NEW S \in SUBSET found, S = {} PROVE two[S] = facts
      BY <3>1
    <3> HIDE DEF two
    <3>2. QED
      BY <2>1, <3>1
  <2>3. two = [S \in SUBSET found |-> two[S]]
    OBVIOUS
  <2> HIDE DEF two
  <2>4. QED
    BY <2>2, <2>3
<1>4. IsFold(fold)
  <2> HIDE DEF IsFold, two
  <2> QED BY <1>3
<1> HIDE DEF fold, two
<1>5. \A S \in SUBSET found :
        fold[S] = IF S = {} THEN facts ELSE Stored(Any(S), t, fold[S \ {Any(S)}])
  BY <1>4
<1> HIDE DEF IsFold
<1>6. CASE found = {}
  BY <1>1, <1>5, <1>6
<1>7. CASE found # {} /\ found \ {Any(found)} = {}
  <2>1. fold[found] = Stored(Any(found), t, facts) /\ Any(found) \in found
    BY <1>2, <1>5, <1>7
  <2>2. QED
    BY <1>1, <2>1
<1>8. CASE found # {} /\ found \ {Any(found)} # {}
  <2> DEFINE R == found \ {Any(found)}
  <2>1. R \in SUBSET found /\ R # {} /\ R \ {Any(R)} = {} /\ Any(R) \in found
        /\ Any(found) \in found
    BY <1>2, <1>8
  <2>2. fold[found] = Stored(Any(found), t, fold[R])
    BY <1>5, <1>8
  <2> HIDE DEF R
  <2>3. fold[R] = Stored(Any(R), t, facts)
    BY <1>5, <2>1
  <2>4. QED
    BY <1>1, <2>1, <2>2, <2>3
<1>9. QED
  BY <1>6, <1>7, <1>8

-----------------------------------------------------------------------------
(* The steps of a scan.                                                    *)

(* A step of one scan that stores nothing.                                 *)
LEMMA ScanOnly ==
  ASSUME FactsInv, NEW s \in Scanners, NEW new \in Scans, scan' = [scan EXCEPT ![s] = new],
         UNCHANGED <<factClock, here, files, git, facts, promotions>>,
         FoundHere(s)', AskedSafely(s)'
  PROVE  FactsInv'
<1>1. FactsType'
  BY DEF FactsInv, FactsType
<1>2. \A q \in Scanners : q # s => scan'[q] = scan[q]
  BY DEF FactsInv, FactsType
<1>3. \A q \in Scanners : FoundHere(q)' /\ AskedSafely(q)'
  BY <1>2 DEF FactsInv, FoundHere, AskedSafely
<1>4. Ordered(facts)'
  BY DEF FactsInv, Ordered, Facts!Current
<1>5. \A p \in Promotions :
        promotions'[p] = "approved" <=> Facts!Current(facts, Facts!Rule(p))' # {}
  BY DEF FactsInv, Facts!Current, Facts!Rule
<1>6. QED
  BY <1>1, <1>3, <1>4, <1>5 DEF FactsInv

(* A scan begins, or looks at the configuration of git.                    *)
LEMMA OpenStep ==
  ASSUME FactsInv, NEW s \in Scanners, Facts!OpenAnchor(s) \/ Facts!OpenGitConfig(s)
  PROVE  FactsInv'
<1>1. UNCHANGED <<factClock, here, files, git, facts, promotions>>
  BY DEF Facts!OpenAnchor, Facts!OpenGitConfig, Facts!world
<1>2. /\ scan \in [Scanners -> Scans] /\ git \in [Directories -> Configs]
      /\ here \in Directories \cup {NONE} /\ FoundHere(s) /\ factClock \in Nat
  BY DEF FactsInv, FactsType
<1>3. CASE Facts!OpenAnchor(s)
  <2> DEFINE new == [Facts!Idle EXCEPT !.pc = "config", !.dir = here]
  <2>1. scan' = [scan EXCEPT ![s] = new] /\ here \in Directories
    BY <1>2, <1>3 DEF Facts!OpenAnchor
  <2>2. Facts!Idle \in Scans
    BY DEF Facts!Idle, Scans
  <2>3. /\ new \in Scans /\ new.pc = "config" /\ new.dir = here /\ new.found = {} /\ new.at = 0
    BY <1>2, <2>1, <2>2 DEF Facts!Idle, Scans
  <2> HIDE DEF new
  <2>4. scan'[s] = new
    BY <1>2, <2>1
  <2>5. FoundHere(s)' /\ AskedSafely(s)'
    BY <1>1, <1>2, <2>1, <2>3, <2>4 DEF FoundHere, AskedSafely
  <2>6. QED
    BY <1>1, <2>1, <2>3, <2>5, ScanOnly
<1>4. CASE Facts!OpenGitConfig(s)
  <2> DEFINE config == git[scan[s].dir]
             new == [scan[s] EXCEPT !.pc = IF config.safe THEN "git" ELSE "files",
                                    !.config = config]
  <2>1. scan[s].pc = "config" /\ scan[s].dir \in Directories
    BY <1>2, <1>4 DEF Facts!OpenGitConfig, Facts!At, FoundHere
  <2>2. config \in Configs
    BY <1>2, <2>1
  <2>3. scan' = [scan EXCEPT ![s] = new]
    BY <1>2, <1>4 DEF Facts!OpenGitConfig
  <2>4. scan[s].found = {}
    BY <1>2, <2>1 DEF FoundHere, Scans, Findings
  <2> HIDE DEF config
  <2>5. /\ new \in Scans /\ new.pc = (IF config.safe THEN "git" ELSE "files")
        /\ new.dir = scan[s].dir /\ new.found = {} /\ new.at = scan[s].at
        /\ new.config = config
    BY <1>2, <2>2, <2>4 DEF Scans
  <2> HIDE DEF new
  <2>6. scan'[s] = new
    BY <1>2, <2>3
  <2>7. FoundHere(s)'
    BY <1>1, <1>2, <2>1, <2>5, <2>6 DEF FoundHere
  <2>8. AskedSafely(s)'
    BY <1>1, <2>2, <2>5, <2>6 DEF AskedSafely, config, Configs
  <2>9. QED
    BY <1>1, <2>3, <2>5, <2>7, <2>8, ScanOnly
<1>5. QED
  BY <1>3, <1>4

(* What git or a file said.                                                *)
LEMMA ReadStep ==
  ASSUME FactsInv, NEW s \in Scanners, Facts!GitFacts(s) \/ Facts!ReadFiles(s)
  PROVE  FactsInv'
<1>1. UNCHANGED <<factClock, here, files, git, facts, promotions>>
  BY DEF Facts!GitFacts, Facts!ReadFiles, Facts!world
<1>2. /\ scan \in [Scanners -> Scans] /\ git \in [Directories -> Configs]
      /\ files \in [Directories -> Nat]
      /\ FoundHere(s) /\ AskedSafely(s) /\ factClock \in Nat
  BY DEF FactsInv, FactsType
<1>3. scan[s].pc \in {"git", "files"} /\ scan[s].dir \in Directories
  BY <1>2 DEF Facts!GitFacts, Facts!ReadFiles, Facts!At, FoundHere
<1>4. CASE Facts!GitFacts(s)
  <2> DEFINE now == git[scan[s].dir]
             f == [slot |-> "git",
                   content |-> [from |-> scan[s].dir, version |-> now.version, safe |-> now.safe]]
  <2>1. scan[s].pc = "git" /\ now \in Configs
    BY <1>2, <1>3, <1>4 DEF Facts!GitFacts, Facts!At
  <2>2. scan[s].found = {}
    BY <1>2, <2>1, SMTT(60) DEF FoundHere, Scans, Findings
  <2>3. PICK more \in SUBSET {f} :
          scan' = [scan EXCEPT ![s].pc = "confirm", ![s].found = @ \cup more]
    <3>1. CASE scan' = [scan EXCEPT ![s].pc = "confirm", ![s].found = @ \cup {f}]
      BY <3>1
    <3>2. CASE scan' = [scan EXCEPT ![s].pc = "confirm"]
      <4>1. scan' = [scan EXCEPT ![s].pc = "confirm", ![s].found = @ \cup {}]
        BY <1>2, <3>2 DEF Scans
      <4>2. QED
        BY <4>1
    <3>3. QED
      BY <1>4, <3>1, <3>2 DEF Facts!GitFacts, Facts!Found, Facts!Advance
  <2>4. f \in Findings /\ f.slot = "git" /\ f.content.from = scan[s].dir
        /\ f.content.version = now.version /\ f.content.safe = now.safe
    <3> HIDE DEF now
    <3> QED BY <1>3, <2>1 DEF Findings, Readings, Configs
  <2> HIDE DEF f
  <2> DEFINE new == [scan[s] EXCEPT !.pc = "confirm", !.found = @ \cup more]
  <2>5. scan' = [scan EXCEPT ![s] = new]
    BY <1>2, <2>3 DEF Scans
  <2>6. /\ new \in Scans /\ new.pc = "confirm" /\ new.dir = scan[s].dir
        /\ new.found = more /\ new.at = scan[s].at /\ new.config = scan[s].config
    BY <1>2, <2>2, <2>4, ZenonT(60) DEF Scans
  <2> HIDE DEF new
  <2>7. scan'[s] = new
    BY <1>2, <2>5
  <2>8. FoundHere(s)'
    BY <1>1, <1>2, <1>3, <2>4, <2>6, <2>7 DEF FoundHere
  <2>9. AskedSafely(s)'
    <3>1. /\ scan[s].config \in Configs /\ scan[s].config.safe
          /\ scan[s].config.version <= now.version
          /\ now.version = scan[s].config.version => now = scan[s].config
      BY <1>2, <2>1 DEF AskedSafely
    <3>2. now.version <= now.version
      BY <2>1 DEF Configs
    <3>3. \A g \in more : g = f
      OBVIOUS
    <3>4. QED
      BY <1>1, <2>4, <2>6, <2>7, <3>1, <3>2, <3>3 DEF AskedSafely
  <2>10. QED
    BY <1>1, <2>5, <2>6, <2>8, <2>9, ScanOnly
<1>5. CASE Facts!ReadFiles(s)
  <2> DEFINE f == [slot |-> "files",
                   content |-> [from |-> scan[s].dir, version |-> files[scan[s].dir],
                                safe |-> TRUE]]
  <2>1. scan[s].pc = "files" /\ files[scan[s].dir] \in Nat
    BY <1>2, <1>3, <1>5 DEF Facts!ReadFiles, Facts!At
  <2>2. \A g \in scan[s].found : g.slot # "files" /\ g.content.safe
    BY <1>2, <2>1 DEF FoundHere
  <2>3. PICK more \in SUBSET {f} :
          scan' = [scan EXCEPT ![s].pc = "verify", ![s].found = @ \cup more]
    <3>1. CASE scan' = [scan EXCEPT ![s].pc = "verify", ![s].found = @ \cup {f}]
      BY <3>1
    <3>2. CASE scan' = [scan EXCEPT ![s].pc = "verify"]
      <4>1. scan' = [scan EXCEPT ![s].pc = "verify", ![s].found = @ \cup {}]
        BY <1>2, <3>2 DEF Scans
      <4>2. QED
        BY <4>1
    <3>3. QED
      BY <1>5, <3>1, <3>2 DEF Facts!ReadFiles, Facts!Found, Facts!Advance
  <2>4. f \in Findings /\ f.slot = "files" /\ f.content.from = scan[s].dir /\ f.content.safe
    BY <1>3, <2>1 DEF Findings, Readings
  <2> HIDE DEF f
  <2> DEFINE new == [scan[s] EXCEPT !.pc = "verify", !.found = @ \cup more]
  <2>5. scan' = [scan EXCEPT ![s] = new]
    BY <1>2, <2>3 DEF Scans
  <2>6. /\ new \in Scans /\ new.pc = "verify" /\ new.dir = scan[s].dir
        /\ new.found = scan[s].found \cup more /\ new.at = scan[s].at
    BY <1>2, <2>4, ZenonT(60) DEF Scans
  <2> HIDE DEF new
  <2>7. scan'[s] = new
    BY <1>2, <2>5
  <2>8. \A g \in new.found : g \in scan[s].found \/ g = f
    BY <2>6
  <2>9. FoundHere(s)'
    BY <1>1, <1>2, <1>3, <2>2, <2>4, <2>6, <2>7, <2>8 DEF FoundHere
  <2>10. AskedSafely(s)'
    BY <2>6, <2>7 DEF AskedSafely
  <2>11. QED
    BY <1>1, <2>5, <2>6, <2>9, <2>10, ScanOnly
<1>6. QED
  BY <1>4, <1>5

(* What git said is kept if its configuration is the one checked; then the *)
(* directory is looked at again.                                           *)
LEMMA CheckStep ==
  ASSUME FactsInv, NEW s \in Scanners, Facts!ConfirmGitConfig(s) \/ Facts!Stamp(s)
  PROVE  FactsInv'
<1>1. UNCHANGED <<factClock, here, files, git, facts, promotions>>
  BY DEF Facts!ConfirmGitConfig, Facts!Stamp, Facts!world
<1>2. /\ scan \in [Scanners -> Scans] /\ git \in [Directories -> Configs]
      /\ FoundHere(s) /\ AskedSafely(s) /\ factClock \in Nat
  BY DEF FactsInv, FactsType
<1>3. CASE Facts!ConfirmGitConfig(s)
  <2> DEFINE kept == IF Facts!ConfigSame(s) THEN scan[s].found ELSE {}
             new == [scan[s] EXCEPT !.pc = "files", !.found = kept]
  <2>1. scan[s].pc = "confirm" /\ scan[s].dir \in Directories
    BY <1>2, <1>3 DEF Facts!ConfirmGitConfig, Facts!At, FoundHere
  <2>2. scan' = [scan EXCEPT ![s] = new]
    BY <1>2, <1>3 DEF Facts!ConfirmGitConfig
  <2>3. ASSUME NEW f \in kept PROVE f \in scan[s].found /\ f.content.safe
    <3>1. f \in scan[s].found /\ git[scan[s].dir] = scan[s].config
      BY DEF Facts!ConfigSame
    <3>2. /\ scan[s].config.version <= f.content.version
          /\ f.content.version <= scan[s].config.version
          /\ f.content.version = scan[s].config.version => f.content.safe
      BY <1>2, <2>1, <3>1 DEF AskedSafely
    <3>3. f.content.version \in Nat /\ scan[s].config.version \in Nat
      <4>1. f \in Findings /\ git[scan[s].dir] \in Configs
        BY <1>2, <2>1, <3>1 DEF Scans
      <4>2. QED
        BY <3>1, <4>1 DEF Findings, Readings, Configs
    <3>4. QED
      BY <3>1, <3>2, <3>3
  <2> HIDE DEF kept
  <2>4. \A f \in kept : f.slot = "git"
    BY <1>2, <2>1, <2>3 DEF FoundHere, Scans, Findings
  <2>5. /\ new \in Scans /\ new.pc = "files" /\ new.dir = scan[s].dir
        /\ new.found = kept /\ new.at = scan[s].at
    BY <1>2, <2>3 DEF Scans
  <2> HIDE DEF new
  <2>6. scan'[s] = new
    BY <1>2, <2>2
  <2>7. FoundHere(s)' /\ AskedSafely(s)'
    BY <1>1, <1>2, <2>1, <2>3, <2>4, <2>5, <2>6 DEF FoundHere, AskedSafely
  <2>8. QED
    BY <1>1, <2>2, <2>5, <2>7, ScanOnly
<1>4. CASE Facts!Stamp(s)
  <2>1. scan[s].pc = "verify"
    BY <1>4 DEF Facts!Stamp, Facts!At
  <2>2. CASE scan' = [scan EXCEPT ![s].pc = "commit", ![s].at = factClock]
    <3> DEFINE new == [scan[s] EXCEPT !.pc = "commit", !.at = factClock]
    <3>1. scan' = [scan EXCEPT ![s] = new]
      BY <1>2, <2>2 DEF Scans
    <3>2. /\ new \in Scans /\ new.pc = "commit" /\ new.dir = scan[s].dir
          /\ new.found = scan[s].found /\ new.at = factClock
      BY <1>2 DEF Scans
    <3> HIDE DEF new
    <3>3. scan'[s] = new
      BY <1>2, <3>1
    <3>4. FoundHere(s)' /\ AskedSafely(s)'
      BY <1>1, <1>2, <2>1, <3>2, <3>3 DEF FoundHere, AskedSafely
    <3>5. QED
      BY <1>1, <3>1, <3>2, <3>4, ScanOnly
  <2>3. CASE scan' = [scan EXCEPT ![s] = Facts!Idle]
    <3>1. /\ Facts!Idle \in Scans /\ Facts!Idle.pc = "idle" /\ Facts!Idle.found = {}
          /\ Facts!Idle.at = 0
      BY DEF Facts!Idle, Scans
    <3>2. scan'[s] = Facts!Idle
      BY <1>2, <2>3
    <3>3. FoundHere(s)' /\ AskedSafely(s)'
      BY <1>1, <1>2, <3>1, <3>2 DEF FoundHere, AskedSafely
    <3>4. QED
      BY <1>1, <2>3, <3>1, <3>3, ScanOnly
  <2>4. QED
    BY <1>4, <2>2, <2>3 DEF Facts!Stamp
<1>5. QED
  BY <1>3, <1>4

-----------------------------------------------------------------------------
(* What is stored.                                                         *)

(* Storing a finding keeps what is kept in order.                          *)
LEMMA StoredInOrder ==
  ASSUME factClock \in Nat, NEW all, Ordered(all), NEW f \in Findings,
         NEW t \in Nat, t <= factClock
  PROVE  LET after == Stored(f, t, all)
         IN /\ Ordered(after)
            /\ \A p \in Promotions : Facts!Current(after, p) = Facts!Current(all, p)
            /\ \A r \in after : \/ r.content = f.content
                                \/ \E q \in all : r.content = q.content
<1> DEFINE row0 == Facts!Fact(f.slot, f.content, t, "active")
<1>1. /\ row0 \in FactRows /\ row0.slot = f.slot /\ row0.content = f.content /\ row0.at = t
      /\ f.slot \notin Promotions
  BY PromotionsAssumption DEF Facts!Fact, FactRows, Findings, Slots
<1> DEFINE after == Facts!Observed(row0, all)
<1>2. after = Stored(f, t, all)
  BY DEF Stored
<1> HIDE DEF row0
<1>3. /\ Ordered(after)
      /\ \A slot : slot # row0.slot => Facts!Current(after, slot) = Facts!Current(all, slot)
      /\ \A r \in after : \/ r.slot = row0.slot /\ r.content = row0.content
                          \/ \E q \in all : r.slot = q.slot /\ r.content = q.content
  BY <1>1, ObservedInOrder
<1> HIDE DEF after
<1>4. \A p \in Promotions : Facts!Current(after, p) = Facts!Current(all, p)
  BY <1>1, <1>3
<1>5. \A r \in after : r.content = f.content \/ \E q \in all : r.content = q.content
  BY <1>1, <1>3
<1>6. QED
  BY <1>2, <1>3, <1>4, <1>5

(* So does storing all that a scan found.                                  *)
LEMMA AllInOrder ==
  ASSUME FactsInv, NEW s \in Scanners
  PROVE  LET after == Facts!ObservedAll(scan[s].found, scan[s].at)
         IN /\ Ordered(after)
            /\ \A p \in Promotions : Facts!Current(after, p) = Facts!Current(facts, p)
            /\ \A r \in after : \/ \E f \in scan[s].found : r.content = f.content
                                \/ \E q \in facts : r.content = q.content
<1> DEFINE found == scan[s].found
           t == scan[s].at
           a == CHOOSE f \in found : f.slot = "git"
           b == CHOOSE f \in found : f.slot = "files"
           after == Facts!ObservedAll(found, t)
<1>1. /\ found \subseteq Findings /\ t \in Nat /\ t <= factClock /\ factClock \in Nat
      /\ \A f, g \in found : f.slot = g.slot => f = g
      /\ Ordered(facts)
  BY DEF FactsInv, FactsType, Scans, FoundHere
<1> HIDE DEF found, t
<1>2. found \in SUBSET {a, b}
  <2>1. ASSUME NEW f \in found PROVE f = a \/ f = b
    <3>1. f.slot \in {"git", "files"}
      BY <1>1 DEF Findings
    <3>2. CASE f.slot = "git"
      <4>1. a \in found /\ a.slot = "git"
        BY <3>2
      <4>2. QED
        BY <1>1, <3>2, <4>1
    <3>3. CASE f.slot = "files"
      <4>1. b \in found /\ b.slot = "files"
        BY <3>3
      <4>2. QED
        BY <1>1, <3>3, <4>1
    <3>4. QED
      BY <3>1, <3>2, <3>3
  <2> HIDE DEF a, b
  <2>2. QED
    BY <2>1
<1> HIDE DEF a, b
<1>3. \/ after = facts
      \/ \E f \in found : after = Stored(f, t, facts)
      \/ \E f, g \in found : after = Stored(f, t, Stored(g, t, facts))
  BY <1>2, OneAfterAnother
<1> HIDE DEF after
<1>4. CASE after = facts
  BY <1>1, <1>4 DEF after, found, t
<1>5. CASE \E f \in found : after = Stored(f, t, facts)
  <2>1. PICK f \in found : after = Stored(f, t, facts)
    BY <1>5
  <2>2. f \in Findings
    BY <1>1
  <2>3. /\ Ordered(after)
        /\ \A p \in Promotions : Facts!Current(after, p) = Facts!Current(facts, p)
        /\ \A r \in after : \/ r.content = f.content
                            \/ \E q \in facts : r.content = q.content
    BY <1>1, <2>1, <2>2, StoredInOrder
  <2>4. QED
    BY <2>3 DEF after, found, t
<1>6. CASE \E f, g \in found : after = Stored(f, t, Stored(g, t, facts))
  <2>1. PICK f \in found, g \in found : after = Stored(f, t, Stored(g, t, facts))
    BY <1>6
  <2>2. f \in Findings /\ g \in Findings
    BY <1>1
  <2> DEFINE one == Stored(g, t, facts)
  <2>3. /\ Ordered(one)
        /\ \A p \in Promotions : Facts!Current(one, p) = Facts!Current(facts, p)
        /\ \A r \in one : \/ r.content = g.content
                          \/ \E q \in facts : r.content = q.content
    BY <1>1, <2>2, StoredInOrder
  <2> HIDE DEF one
  <2>4. after = Stored(f, t, one)
    BY <2>1 DEF one
  <2>5. /\ Ordered(after)
        /\ \A p \in Promotions : Facts!Current(after, p) = Facts!Current(one, p)
        /\ \A r \in after : \/ r.content = f.content
                            \/ \E q \in one : r.content = q.content
    BY <1>1, <2>2, <2>3, <2>4, StoredInOrder
  <2>6. \A p \in Promotions : Facts!Current(after, p) = Facts!Current(facts, p)
    BY <2>3, <2>5
  <2>7. \A r \in after : \/ \E h \in found : r.content = h.content
                         \/ \E q \in facts : r.content = q.content
    BY <2>3, <2>5
  <2>8. QED
    BY <2>5, <2>6, <2>7 DEF after, found, t
<1>7. QED
  BY <1>3, <1>4, <1>5, <1>6

(* A scan is stored, or given up.                                          *)
LEMMA ObserveStep ==
  ASSUME FactsInv, NEW s \in Scanners, Facts!ObserveMany(s)
  PROVE  FactsInv' /\ Facts!ReadWhereRegistered
<1> DEFINE after == Facts!ObservedAll(scan[s].found, scan[s].at)
<1>1. /\ scan[s].pc = "commit"
      /\ scan' = [scan EXCEPT ![s] = Facts!Idle]
      /\ UNCHANGED <<promotions, factClock, here, files, git>>
      /\ facts' = IF Facts!StillThere(s) THEN after ELSE facts
  BY DEF Facts!ObserveMany, Facts!At, Facts!world
<1>2. /\ scan \in [Scanners -> Scans] /\ FoundHere(s) /\ factClock \in Nat /\ Ordered(facts)
  BY DEF FactsInv, FactsType
<1>3. /\ Ordered(after)
      /\ \A p \in Promotions : Facts!Current(after, p) = Facts!Current(facts, p)
      /\ \A r \in after : \/ \E f \in scan[s].found : r.content = f.content
                          \/ \E q \in facts : r.content = q.content
  BY AllInOrder
<1> HIDE DEF after
<1>4. /\ Facts!Idle \in Scans /\ Facts!Idle.pc = "idle" /\ Facts!Idle.found = {}
      /\ Facts!Idle.at = 0
  BY DEF Facts!Idle, Scans
<1>5. FactsType'
  BY <1>1, <1>4 DEF FactsInv, FactsType
<1>6. \A q \in Scanners : FoundHere(q)' /\ AskedSafely(q)'
  <2>1. ASSUME NEW q \in Scanners, q # s PROVE scan'[q] = scan[q]
    BY <1>1, <1>2, <2>1
  <2>2. scan'[s] = Facts!Idle
    BY <1>1, <1>2
  <2>3. ASSUME NEW q \in Scanners PROVE FoundHere(q)' /\ AskedSafely(q)'
    <3>1. CASE q = s
      BY <1>1, <1>2, <1>4, <2>2, <3>1 DEF FoundHere, AskedSafely
    <3>2. CASE q # s
      BY <1>1, <2>1, <3>2 DEF FactsInv, FoundHere, AskedSafely
    <3>3. QED
      BY <3>1, <3>2
  <2>4. QED
    BY <2>3
<1>7. /\ Ordered(facts)'
      /\ \A p \in Promotions : Facts!Current(facts', p) = Facts!Current(facts, p)
  <2>1. Ordered(facts')
    BY <1>1, <1>2, <1>3
  <2>2. \A p \in Promotions : Facts!Current(facts', p) = Facts!Current(facts, p)
    BY <1>1, <1>3
  <2>3. QED
    BY <1>1, <2>1, <2>2 DEF Ordered, Facts!Current
<1>8. \A p \in Promotions :
        promotions'[p] = "approved" <=> Facts!Current(facts, Facts!Rule(p))' # {}
  BY <1>1, <1>7 DEF FactsInv, Facts!Rule, Facts!Current
<1>9. ASSUME NEW r \in facts' \ facts, \A q \in facts : q.content # r.content
      PROVE  here = r.content.from /\ row.identity = here /\ row.enabled /\ r.content.safe
  <2>1. Facts!StillThere(s) /\ r \in after
    BY <1>1, <1>9
  <2>2. PICK f \in scan[s].found : r.content = f.content
    BY <1>3, <1>9, <2>1
  <2>3. f.content.from = scan[s].dir /\ f.content.safe
    BY <1>1, <1>2 DEF FoundHere
  <2>4. QED
    BY <2>1, <2>2, <2>3 DEF Facts!StillThere, Facts!AnchorMatches, Facts!RecordMatches
<1>10. QED
  BY <1>5, <1>6, <1>7, <1>8, <1>9 DEF FactsInv, Facts!ReadWhereRegistered

(* A rule is approved, once or more.                                       *)
LEMMA ApproveStep ==
  ASSUME FactsInv, NEW p \in Promotions, Facts!ApprovePromotion(p)
  PROVE  FactsInv' /\ Facts!ReadWhereRegistered
<1> DEFINE f == Facts!Fact(Facts!Rule(p), p, factClock, "active")
           after == Facts!Observed(f, facts)
<1>1. /\ promotions' = [promotions EXCEPT ![p] = "approved"]
      /\ facts' = after
      /\ UNCHANGED <<row, scan, factClock, here, files, git>>
  BY DEF Facts!ApprovePromotion, Facts!world
<1>2. factClock \in Nat /\ Ordered(facts)
      /\ promotions \in [Promotions -> {"none", "pending", "approved"}]
  BY DEF FactsInv, FactsType
<1>3. /\ f \in FactRows /\ f.slot = p /\ f.content = p /\ f.at = factClock
  BY <1>2 DEF Facts!Fact, Facts!Rule, FactRows, Slots
<1> HIDE DEF f
<1>4. f.at <= factClock
  BY <1>2, <1>3
<1>5. /\ Ordered(after)
      /\ \A slot : slot # f.slot => Facts!Current(after, slot) = Facts!Current(facts, slot)
      /\ f.slot \in Promotions => Facts!Current(after, f.slot) # {}
      /\ \A r \in after : \/ r.slot = f.slot /\ r.content = f.content
                          \/ \E q \in facts : r.slot = q.slot /\ r.content = q.content
  BY <1>2, <1>3, <1>4, ObservedInOrder
<1> HIDE DEF after
<1>6. FactsType'
  BY <1>1 DEF FactsInv, FactsType
<1>7. \A q \in Scanners : FoundHere(q)' /\ AskedSafely(q)'
  BY <1>1 DEF FactsInv, FoundHere, AskedSafely
<1>8. Ordered(facts)'
  <2>1. Ordered(facts')
    BY <1>1, <1>5
  <2>2. QED
    BY <1>1, <2>1 DEF Ordered, Facts!Current
<1>9. \A o \in Promotions :
        promotions'[o] = "approved" <=> Facts!Current(facts, Facts!Rule(o))' # {}
  <2>1. ASSUME NEW o \in Promotions
        PROVE  promotions'[o] = "approved" <=> Facts!Current(facts', o) # {}
    <3>1. CASE o = p
      BY <1>1, <1>2, <1>3, <1>5, <3>1
    <3>2. CASE o # p
      <4>1. promotions[o] = "approved" <=> Facts!Current(facts, o) # {}
        BY DEF FactsInv, Facts!Rule
      <4>2. QED
        BY <1>1, <1>2, <1>3, <1>5, <3>2, <4>1
    <3>3. QED
      BY <3>1, <3>2
  <2>2. QED
    BY <2>1 DEF Facts!Rule, Facts!Current
<1>10. Facts!ReadWhereRegistered
  <2>1. \A r \in facts' \ facts : r.slot \in {"git", "files"} =>
          \E q \in facts : q.content = r.content
    BY <1>1, <1>3, <1>5, PromotionsAssumption
  <2>2. QED
    BY <2>1 DEF Facts!ReadWhereRegistered
<1>11. QED
  BY <1>6, <1>7, <1>8, <1>9, <1>10 DEF FactsInv

-----------------------------------------------------------------------------
(* The world.                                                              *)

(* A version of the configuration of git is used once.                     *)
LEMMA EditGitStep ==
  ASSUME FactsInv, Facts!EditGitConfig
  PROVE  FactsInv'
<1>1. PICK safe \in BOOLEAN :
        git' = [git EXCEPT ![here] = [version |-> @.version + 1, safe |-> safe]]
  BY DEF Facts!EditGitConfig
<1>2. /\ here # NONE
      /\ UNCHANGED <<factClock, here, files, row, facts, promotions, scan>>
  BY DEF Facts!EditGitConfig, Facts!Changing
<1>3. /\ git \in [Directories -> Configs] /\ here \in Directories
      /\ scan \in [Scanners -> Scans]
  BY <1>2 DEF FactsInv, FactsType
<1>4. /\ git' \in [Directories -> Configs]
      /\ \A d \in Directories : \/ git'[d] = git[d]
                                \/ git'[d].version = git[d].version + 1
  BY <1>1, <1>3 DEF Configs
<1>5. FactsType'
  BY <1>2, <1>4 DEF FactsInv, FactsType
<1>6. ASSUME NEW s \in Scanners PROVE FoundHere(s)' /\ AskedSafely(s)'
  <2>1. FoundHere(s) /\ AskedSafely(s)
    BY DEF FactsInv
  <2>2. FoundHere(s)'
    BY <1>2, <2>1 DEF FoundHere
  <2>3. CASE scan[s].pc \in {"git", "confirm"}
    <3> DEFINE was == git[scan[s].dir]
               now == git'[scan[s].dir]
               checked == scan[s].config
    <3>1. scan[s].dir \in Directories
      BY <2>1, <2>3 DEF FoundHere
    <3>2. /\ was \in Configs /\ now \in Configs
          /\ now = was \/ now.version = was.version + 1
      BY <1>3, <1>4, <3>1
    <3>3. /\ checked \in Configs /\ checked.safe
          /\ checked.version <= was.version
          /\ was.version = checked.version => was = checked
          /\ \A f \in scan[s].found :
               /\ checked.version <= f.content.version
               /\ f.content.version <= was.version
               /\ f.content.version = checked.version => f.content.safe
      BY <2>1, <2>3 DEF AskedSafely
    <3>4. was.version \in Nat /\ now.version \in Nat /\ checked.version \in Nat
          /\ \A f \in scan[s].found : f.content.version \in Nat
      <4>1. scan[s].found \subseteq Findings
        BY <1>3 DEF Scans
      <4> HIDE DEF was, now, checked
      <4>2. \A f \in Findings : f.content.version \in Nat
        BY DEF Findings, Readings
      <4>3. QED
        BY <3>2, <3>3, <4>1, <4>2 DEF Configs
    <3>5. /\ checked.version <= now.version
          /\ now.version = checked.version => now = checked
          /\ \A f \in scan[s].found : f.content.version <= now.version
      <4> HIDE DEF was, now, checked
      <4> QED BY <3>2, <3>3, <3>4
    <3>6. QED
      BY <1>2, <2>2, <3>3, <3>5 DEF AskedSafely
  <2>4. CASE scan[s].pc \notin {"git", "confirm"}
    BY <1>2, <2>2, <2>4 DEF AskedSafely
  <2>5. QED
    BY <2>3, <2>4
<1>7. Ordered(facts)'
  BY <1>2 DEF FactsInv, Ordered, Facts!Current
<1>8. \A p \in Promotions :
        promotions'[p] = "approved" <=> Facts!Current(facts, Facts!Rule(p))' # {}
  BY <1>2 DEF FactsInv, Facts!Current, Facts!Rule
<1>9. QED
  BY <1>5, <1>6, <1>7, <1>8 DEF FactsInv

(* Time passes, files change, directories are replaced, projects relinked  *)
(* and promotions asked for.                                               *)
LEMMA OtherFactStep ==
  ASSUME FactsInv,
         \/ Facts!Tick \/ Facts!EditFile \/ Facts!ReplaceDirectory \/ Facts!ChangeRow
         \/ \E p \in Promotions : Facts!RequestPromotion(p)
         \/ UNCHANGED Facts!vars
  PROVE  FactsInv'
<1>1. /\ UNCHANGED <<git, facts, scan>>
      /\ factClock' \in Nat /\ factClock <= factClock'
      /\ factClock \in Nat
      /\ here' \in Directories \cup {NONE}
      /\ files' \in [Directories -> Nat]
      /\ promotions' \in [Promotions -> {"none", "pending", "approved"}]
      /\ \A p \in Promotions : promotions'[p] = "approved" <=> promotions[p] = "approved"
  <2>1. FactsType
    BY DEF FactsInv
  <2>2. CASE Facts!Tick
    BY <2>1, <2>2 DEF FactsType, Facts!Tick
  <2>3. CASE Facts!EditFile
    <3>1. files' = [files EXCEPT ![here] = @ + 1]
          /\ UNCHANGED <<factClock, here, git, facts, promotions, scan>>
      BY <2>3 DEF Facts!EditFile
    <3>2. files' \in [Directories -> Nat]
      <4>1. files \in [Directories -> Nat] /\ \A d \in Directories : files[d] + 1 \in Nat
        BY <2>1 DEF FactsType
      <4>2. here \in Directories
        BY <2>1, <2>3 DEF FactsType, Facts!EditFile
      <4>3. QED
        BY <3>1, <4>1, <4>2
    <3>3. QED
      BY <2>1, <3>1, <3>2 DEF FactsType
  <2>4. CASE Facts!ReplaceDirectory
    BY <2>1, <2>4 DEF FactsType, Facts!ReplaceDirectory
  <2>5. CASE Facts!ChangeRow
    BY <2>1, <2>5 DEF FactsType, Facts!ChangeRow
  <2>6. CASE \E p \in Promotions : Facts!RequestPromotion(p)
    BY <2>1, <2>6 DEF FactsType, Facts!RequestPromotion, Facts!world
  <2>7. CASE UNCHANGED Facts!vars
    BY <2>1, <2>7 DEF FactsType, Facts!vars
  <2>8. QED
    BY <2>2, <2>3, <2>4, <2>5, <2>6, <2>7
<1>2. FactsType'
  BY <1>1 DEF FactsInv, FactsType
<1>3. Ordered(facts)'
  <2>1. \A r \in facts : r.at <= factClock'
    <3>1. ASSUME NEW r \in facts PROVE r.at <= factClock'
      <4>1. r.at \in Nat /\ r.at <= factClock
        BY DEF FactsInv, Ordered, FactRows
      <4>2. QED
        BY <1>1, <4>1
    <3>2. QED
      BY <3>1
  <2>2. QED
    BY <1>1, <2>1 DEF FactsInv, Ordered, Facts!Current
<1>4. ASSUME NEW s \in Scanners PROVE FoundHere(s)' /\ AskedSafely(s)'
  <2>1. scan[s].at <= factClock'
    <3>1. scan[s].at \in Nat /\ scan[s].at <= factClock
      BY DEF FactsInv, FactsType, Scans, FoundHere
    <3>2. QED
      BY <1>1, <3>1
  <2>2. QED
    BY <1>1, <2>1 DEF FactsInv, FoundHere, AskedSafely
<1>5. \A p \in Promotions :
        promotions'[p] = "approved" <=> Facts!Current(facts, Facts!Rule(p))' # {}
  BY <1>1 DEF FactsInv, Facts!Current, Facts!Rule
<1>6. QED
  BY <1>2, <1>3, <1>4, <1>5 DEF FactsInv

-----------------------------------------------------------------------------
(* The facts in every reachable state.                                     *)

(* There are none at first.                                                *)
LEMMA FactsInit ==
  ASSUME Facts!Init
  PROVE  FactsInv
<1>1. /\ factClock = 1 /\ here \in Directories
      /\ files = [d \in Directories |-> 0]
      /\ git = [d \in Directories |-> [version |-> 0, safe |-> TRUE]]
      /\ facts = {}
      /\ promotions = [p \in Promotions |-> "none"]
      /\ scan = [s \in Scanners |-> Facts!Idle]
  BY DEF Facts!Init
<1>2. /\ Facts!Idle \in Scans /\ Facts!Idle.pc = "idle" /\ Facts!Idle.found = {}
      /\ Facts!Idle.at = 0
  BY DEF Facts!Idle, Scans
<1>3. FactsType
  BY <1>1, <1>2 DEF FactsType, Configs
<1>4. Ordered(facts)
  BY <1>1 DEF Ordered
<1>5. \A s \in Scanners : FoundHere(s) /\ AskedSafely(s)
  BY <1>1, <1>2 DEF FoundHere, AskedSafely
<1>6. \A p \in Promotions :
        promotions[p] = "approved" <=> Facts!Current(facts, Facts!Rule(p)) # {}
  BY <1>1 DEF Facts!Current
<1>7. QED
  BY <1>3, <1>4, <1>5, <1>6 DEF FactsInv

(* Every step keeps the invariant and stores what was read where the       *)
(* project is.                                                             *)
LEMMA FactsStep ==
  ASSUME FactsInv, [Facts!Next]_(Facts!vars)
  PROVE  FactsInv' /\ Facts!ReadWhereRegistered
<1>1. CASE \E s \in Scanners : Facts!ObserveMany(s)
  BY <1>1, ObserveStep
<1>2. CASE \E p \in Promotions : Facts!ApprovePromotion(p)
  BY <1>2, ApproveStep
<1>3. CASE \E s \in Scanners :
             \/ Facts!OpenAnchor(s) \/ Facts!OpenGitConfig(s) \/ Facts!GitFacts(s)
             \/ Facts!ConfirmGitConfig(s) \/ Facts!ReadFiles(s) \/ Facts!Stamp(s)
  <2>1. PICK s \in Scanners :
             \/ Facts!OpenAnchor(s) \/ Facts!OpenGitConfig(s) \/ Facts!GitFacts(s)
             \/ Facts!ConfirmGitConfig(s) \/ Facts!ReadFiles(s) \/ Facts!Stamp(s)
    BY <1>3
  <2>2. facts' = facts
    BY <2>1 DEF Facts!OpenAnchor, Facts!OpenGitConfig, Facts!GitFacts,
      Facts!ConfirmGitConfig, Facts!ReadFiles, Facts!Stamp
  <2>3. FactsInv'
    BY <2>1, OpenStep, ReadStep, CheckStep
  <2>4. QED
    BY <2>2, <2>3 DEF Facts!ReadWhereRegistered
<1>4. CASE Facts!EditGitConfig
  BY <1>4, EditGitStep DEF Facts!EditGitConfig, Facts!ReadWhereRegistered
<1>5. CASE \/ Facts!Tick \/ Facts!EditFile \/ Facts!ReplaceDirectory \/ Facts!ChangeRow
           \/ \E p \in Promotions : Facts!RequestPromotion(p)
           \/ UNCHANGED Facts!vars
  <2>1. facts' = facts
    BY <1>5 DEF Facts!Tick, Facts!EditFile, Facts!ReplaceDirectory, Facts!ChangeRow,
      Facts!RequestPromotion, Facts!vars
  <2>2. QED
    BY <1>5, <2>1, OtherFactStep DEF Facts!ReadWhereRegistered
<1>6. QED
  BY <1>1, <1>2, <1>3, <1>4, <1>5 DEF Facts!Next, Facts!Scan

(* While the focus is on the facts, they move alone.                       *)
LEMMA FactsMove ==
  ASSUME [Next]_vars, focus = "facts"
  PROVE  focus' = "facts" /\ [Facts!Next]_(Facts!vars)
<1>1. CASE UNCHANGED vars
  BY <1>1 DEF vars, factsVars, Facts!vars
<1>2. CASE Next
  BY <1>2 DEF Next, Facts!Next, FactsAlone
<1>3. QED
  BY <1>1, <1>2

(* The invariant holds in every reachable state.                           *)
LEMMA FactsInvariance ==
  /\ Init => (focus = "facts" => FactsInv)
  /\ (focus = "facts" => FactsInv) /\ [Next]_vars => (focus = "facts" => FactsInv)'
<1>1. Init => (focus = "facts" => FactsInv)
  BY FactsInit DEF Init
<1>2. ASSUME focus = "facts" => FactsInv, [Next]_vars, focus' = "facts"
      PROVE  FactsInv'
  <2>1. focus = "facts"
    BY <1>2 DEF Next, vars, KeptAlone, FactsAlone, BriefAlone, RetryAlone
  <2>2. [Facts!Next]_(Facts!vars)
    BY <1>2, <2>1, FactsMove
  <2>3. QED
    BY <1>2, <2>1, <2>2, FactsStep
<1>3. QED
  BY <1>1, <1>2

(* However scans overtake one another, the current fact of a slot is the   *)
(* one last observed, and a rule is a fact exactly when it was approved.   *)
(* (storage/facts.py; the run knowledge checks it on one instance)         *)
THEOREM CurrentIsAlwaysLatest == Spec => []CurrentIsLatest
<1> DEFINE Good == focus = "facts" => FactsInv
<1>1. Init => Good
  BY FactsInvariance
<1>2. Good /\ [Next]_vars => Good'
  BY FactsInvariance
<1>3. Good => CurrentIsLatest
  BY DEF FactsInv, Ordered, CurrentIsLatest, Facts!CurrentIsLatest
<1>4. QED
  BY <1>1, <1>2, <1>3, PTL DEF Spec

(* A fact is stored only for the directory it was read in, while the       *)
(* project is bound to it, and what git says only under a safe             *)
(* configuration.                                                          *)
(* (services/project_facts.py; the run knowledge checks it on one instance)*)
THEOREM FactsAreReadWhereRegistered == Spec => ReadWhereRegistered
<1> DEFINE Good == focus = "facts" => FactsInv
           Safe == focus = "facts" => Facts!ReadWhereRegistered
<1>1. Init => Good
  BY FactsInvariance
<1>2. Good /\ [Next]_vars => Good'
  BY FactsInvariance
<1>3. Good /\ [Next]_vars => [Safe]_vars
  BY FactsMove, FactsStep
<1>4. QED
  BY <1>1, <1>2, <1>3, PTL DEF Spec, ReadWhereRegistered
-----------------------------------------------------------------------------
(* The brief. A search for the most rows, or the most of each, ends where   *)
(* the greatest that fits is, since less of it fits too; and while one      *)
(* counter has answered every question (Sure) all it knows stays true.      *)

(* A strict order, by what comes after each element, and the first of a set.*)
Orders(after, S) ==
  /\ \A x, y \in S : x # y => y \in after[x] \/ x \in after[y]
  /\ \A x, y, z \in S : y \in after[x] /\ z \in after[y] => z \in after[x]
IsFirst(x, T, after) == x \in T /\ \A y \in T \ {x} : y \in after[x]

(* A finite set in a strict order has a first element.                     *)
LEMMA FirstExists ==
  ASSUME NEW S, IsFiniteSet(S), NEW T \in SUBSET S, T # {}, NEW R, Orders(R, S)
  PROVE  \E x : IsFirst(x, T, R)
<1> USE DEF Orders, IsFirst
<1> DEFINE First(Q) == \E x : IsFirst(x, Q, R)
           Bad == {Cardinality(Q) : Q \in {P \in SUBSET S : P # {} /\ ~First(P)}}
<1>1. SUFFICES ASSUME ~First(T) PROVE FALSE
  OBVIOUS
<1>2. Bad \in SUBSET Nat
  BY FS_Subset, FS_CardinalityType
<1>3. Cardinality(T) \in Bad
  BY <1>1
<1> HIDE DEF Bad
<1>4. PICK n \in Bad : \A m \in Bad : n <= m
  BY <1>2, <1>3, Sum!LeastExists
<1>5. PICK Q \in SUBSET S : Q # {} /\ ~First(Q) /\ n = Cardinality(Q)
  BY DEF Bad
<1>6. PICK x \in Q : TRUE
  BY <1>5
<1>7. /\ Q \ {x} \in SUBSET S
      /\ Cardinality(Q) \in Nat /\ Cardinality(Q \ {x}) = Cardinality(Q) - 1
  <2>1. IsFiniteSet(Q)
    BY FS_Subset
  <2>2. QED
    BY <2>1, FS_RemoveElement, FS_CardinalityType
<1>8. Q \ {x} # {}
  BY <1>5, <1>6, <1>7
<1>9. First(Q \ {x})
  <2>1. Cardinality(Q \ {x}) \notin Bad
    BY <1>4, <1>5, <1>6, <1>7
  <2>2. QED
    BY <1>6, <1>7, <1>8, <2>1 DEF Bad
<1>10. PICK y \in Q \ {x} : \A z \in (Q \ {x}) \ {y} : z \in R[y]
  BY <1>9
<1>11. CASE x \in R[y]
  <2>1. \A z \in Q \ {y} : z \in R[y]
    BY <1>10, <1>11
  <2>2. QED
    BY <1>5, <1>10, <2>1
<1>12. CASE y \in R[x]
  <2>1. \A z \in Q \ {x} : z \in R[x]
    BY <1>5, <1>6, <1>7, <1>10, <1>12
  <2>2. QED
    BY <1>5, <1>6, <1>7, <2>1
<1>13. QED
  BY <1>5, <1>6, <1>7, <1>10, <1>11, <1>12

(* A finite set of numbers has a least and a greatest.                     *)
LEMMA ExtremesExist ==
  ASSUME NEW S \in SUBSET Int, IsFiniteSet(S), S # {}
  PROVE  /\ \E x \in S : \A y \in S : x <= y
         /\ \E x \in S : \A y \in S : x >= y
<1> DEFINE Up == [x \in S |-> {y \in S : x < y}]
           Down == [x \in S |-> {y \in S : x > y}]
<1>1. \A x, y \in S : (y \in Up[x] <=> x < y) /\ (y \in Down[x] <=> x > y)
  OBVIOUS
<1> HIDE DEF Up, Down
<1>2. Orders(Up, S)
  BY <1>1 DEF Orders
<1>3. Orders(Down, S)
  BY <1>1 DEF Orders
<1>4. S \in SUBSET S
  OBVIOUS
<1>5. PICK x : IsFirst(x, S, Up)
  BY <1>2, <1>4, FirstExists
<1>6. PICK z : IsFirst(z, S, Down)
  BY <1>3, <1>4, FirstExists
<1>7. ASSUME NEW y \in S PROVE x \in S /\ z \in S /\ x <= y /\ z >= y
  <2>1. x \in S /\ z \in S /\ (y = x \/ x < y) /\ (y = z \/ z > y)
    BY <1>1, <1>5, <1>6 DEF IsFirst
  <2>2. QED
    BY <2>1
<1>8. QED
  BY <1>7

Briefs ==
  [pc : {"find", "not_found", "identify", "read", "mandatory", "prefix", "limit", "enforce",
         "optional", "trim", "brief"},
   identity : {1, 2, NONE}, unread : SUBSET (Brief!Places \X Brief!Queries),
   read : SUBSET Rows, fallback : BOOLEAN, again : BOOLEAN, lower : Nat, upper : Nat,
   retained : SUBSET Rows, selected : SUBSET Rows, limit : Nat, rest : SUBSET Rows,
   tokens : Nat]

RecallType ==
  /\ rows \in [Rows -> [kind : Kinds, content : Rows, length : Lengths, relevant : BOOLEAN]]
  /\ active \subseteq Rows /\ steady \in BOOLEAN
  /\ directory \in {1, 2, NONE}
  /\ call \in Briefs

(* Every answer since the selection began was that of one counter.          *)
Sure == call.again \/ (steady /\ ~call.fallback)

Whole == Brief!Cardinality(Brief!Mandatory)

(* The most of the best mandatory rows that fit.                            *)
SizeFound(n) ==
  /\ n \in 0..Whole /\ Brief!FitsWith(Brief!Prefix(n), 1)
  /\ \A m \in (n + 1)..Whole : ~Brief!FitsWith(Brief!Prefix(m), 1)

(* Where the binary searches are.                                          *)
SearchBounds ==
  /\ call.pc = "prefix" => call.lower <= call.upper /\ call.upper <= Whole
  /\ call.pc = "limit" =>
       /\ call.retained # {} /\ 1 <= call.lower /\ call.lower <= call.upper
       /\ call.upper <= Brief!Maximum(call.retained)

(* What they know while the counter is sure.                               *)
PrefixSearch ==
  /\ ~Brief!FitsWith(Brief!Mandatory, 0)
  /\ Brief!FitsWith(Brief!Prefix(call.lower), 1)
  /\ \A n \in (call.upper + 1)..Whole : ~Brief!FitsWith(Brief!Prefix(n), 1)

LimitSearch ==
  /\ ~Brief!FitsWith(Brief!Mandatory, 0)
  /\ \E n \in Nat : SizeFound(n) /\ call.retained = Brief!Prefix(n)
  /\ Brief!FitsWith(call.retained, call.lower)
  /\ \A n \in (call.upper + 1)..Brief!Maximum(call.retained) : ~Brief!FitsWith(call.retained, n)

(* The mandatory rows and the limit that the counter stands for.           *)
MandatoryFound(S, l) ==
  LET sizes == {n \in 0..Whole : Brief!FitsWith(Brief!Prefix(n), 1)}
      limits == {n \in 1..Brief!Max(Lengths) : Brief!FitsWith(S, n)}
  IN IF Brief!FitsWith(Brief!Mandatory, 0)
     THEN S = Brief!Mandatory /\ l = 0
     ELSE /\ S = Brief!Prefix(Brief!Max(sizes))
          /\ S # {} => l = Brief!Min({Brief!Maximum(S), Brief!Max(limits)})

(* The optional rows that were tried are the best, each taken if it fits.   *)
Tried == Brief!Optional \ call.rest
OptionalSoFar ==
  /\ call.rest \subseteq Brief!Optional
  /\ call.selected \subseteq Brief!Mandatory \cup Tried
  /\ Brief!FitsWith(call.selected, call.limit)
  /\ \A r \in Tried, s \in call.rest : Brief!RanksBefore(r, s)
  /\ \A r \in Tried :
       r \in call.selected <=>
         Brief!FitsWith({s \in call.selected : Brief!IsMandatory(s) \/ Brief!RanksBefore(s, r)}
                          \cup {r}, call.limit)

RecallInv ==
  /\ RecallType /\ SearchBounds
  /\ call.again => call.fallback
  /\ call.pc = "enforce" => ~Sure
  /\ call.pc \in {"trim", "brief"} =>
       /\ call.selected = {} => call.tokens = 0
       /\ steady => Sure
  /\ call.pc = "brief" => ~Brief!OverBudget
  /\ Sure =>
       /\ call.pc = "prefix" => PrefixSearch
       /\ call.pc = "limit" => LimitSearch
       /\ call.pc = "optional" => OptionalSoFar
       /\ call.pc \in {"optional", "trim", "brief"} =>
            MandatoryFound(call.selected \cap Brief!Mandatory, call.limit)
       /\ call.pc \in {"trim", "brief"} =>
            Brief!OptionalAsCounted /\ call.tokens <= Budget

-----------------------------------------------------------------------------
(* Counting.                                                               *)

(* The greatest and the least of a set.                                    *)
LEMMA BriefExtremes ==
  ASSUME NEW S \in SUBSET Int, IsFiniteSet(S), S # {}
  PROVE  /\ Brief!Max(S) \in S /\ \A y \in S : y <= Brief!Max(S)
         /\ Brief!Min(S) \in S /\ \A y \in S : Brief!Min(S) <= y
<1>1. Brief!Max(S) \in S /\ \A y \in S : Brief!Max(S) >= y
  BY ExtremesExist, Zenon DEF Brief!Max
<1>2. Brief!Min(S) \in S /\ \A y \in S : Brief!Min(S) <= y
  BY ExtremesExist, Zenon DEF Brief!Min
<1>3. QED
  BY <1>1, <1>2

(* Recall counts with the same cardinality.                                *)
LEMMA BriefCardinality ==
  ASSUME NEW S
  PROVE  Brief!Cardinality(S) = Cardinality(S)
BY DEF Cardinality, Brief!Cardinality

(* Two values make a finite set.                                           *)
LEMMA PairIsFinite ==
  ASSUME NEW a, NEW b
  PROVE  IsFiniteSet({a, b})
<1>1. IsFiniteSet({a}) /\ {a, b} = {a} \cup {b}
  BY FS_Singleton
<1>2. QED
  BY <1>1, FS_AddElement

(* One of two numbers.                                                     *)
LEMMA LesserOfTwo ==
  ASSUME NEW a \in Int, NEW b \in Int
  PROVE  Brief!Min({a, b}) = IF a <= b THEN a ELSE b
<1>1. {a, b} \in SUBSET Int /\ IsFiniteSet({a, b}) /\ {a, b} # {}
  BY PairIsFinite
<1>2. Brief!Min({a, b}) \in {a, b} /\ \A y \in {a, b} : Brief!Min({a, b}) <= y
  BY <1>1, BriefExtremes
<1>3. QED
  BY <1>2

(* The rows of a project are finitely many, with a length and a relevance. *)
LEMMA RowFacts ==
  ASSUME RecallType
  PROVE  \A r \in Rows :
           /\ r \in Nat /\ rows[r].length \in Lengths /\ rows[r].length \in Nat
           /\ rows[r].length >= 1 /\ rows[r].relevant \in BOOLEAN
<1> SUFFICES ASSUME NEW r \in Rows
             PROVE  /\ r \in Nat /\ rows[r].length \in Lengths /\ rows[r].length \in Nat
                    /\ rows[r].length >= 1 /\ rows[r].relevant \in BOOLEAN
  OBVIOUS
<1>1. rows[r].length \in Lengths /\ rows[r].relevant \in BOOLEAN
  BY DEF RecallType
<1>2. r \in Nat /\ Lengths \subseteq Nat \ {0}
  BY RecallAssumption
<1>3. rows[r].length \in Nat \ {0}
  BY <1>1, <1>2
<1>4. QED
  BY <1>1, <1>2, <1>3

(* What is shown of a row grows with the limit.                            *)
LEMMA ShownGrows ==
  ASSUME RecallType, NEW r \in Rows, NEW l \in Nat, NEW m \in Nat,
         l = m \/ (1 <= l /\ l <= m)
  PROVE  Brief!Shown(r, l) \in Nat /\ Brief!Shown(r, l) <= Brief!Shown(r, m)
<1>1. rows[r].length \in Nat
  BY RowFacts
<1>2. ASSUME NEW k \in Nat
      PROVE  Brief!Shown(r, k) = IF k = 0 \/ ~Brief!IsMandatory(r) THEN rows[r].length
               ELSE (IF rows[r].length <= k + 1 THEN rows[r].length ELSE k + 1) + 1
  BY <1>1, LesserOfTwo DEF Brief!Shown
<1>3. QED
  BY <1>1, <1>2

(* The sum of what is shown.                                               *)
Text(S, l) == SumFunction([r \in S |-> Brief!Shown(r, l)])
Headings(S) == {Brief!IsMandatory(r) : r \in S}

(* The characters of a brief are those of its headings and of what is shown.*)
LEMMA CharactersAre ==
  ASSUME NEW S, NEW l
  PROVE  Brief!Characters(S, l) = Cardinality(Headings(S)) + Text(S, l)
<1> DEFINE f == [r \in S |-> Brief!Shown(r, l)]
<1>1. Brief!Characters(S, l) = Cardinality(Headings(S)) + Brief!SumFunction(f)
  BY BriefCardinality, Zenon DEF Brief!Characters, Headings
<1>2. Brief!SumFunction(f) = SumFunction(f)
  BY DEF Brief!SumFunction, Brief!SumFunctionOnSet, Brief!FoldFunctionOnSet,
         Brief!MapThenFoldSet, SumFunction, SumFunctionOnSet, FoldFunctionOnSet, MapThenFoldSet
<1>3. QED
  BY <1>1, <1>2 DEF Text

(* More rows, or more of each, are more characters; no rows are none.      *)
LEMMA CharactersGrow ==
  ASSUME RecallType, NEW T \in SUBSET Rows, NEW S \in SUBSET T,
         NEW l \in Nat, NEW m \in Nat, l = m \/ (1 <= l /\ l <= m)
  PROVE  /\ Brief!Characters(S, l) \in Nat
         /\ Brief!Characters(S, l) <= Brief!Characters(T, m)
         /\ S = {} => Brief!Characters(S, l) = 0
<1>1. IsFiniteSet(T) /\ IsFiniteSet(S) /\ S \in SUBSET Rows
  BY RecallAssumption, FS_Subset
<1>2. Headings(S) \subseteq Headings(T) /\ IsFiniteSet(Headings(T)) /\ IsFiniteSet(Headings(S))
  <2>1. Headings(S) \subseteq Headings(T)
    BY DEF Headings
  <2>2. IsFiniteSet(Headings(T))
    <3>1. \A r \in T : Brief!IsMandatory(r) \in {TRUE, FALSE}
      BY DEF Brief!IsMandatory
    <3>2. Headings(T) \subseteq {TRUE, FALSE}
      BY <3>1 DEF Headings
    <3>3. IsFiniteSet({TRUE, FALSE})
      BY PairIsFinite, Zenon
    <3>4. QED
      BY <3>2, <3>3, FS_Subset
  <2>3. QED
    BY <2>1, <2>2, FS_Subset
<1>3. Cardinality(Headings(S)) \in Nat /\ Cardinality(Headings(T)) \in Nat
      /\ Cardinality(Headings(S)) <= Cardinality(Headings(T))
  BY <1>2, FS_Subset, FS_CardinalityType
<1> DEFINE f == [r \in S |-> Brief!Shown(r, l)]
           k == [r \in T |-> Brief!Shown(r, m)]
<1>4. f \in [S -> Nat] /\ k \in [T -> Nat] /\ \A r \in S : f[r] <= k[r]
  BY ShownGrows
<1>5. f \in [S -> Int] /\ k \in [T -> Int]
  BY <1>4
<1> HIDE DEF f, k
<1>6. SumFunction(f) <= SumFunction(k)
  BY <1>1, <1>4, SumMonotone
<1>7. SumFunction(f) \in Int /\ SumFunction(k) \in Int /\ (S = {} => SumFunction(f) = 0)
  BY <1>1, <1>5, SumType
<1>8. 0 <= SumFunction(f)
  <2> DEFINE e == [r \in {} |-> 0]
  <2>1. IsFiniteSet({}) /\ e \in [{} -> Nat] /\ e \in [{} -> Int] /\ {} \in SUBSET S
    BY FS_EmptySet
  <2>2. \A r \in {} : e[r] <= f[r]
    OBVIOUS
  <2> HIDE DEF e
  <2>3. SumFunction(e) = 0
    BY <2>1, SumType
  <2>4. SumFunction(e) <= SumFunction(f)
    BY <1>1, <1>4, <2>1, <2>2, SumMonotone
  <2>5. QED
    BY <2>3, <2>4
<1>9. S = {} => Cardinality(Headings(S)) = 0
  <2>1. S = {} => Headings(S) = {}
    BY DEF Headings
  <2>2. QED
    BY <2>1, FS_EmptySet
<1>10. Text(S, l) = SumFunction(f) /\ Text(T, m) = SumFunction(k)
  BY DEF Text, f, k
<1>11. QED
  BY <1>3, <1>6, <1>7, <1>8, <1>9, <1>10, CharactersAre

(* A product grows with its factor.                                        *)
LEMMA Product ==
  ASSUME NEW a \in Nat, NEW b \in Nat, NEW w \in Nat, a <= b
  PROVE  w * a <= w * b /\ w * a \in Nat /\ w * b \in Nat
OBVIOUS

(* More characters are more tokens.                                        *)
LEMMA TokensGrow ==
  ASSUME RecallType, NEW T \in SUBSET Rows, NEW S \in SUBSET T, NEW b,
         NEW l \in Nat, NEW m \in Nat, l = m \/ (1 <= l /\ l <= m)
  PROVE  /\ Brief!Tokens(b, S, l) \in Nat
         /\ Brief!Tokens(b, S, l) <= Brief!Tokens(b, T, m)
         /\ S = {} => Brief!Tokens(b, S, l) = 0
<1>1. /\ Brief!Characters(S, l) \in Nat /\ Brief!Characters(T, m) \in Nat
      /\ Brief!Characters(S, l) <= Brief!Characters(T, m)
      /\ S = {} => Brief!Characters(S, l) = 0
  BY CharactersGrow
<1>2. QED
  BY <1>1, Product, RecallAssumption DEF Brief!Tokens

(* What fits, fits with fewer rows and less of each; nothing always fits.  *)
LEMMA FewerFit ==
  ASSUME RecallType, NEW T \in SUBSET Rows, NEW S \in SUBSET T,
         NEW l \in Nat, NEW m \in Nat, l = m \/ (1 <= l /\ l <= m),
         Brief!FitsWith(T, m) \/ S = {}
  PROVE  Brief!FitsWith(S, l)
<1>1. /\ Brief!Tokens(call.fallback, S, l) \in Nat
      /\ Brief!Tokens(call.fallback, S, l) <= Brief!Tokens(call.fallback, T, m)
      /\ S = {} => Brief!Tokens(call.fallback, S, l) = 0
  BY TokensGrow
<1>2. T \in SUBSET T /\ Brief!Tokens(call.fallback, T, m) \in Nat
  BY TokensGrow
<1>3. QED
  BY <1>1, <1>2, RecallAssumption DEF Brief!FitsWith

(* Rows are ranked in a strict order.                                      *)
LEMMA Ranking ==
  ASSUME RecallType
  PROVE  /\ \A r, s \in Rows : r # s => Brief!RanksBefore(r, s) \/ Brief!RanksBefore(s, r)
         /\ \A r, s, t \in Rows :
              Brief!RanksBefore(r, s) /\ Brief!RanksBefore(s, t) => Brief!RanksBefore(r, t)
         /\ \A r, s \in Rows : ~(Brief!RanksBefore(r, s) /\ Brief!RanksBefore(s, r))
<1>1. \A r \in Rows : r \in Nat /\ rows[r].relevant \in BOOLEAN
  BY RowFacts
<1>2. QED
  BY <1>1 DEF Brief!RanksBefore

(* Of any rows one ranks before all others.                                *)
LEMMA BestExists ==
  ASSUME RecallType, NEW S \in SUBSET Rows, S # {}
  PROVE  Brief!Best(S) \in S /\ \A s \in S \ {Brief!Best(S)} : Brief!RanksBefore(Brief!Best(S), s)
<1> DEFINE after == [r \in Rows |-> {s \in Rows : Brief!RanksBefore(r, s)}]
<1>1. \A r, s \in Rows : s \in after[r] <=> Brief!RanksBefore(r, s)
  OBVIOUS
<1> HIDE DEF after
<1>2. Orders(after, Rows)
  BY <1>1, Ranking DEF Orders
<1>3. PICK r : IsFirst(r, S, after)
  BY <1>2, RecallAssumption, FirstExists
<1>4. r \in S /\ \A s \in S \ {r} : Brief!RanksBefore(r, s)
  BY <1>1, <1>3 DEF IsFirst
<1>5. QED
  BY <1>4, Zenon DEF Brief!Best

(* The candidates are rows, and either mandatory or optional.              *)
LEMMA CandidateFacts ==
  ASSUME RecallType
  PROVE  /\ Brief!Candidates \subseteq Rows /\ Brief!Mandatory \subseteq Rows
         /\ Brief!Optional \subseteq Rows /\ Brief!Mandatory \cap Brief!Optional = {}
         /\ \A r \in Brief!Mandatory : Brief!IsMandatory(r)
         /\ \A r \in Brief!Optional : ~Brief!IsMandatory(r)
         /\ IsFiniteSet(Brief!Mandatory) /\ Whole \in Nat
<1>1. call.read \subseteq Rows
  BY DEF RecallType, Briefs
<1>2. Brief!Candidates \subseteq Rows
  BY <1>1 DEF Brief!Candidates, Brief!Deduplicated
<1>3. /\ Brief!Mandatory \subseteq Rows /\ Brief!Optional \subseteq Rows
      /\ Brief!Mandatory \cap Brief!Optional = {}
      /\ \A r \in Brief!Mandatory : Brief!IsMandatory(r)
      /\ \A r \in Brief!Optional : ~Brief!IsMandatory(r)
  BY <1>2 DEF Brief!Mandatory, Brief!Optional
<1>4. IsFiniteSet(Brief!Mandatory)
  BY <1>3, RecallAssumption, FS_Subset
<1>5. Whole \in Nat
  BY <1>4, BriefCardinality, FS_CardinalityType DEF Whole
<1>6. QED
  BY <1>2, <1>3, <1>4, <1>5

(* The best mandatory rows, up to all of them.                             *)
LEMMA PrefixFacts ==
  ASSUME RecallType
  PROVE  /\ \A n \in Nat : Brief!Prefix(n) \subseteq Brief!Mandatory
         /\ \A n, m \in Nat : n <= m => Brief!Prefix(n) \subseteq Brief!Prefix(m)
         /\ Brief!Prefix(0) = {} /\ Brief!Prefix(Whole) = Brief!Mandatory
         /\ Brief!Mandatory # {} => \A n \in Nat \ {0} : Brief!Prefix(n) # {}
         /\ Brief!Mandatory = {} => Whole = 0
<1> DEFINE before(r) == {s \in Brief!Mandatory : Brief!RanksBefore(s, r)}
<1>1. /\ IsFiniteSet(Brief!Mandatory) /\ Brief!Mandatory \subseteq Rows /\ Whole \in Nat
      /\ Whole = Cardinality(Brief!Mandatory)
  BY CandidateFacts, BriefCardinality DEF Whole
<1>2. \A n \in Nat : Brief!Prefix(n) = {r \in Brief!Mandatory : Cardinality(before(r)) < n}
  BY BriefCardinality DEF Brief!Prefix
<1>3. ASSUME NEW r \in Brief!Mandatory
      PROVE  Cardinality(before(r)) \in Nat /\ Cardinality(before(r)) < Whole
  <2>1. before(r) \subseteq Brief!Mandatory \ {r}
    BY <1>1, Ranking
  <2>2. IsFiniteSet(Brief!Mandatory \ {r}) /\ Cardinality(Brief!Mandatory \ {r}) = Whole - 1
    BY <1>1, FS_RemoveElement
  <2>3. Cardinality(before(r)) \in Nat /\ Cardinality(before(r)) <= Whole - 1
    BY <2>1, <2>2, FS_Subset, FS_CardinalityType
  <2>4. QED
    BY <1>1, <2>3
<1> HIDE DEF before
<1>4. /\ \A n \in Nat : Brief!Prefix(n) \subseteq Brief!Mandatory
      /\ \A n, m \in Nat : n <= m => Brief!Prefix(n) \subseteq Brief!Prefix(m)
      /\ Brief!Prefix(0) = {} /\ Brief!Prefix(Whole) = Brief!Mandatory
  BY <1>1, <1>2, <1>3
<1>5. ASSUME Brief!Mandatory # {}, NEW n \in Nat \ {0}
      PROVE  Brief!Prefix(n) # {}
  <2> DEFINE r == Brief!Best(Brief!Mandatory)
  <2>1. r \in Brief!Mandatory /\ \A s \in Brief!Mandatory \ {r} : Brief!RanksBefore(r, s)
    BY <1>1, <1>5, BestExists
  <2> HIDE DEF r
  <2>2. before(r) = {}
    BY <1>1, <2>1, Ranking DEF before
  <2>3. Cardinality(before(r)) = 0
    BY <2>2, FS_EmptySet
  <2>4. QED
    BY <1>2, <2>1, <2>3
<1>6. Brief!Mandatory = {} => Whole = 0
  BY <1>1, FS_EmptySet
<1>7. QED
  BY <1>4, <1>5, <1>6

(* Where the selection does not change, neither does what it is made of.   *)
LEMMA SameCandidates ==
  ASSUME rows' = rows, call'.read = call.read
  PROVE  /\ Brief!Mandatory' = Brief!Mandatory /\ Brief!Optional' = Brief!Optional
         /\ Whole' = Whole
         /\ \A n : (Brief!Prefix(n))' = Brief!Prefix(n)
         /\ \A r : (Brief!IsMandatory(r))' = Brief!IsMandatory(r)
         /\ \A r, s : (Brief!RanksBefore(r, s))' = Brief!RanksBefore(r, s)
         /\ \A S : (Brief!Maximum(S))' = Brief!Maximum(S)
         /\ \A b, S, l : (Brief!Tokens(b, S, l))' = Brief!Tokens(b, S, l)
         /\ call'.fallback = call.fallback =>
              \A S, l : (Brief!FitsWith(S, l))' = Brief!FitsWith(S, l)
<1>1. /\ \A r : (Brief!IsMandatory(r))' = Brief!IsMandatory(r)
      /\ \A r, s : (Brief!RanksBefore(r, s))' = Brief!RanksBefore(r, s)
      /\ \A S : (Brief!Maximum(S))' = Brief!Maximum(S)
  <2>1. \A r : (Brief!IsMandatory(r))' = Brief!IsMandatory(r)
    BY DEF Brief!IsMandatory
  <2>2. \A r, s : (Brief!RanksBefore(r, s))' = Brief!RanksBefore(r, s)
    BY DEF Brief!RanksBefore
  <2>3. \A S : (Brief!Maximum(S))' = Brief!Maximum(S)
    BY DEF Brief!Maximum
  <2>4. QED
    BY <2>1, <2>2, <2>3
<1>2. \A b, S, l : (Brief!Tokens(b, S, l))' = Brief!Tokens(b, S, l)
  BY DEF Brief!Tokens, Brief!Characters, Brief!Shown, Brief!IsMandatory
<1>3. Brief!Mandatory' = Brief!Mandatory /\ Brief!Optional' = Brief!Optional
  BY DEF Brief!Mandatory, Brief!Optional, Brief!Candidates, Brief!Deduplicated,
         Brief!IsMandatory, Brief!RanksBefore
<1>4. /\ Whole' = Whole
      /\ \A n : (Brief!Prefix(n))' = Brief!Prefix(n)
  BY <1>1, <1>3 DEF Whole, Brief!Prefix
<1>5. call'.fallback = call.fallback =>
        \A S, l : (Brief!FitsWith(S, l))' = Brief!FitsWith(S, l)
  BY <1>2 DEF Brief!FitsWith
<1>6. QED
  BY <1>1, <1>2, <1>3, <1>4, <1>5

(* The answers of a counter: while it is sure, there is one.               *)
LEMMA AnswerFacts ==
  ASSUME RecallType, NEW S, NEW l, NEW count \in Brief!Counts(S, l)
  PROVE  /\ count.fallback \in BOOLEAN /\ (call.fallback => count.fallback)
         /\ \/ count.tokens = Brief!Tokens(TRUE, S, l)
            \/ count.tokens = Brief!Tokens(FALSE, S, l)
         /\ count.fallback => count.tokens = Brief!Tokens(TRUE, S, l)
         /\ ~count.fallback /\ steady => count.tokens = Brief!Tokens(FALSE, S, l)
<1>1. call.fallback \in BOOLEAN
  BY DEF RecallType, Briefs
<1>2. CASE count = [fallback |-> TRUE, tokens |-> Brief!Tokens(TRUE, S, l)]
  BY <1>2
<1>3. CASE /\ ~call.fallback
           /\ \E n \in {Brief!Tokens(FALSE, S, l)}
                      \cup (IF steady THEN {} ELSE {Brief!Tokens(TRUE, S, l)}) :
                count = [fallback |-> FALSE, tokens |-> n]
  <2>1. PICK n \in {Brief!Tokens(FALSE, S, l)}
                    \cup (IF steady THEN {} ELSE {Brief!Tokens(TRUE, S, l)}) :
          count = [fallback |-> FALSE, tokens |-> n]
    BY <1>3
  <2>2. QED
    BY <1>3, <2>1
<1>4. QED
  BY <1>1, <1>2, <1>3 DEF Brief!Counts

(* An answer after which the counter is still sure is that of one counter. *)
LEMMA SureAnswer ==
  ASSUME RecallType, call.again => call.fallback, NEW S, NEW l, NEW count \in Brief!Counts(S, l),
         call.again \/ (steady /\ ~count.fallback)
  PROVE  /\ Sure /\ count.fallback = call.fallback
         /\ count.tokens = Brief!Tokens(call.fallback, S, l)
         /\ Brief!Fits(count) <=> Brief!FitsWith(S, l)
<1>1. call.fallback \in BOOLEAN /\ call.again \in BOOLEAN /\ steady \in BOOLEAN
  BY DEF RecallType, Briefs
<1>2. count.fallback = call.fallback /\ count.tokens = Brief!Tokens(call.fallback, S, l)
  BY <1>1, AnswerFacts
<1>3. QED
  BY <1>1, <1>2 DEF Sure, Brief!Fits, Brief!FitsWith

(* The largest limit worth a try.                                          *)
LEMMA MaximumFacts ==
  ASSUME RecallType, NEW S \in SUBSET Rows, S # {}
  PROVE  /\ Brief!Maximum(S) \in Nat /\ 1 <= Brief!Maximum(S)
         /\ Brief!Max(Lengths) \in Nat /\ Brief!Maximum(S) <= Brief!Max(Lengths)
<1> DEFINE L == {rows[r].length : r \in S}
<1>1. L \subseteq Lengths /\ L # {} /\ Lengths \in SUBSET Int /\ Lengths # {}
      /\ \A k \in Lengths : k \in Nat /\ 1 <= k
  <2>1. Lengths \subseteq Nat \ {0}
    BY RecallAssumption
  <2>2. \A k \in Lengths : k \in Nat /\ 1 <= k
    BY <2>1
  <2>3. L \subseteq Lengths /\ L # {}
    BY RowFacts
  <2>4. QED
    BY <2>2, <2>3
<1>2. IsFiniteSet(L) /\ IsFiniteSet(Lengths)
  BY <1>1, RecallAssumption, FS_Subset
<1> HIDE DEF L
<1>3. Brief!Max(L) \in L /\ L \in SUBSET Int
  BY <1>1, <1>2, BriefExtremes
<1>4. Brief!Max(Lengths) \in Lengths /\ \A y \in Lengths : y <= Brief!Max(Lengths)
  BY <1>1, <1>2, BriefExtremes
<1>5. Brief!Maximum(S)
        = IF MaxShortened <= Brief!Max(L) THEN MaxShortened ELSE Brief!Max(L)
  BY <1>1, <1>3, RecallAssumption, LesserOfTwo DEF Brief!Maximum, L
<1>6. /\ Brief!Max(L) \in Nat /\ 1 <= Brief!Max(L) /\ Brief!Max(L) <= Brief!Max(Lengths)
      /\ Brief!Max(Lengths) \in Nat /\ MaxShortened \in Nat /\ 1 <= MaxShortened
  <2>1. Brief!Max(L) \in Lengths
    BY <1>1, <1>3
  <2>2. /\ Brief!Max(L) \in Nat /\ 1 <= Brief!Max(L) /\ Brief!Max(L) <= Brief!Max(Lengths)
        /\ Brief!Max(Lengths) \in Nat
    BY <1>1, <1>4, <2>1
  <2>3. MaxShortened \in Nat \ {0}
    BY RecallAssumption
  <2>4. QED
    BY <2>2, <2>3
<1>7. QED
  BY <1>5, <1>6

(* What a finished search for a size has found.                            *)
LEMMA LargestSize ==
  ASSUME RecallType, NEW n \in Nat, SizeFound(n)
  PROVE  Brief!Max({m \in 0..Whole : Brief!FitsWith(Brief!Prefix(m), 1)}) = n
<1> DEFINE sizes == {m \in 0..Whole : Brief!FitsWith(Brief!Prefix(m), 1)}
<1>1. Whole \in Nat
  BY CandidateFacts
<1>2. n \in sizes /\ \A m \in sizes : m <= n
  BY <1>1 DEF SizeFound
<1>3. sizes \in SUBSET Int /\ IsFiniteSet(sizes) /\ sizes # {}
  <2>1. IsFiniteSet(0..Whole)
    BY <1>1, FS_Interval
  <2>2. QED
    BY <1>1, <1>2, <2>1, FS_Subset
<1> HIDE DEF sizes
<1>4. Brief!Max(sizes) \in sizes /\ \A y \in sizes : y <= Brief!Max(sizes)
  BY <1>3, BriefExtremes
<1>5. Brief!Max(sizes) = n
  <2>1. Brief!Max(sizes) \in Int /\ Brief!Max(sizes) <= n /\ n <= Brief!Max(sizes)
    BY <1>2, <1>3, <1>4
  <2>2. QED
    BY <2>1
<1>6. QED
  BY <1>5 DEF sizes

(* What a finished search for a limit has found.                           *)
LEMMA LargestLimit ==
  ASSUME RecallType, NEW S \in SUBSET Rows, S # {}, NEW l \in Nat, 1 <= l,
         l <= Brief!Maximum(S), Brief!FitsWith(S, l),
         \A m \in (l + 1)..Brief!Maximum(S) : ~Brief!FitsWith(S, m)
  PROVE  l = Brief!Min({Brief!Maximum(S),
                        Brief!Max({m \in 1..Brief!Max(Lengths) : Brief!FitsWith(S, m)})})
<1> DEFINE limits == {m \in 1..Brief!Max(Lengths) : Brief!FitsWith(S, m)}
<1>1. /\ Brief!Maximum(S) \in Nat /\ Brief!Max(Lengths) \in Nat
      /\ Brief!Maximum(S) <= Brief!Max(Lengths)
  BY MaximumFacts
<1>2. l \in limits
  BY <1>1
<1>3. ASSUME l < Brief!Maximum(S), NEW m \in limits
      PROVE  m <= l
  <2>1. SUFFICES ASSUME l + 1 <= m PROVE FALSE
    BY <1>1
  <2>2. Brief!FitsWith(S, m) /\ m \in Nat
    BY <1>1
  <2>3. Brief!FitsWith(S, l + 1)
    BY <2>1, <2>2, FewerFit
  <2>4. l + 1 \in (l + 1)..Brief!Maximum(S)
    BY <1>1, <1>3
  <2>5. QED
    BY <2>3, <2>4
<1>4. limits \in SUBSET Int /\ IsFiniteSet(limits) /\ limits # {}
  <2>1. IsFiniteSet(1..Brief!Max(Lengths))
    BY <1>1, FS_Interval
  <2>2. QED
    BY <1>1, <1>2, <2>1, FS_Subset
<1> HIDE DEF limits
<1>5. Brief!Max(limits) \in limits /\ \A y \in limits : y <= Brief!Max(limits)
  BY <1>4, BriefExtremes
<1> DEFINE k == Brief!Max(limits)
           x == Brief!Maximum(S)
<1>6. /\ k \in Int /\ l <= k /\ x \in Int /\ l <= x
      /\ l < x => k <= l
  <2>1. k \in limits /\ k \in Int /\ l <= k
    BY <1>2, <1>4, <1>5
  <2> HIDE DEF k
  <2>2. l < x => k <= l
    BY <1>3, <2>1
  <2>3. QED
    BY <1>1, <2>1, <2>2
<1>7. Brief!Min({x, k}) = IF x <= k THEN x ELSE k
  BY <1>6, LesserOfTwo
<1> HIDE DEF k, x
<1>8. l = Brief!Min({x, k})
  BY <1>6, <1>7
<1>9. QED
  BY <1>8 DEF limits, k, x

(* What was found stays found while the counter is the same.               *)
LEMMA SameFound ==
  ASSUME rows' = rows, call'.read = call.read, call'.fallback = call.fallback
  PROVE  /\ \A S, l : (MandatoryFound(S, l))' = MandatoryFound(S, l)
         /\ \A n \in Nat : (SizeFound(n))' = SizeFound(n)
<1>1. ASSUME NEW S, NEW l PROVE (MandatoryFound(S, l))' = MandatoryFound(S, l)
  <2> DEFINE sizes == {n \in 0..Whole : Brief!FitsWith(Brief!Prefix(n), 1)}
             limits == {n \in 1..Brief!Max(Lengths) : Brief!FitsWith(S, n)}
  <2>1. \A T, m : (Brief!FitsWith(T, m))' = Brief!FitsWith(T, m)
    BY SameCandidates
  <2>2. Brief!Mandatory' = Brief!Mandatory /\ Whole' = Whole
    BY SameCandidates
  <2>3. sizes' = sizes
    <3>1. ASSUME NEW n \in 0..Whole
          PROVE  (Brief!FitsWith(Brief!Prefix(n), 1))' = Brief!FitsWith(Brief!Prefix(n), 1)
      BY SameCandidates DEF Brief!FitsWith
    <3>2. QED
      BY <2>2, <3>1
  <2>4. limits' = limits
    BY <2>1
  <2>5. /\ (Brief!Prefix(Brief!Max(sizes)))' = Brief!Prefix(Brief!Max(sizes))
        /\ (Brief!Min({Brief!Maximum(S), Brief!Max(limits)}))'
             = Brief!Min({Brief!Maximum(S), Brief!Max(limits)})
        /\ (Brief!FitsWith(Brief!Mandatory, 0))' = Brief!FitsWith(Brief!Mandatory, 0)
    <3> HIDE DEF sizes, limits
    <3>1. (Brief!Prefix(Brief!Max(sizes)))' = Brief!Prefix(Brief!Max(sizes))
      <4>1. (Brief!Max(sizes))' = Brief!Max(sizes)
        BY <2>3
      <4>2. QED
        BY <4>1, SameCandidates
    <3>2. (Brief!Min({Brief!Maximum(S), Brief!Max(limits)}))'
             = Brief!Min({Brief!Maximum(S), Brief!Max(limits)})
      <4>1. (Brief!Max(limits))' = Brief!Max(limits)
        BY <2>4
      <4>2. (Brief!Maximum(S))' = Brief!Maximum(S)
        BY SameCandidates
      <4>3. QED
        BY <4>1, <4>2
    <3>3. (Brief!FitsWith(Brief!Mandatory, 0))' = Brief!FitsWith(Brief!Mandatory, 0)
      BY <2>1, <2>2
    <3>4. QED
      BY <3>1, <3>2, <3>3
  <2> HIDE DEF sizes, limits
  <2>6. QED
    BY <2>2, <2>5 DEF MandatoryFound, sizes, limits
<1>2. ASSUME NEW n \in Nat PROVE (SizeFound(n))' = SizeFound(n)
  BY SameCandidates DEF SizeFound
<1>3. QED
  BY <1>1, <1>2

-----------------------------------------------------------------------------
(* The steps of a recall.                                                  *)

(* Before the selection, and when all is selected again.                   *)
LEMMA EarlyStep ==
  ASSUME RecallType', call'.again => call'.fallback,
         call'.pc \in {"find", "not_found", "identify", "read", "mandatory"}
  PROVE  RecallInv'
BY DEF RecallInv, SearchBounds

(* What others do, once all is read, changes nothing in a brief.           *)
LEMMA OthersStep ==
  ASSUME RecallInv, UNCHANGED <<rows, steady, call>>, active' \subseteq Rows,
         directory' \in {1, 2, NONE}
  PROVE  RecallInv'
<1>1. RecallType' /\ SearchBounds' /\ Sure' = Sure
  BY SameCandidates DEF RecallInv, RecallType, SearchBounds, Sure
<1>2. /\ PrefixSearch' = PrefixSearch /\ LimitSearch' = LimitSearch
      /\ OptionalSoFar' = OptionalSoFar
      /\ Brief!OptionalAsCounted' = Brief!OptionalAsCounted
      /\ (MandatoryFound(call.selected \cap Brief!Mandatory, call.limit))'
           = MandatoryFound(call.selected \cap Brief!Mandatory, call.limit)
  <2>1. PrefixSearch' = PrefixSearch
    BY SameCandidates DEF PrefixSearch
  <2>2. LimitSearch' = LimitSearch
    BY SameCandidates, SameFound DEF LimitSearch
  <2>3. OptionalSoFar' = OptionalSoFar
    BY SameCandidates DEF OptionalSoFar, Tried
  <2>4. Brief!OptionalAsCounted' = Brief!OptionalAsCounted
    BY SameCandidates DEF Brief!OptionalAsCounted
  <2>5. (MandatoryFound(call.selected \cap Brief!Mandatory, call.limit))'
           = MandatoryFound(call.selected \cap Brief!Mandatory, call.limit)
    BY SameCandidates, SameFound
  <2>6. QED
    BY <2>1, <2>2, <2>3, <2>4, <2>5
<1>3. QED
  BY <1>1, <1>2 DEF RecallInv, Brief!OverBudget

(* The search for the rows and the checks of the project.                  *)
LEMMA ReadingStep ==
  ASSUME RecallInv,
         \/ Brief!FindProject \/ Brief!Identify \/ Brief!CheckReads
         \/ \E source \in Brief!Places, query \in Brief!Queries : Brief!Search(source, query)
  PROVE  RecallInv'
<1>1. call \in Briefs /\ RecallType /\ Brief!LiveIdentity \in {1, 2, NONE}
  BY DEF RecallInv, RecallType, Brief!LiveIdentity
<1>2. CASE Brief!FindProject
  BY <1>1, <1>2, EarlyStep DEF Brief!FindProject, Brief!env, RecallType, Briefs, RecallInv
<1>3. CASE Brief!Identify
  BY <1>1, <1>3, EarlyStep, ZenonT(60) DEF Brief!Identify, Brief!env, RecallType, Briefs, RecallInv
<1>4. CASE Brief!CheckReads
  BY <1>1, <1>4, EarlyStep DEF Brief!CheckReads, Brief!env, RecallType, Briefs, RecallInv
<1>5. ASSUME NEW source \in Brief!Places, NEW query \in Brief!Queries, Brief!Search(source, query)
      PROVE  RecallInv'
  <2> DEFINE more == call.read \cup Brief!Found(source, query)
             left == call.unread \ {<<source, query>>}
  <2>1. more \in SUBSET Rows
    BY <1>1 DEF RecallType, Briefs, Brief!Found
  <2>2. left \in SUBSET (Brief!Places \X Brief!Queries)
    BY <1>1 DEF Briefs
  <2>3. call' = [call EXCEPT !.read = more, !.unread = left] /\ UNCHANGED Brief!env
        /\ call.pc = "read"
    BY <1>5 DEF Brief!Search
  <2> HIDE DEF more, left
  <2>4. call' \in Briefs /\ call'.pc = "read" /\ call'.again = call.again
        /\ call'.fallback = call.fallback
    BY <1>1, <2>1, <2>2, <2>3 DEF Briefs
  <2>5. QED
    BY <1>1, <2>3, <2>4, EarlyStep DEF RecallType, RecallInv, Brief!env
<1>6. QED
  BY <1>2, <1>3, <1>4, <1>5

(* The mandatory rows are chosen.                                          *)
LEMMA ChosenStep ==
  ASSUME RecallInv, UNCHANGED <<rows, active, directory, steady>>,
         NEW S \in SUBSET Rows, NEW l \in Nat, NEW f \in BOOLEAN, call.fallback => f,
         call' = [call EXCEPT !.pc = "optional", !.selected = S, !.limit = l,
                              !.rest = Brief!Optional, !.fallback = f],
         call.again \/ (steady /\ ~f) =>
           /\ S \subseteq Brief!Mandatory /\ Brief!FitsWith(S, l) /\ MandatoryFound(S, l)
  PROVE  RecallInv'
<1>1. call \in Briefs /\ RecallType /\ (call.again => call.fallback)
  BY DEF RecallInv, RecallType
<1>2. Brief!Optional \in SUBSET Rows
  BY <1>1, CandidateFacts
<1>3. call' \in Briefs
  BY <1>1, <1>2 DEF Briefs
<1>4. /\ call'.pc = "optional" /\ call'.selected = S /\ call'.limit = l
      /\ call'.rest = Brief!Optional /\ call'.fallback = f /\ call'.again = call.again
      /\ call'.read = call.read
  BY <1>1 DEF Briefs
<1>5. RecallType' /\ SearchBounds' /\ (call'.again => call'.fallback)
  BY <1>1, <1>3, <1>4 DEF RecallType, SearchBounds
<1>6. ASSUME Sure'
      PROVE  /\ OptionalSoFar'
             /\ (MandatoryFound(call.selected \cap Brief!Mandatory, call.limit))'
  <2>1. call.again \/ (steady /\ ~f)
    BY <1>4, <1>6 DEF Sure
  <2>2. call'.fallback = call.fallback
    BY <1>1, <1>4, <2>1 DEF Briefs
  <2>3. /\ Brief!Mandatory' = Brief!Mandatory /\ Brief!Optional' = Brief!Optional
        /\ (Brief!FitsWith(S, l))' /\ (MandatoryFound(S, l))'
    BY <1>4, <2>1, <2>2, SameCandidates, SameFound
  <2>4. Tried' = {}
    BY <1>4, <2>3 DEF Tried
  <2>5. OptionalSoFar'
    BY <1>4, <2>1, <2>3, <2>4 DEF OptionalSoFar
  <2>6. (call.selected \cap Brief!Mandatory)' = S /\ call'.limit = l
    BY <1>4, <2>1, <2>3
  <2>7. QED
    BY <2>3, <2>5, <2>6
<1>7. QED
  BY <1>4, <1>5, <1>6 DEF RecallInv

(* All mandatory rows are counted.                                         *)
LEMMA MandatoryStep ==
  ASSUME RecallInv, Brief!TakeMandatory
  PROVE  RecallInv'
<1>1. call \in Briefs /\ RecallType /\ (call.again => call.fallback)
      /\ UNCHANGED <<rows, active, directory, steady>> /\ call.pc = "mandatory"
  BY DEF RecallInv, RecallType, Brief!TakeMandatory, Brief!env
<1>2. PICK count \in Brief!Counts(Brief!Mandatory, 0) :
        call' = IF Brief!Fits(count) THEN Brief!Chosen(Brief!Mandatory, 0, count)
                ELSE [call EXCEPT !.pc = "prefix", !.lower = 0,
                                  !.upper = Brief!Cardinality(Brief!Mandatory),
                                  !.fallback = count.fallback]
  BY DEF Brief!TakeMandatory
<1>3. count.fallback \in BOOLEAN /\ (call.fallback => count.fallback)
  BY <1>1, AnswerFacts
<1>4. Brief!Mandatory \in SUBSET Rows /\ Whole \in Nat
  BY <1>1, CandidateFacts
<1>5. call.again \/ (steady /\ ~count.fallback) =>
        /\ count.fallback = call.fallback
        /\ Brief!Fits(count) <=> Brief!FitsWith(Brief!Mandatory, 0)
  BY <1>1, SureAnswer
<1>6. CASE Brief!Fits(count)
  <2>1. Brief!FitsWith(Brief!Mandatory, 0) => MandatoryFound(Brief!Mandatory, 0)
    BY DEF MandatoryFound
  <2>2. QED
    BY <1>1, <1>2, <1>3, <1>4, <1>5, <1>6, <2>1, ChosenStep DEF Brief!Chosen
<1>7. CASE ~Brief!Fits(count)
  <2>1. call' = [call EXCEPT !.pc = "prefix", !.lower = 0, !.upper = Whole,
                             !.fallback = count.fallback]
    BY <1>2, <1>7 DEF Whole
  <2>2. call' \in Briefs
    BY <1>1, <1>3, <1>4, <2>1 DEF Briefs
  <2>3. /\ call'.pc = "prefix" /\ call'.lower = 0 /\ call'.upper = Whole
        /\ call'.fallback = count.fallback /\ call'.again = call.again
        /\ call'.read = call.read
    BY <1>1, <2>1 DEF Briefs
  <2>4. RecallType' /\ SearchBounds' /\ (call'.again => call'.fallback)
    BY <1>1, <1>3, <1>4, <2>2, <2>3, SameCandidates DEF RecallType, SearchBounds
  <2>5. ASSUME Sure' PROVE PrefixSearch'
    <3>1. /\ ~Brief!FitsWith(Brief!Mandatory, 0) /\ call'.fallback = call.fallback
      BY <1>1, <1>5, <1>7, <2>3, <2>5 DEF Sure
    <3>2. Brief!Prefix(0) = {} /\ Brief!FitsWith({}, 1)
      BY <1>1, PrefixFacts, FewerFit
    <3>3. QED
      BY <1>1, <1>4, <2>3, <3>1, <3>2, SameCandidates DEF PrefixSearch
  <2>6. QED
    BY <2>3, <2>4, <2>5 DEF RecallInv
<1>8. QED
  BY <1>6, <1>7

(* Between the bounds of a search.                                         *)
LEMMA MiddleFacts ==
  ASSUME call \in Briefs, call.lower < call.upper
  PROVE  /\ Brief!Middle \in Nat /\ call.lower < Brief!Middle /\ Brief!Middle <= call.upper
         /\ call.lower \in Nat /\ call.upper \in Nat /\ Brief!Middle - 1 \in Nat
<1>1. call.lower \in Nat /\ call.upper \in Nat
  BY DEF Briefs
<1>2. ASSUME NEW a \in Nat, NEW b \in Nat, a < b
      PROVE  /\ (a + b + 1) \div 2 \in Nat /\ a < (a + b + 1) \div 2
             /\ (a + b + 1) \div 2 <= b /\ (a + b + 1) \div 2 - 1 \in Nat
  BY <1>2
<1>3. QED
  BY <1>1, <1>2 DEF Brief!Middle

(* A round of a search: what fits is a lower bound, what does not an upper. *)
LEMMA NarrowedFacts ==
  ASSUME RecallInv, NEW pc, call.pc = pc, pc \in {"prefix", "limit"}, call.lower < call.upper,
         UNCHANGED <<rows, active, directory, steady>>, NEW S, NEW l,
         NEW count \in Brief!Counts(S, l), call' = Brief!Narrowed(count)
  PROVE  /\ call' \in Briefs /\ RecallType' /\ (call'.again => call'.fallback)
         /\ call'.pc = pc /\ call'.again = call.again /\ call'.fallback = count.fallback
         /\ call'.read = call.read /\ call'.retained = call.retained
         /\ call'.lower = (IF Brief!Fits(count) THEN Brief!Middle ELSE call.lower)
         /\ call'.upper = (IF Brief!Fits(count) THEN call.upper ELSE Brief!Middle - 1)
         /\ call'.lower <= call'.upper /\ call.lower <= call'.lower /\ call'.upper <= call.upper
         /\ Sure' => /\ Sure /\ call'.fallback = call.fallback
                     /\ Brief!Fits(count) <=> Brief!FitsWith(S, l)
<1>1. call \in Briefs /\ RecallType /\ (call.again => call.fallback)
  BY DEF RecallInv, RecallType
<1>2. /\ Brief!Middle \in Nat /\ call.lower < Brief!Middle /\ Brief!Middle <= call.upper
      /\ call.lower \in Nat /\ call.upper \in Nat /\ Brief!Middle - 1 \in Nat
  BY <1>1, MiddleFacts
<1>3. count.fallback \in BOOLEAN /\ (call.fallback => count.fallback)
  BY <1>1, AnswerFacts
<1> DEFINE low == IF Brief!Fits(count) THEN Brief!Middle ELSE call.lower
           up == IF Brief!Fits(count) THEN call.upper ELSE Brief!Middle - 1
<1>4. low \in Nat /\ up \in Nat /\ low <= up /\ call.lower <= low /\ up <= call.upper
  BY <1>2
<1>5. call' = [call EXCEPT !.lower = low, !.upper = up, !.fallback = count.fallback]
  BY DEF Brief!Narrowed
<1> HIDE DEF low, up
<1>6. call' \in Briefs
  BY <1>1, <1>3, <1>4, <1>5, ZenonT(60) DEF Briefs
<1>7. /\ call'.pc = pc /\ call'.again = call.again /\ call'.fallback = count.fallback
      /\ call'.read = call.read /\ call'.retained = call.retained
      /\ call'.lower = low /\ call'.upper = up
  BY <1>1, <1>5 DEF Briefs
<1>8. RecallType' /\ (call'.again => call'.fallback)
  BY <1>1, <1>3, <1>6, <1>7 DEF RecallType
<1>9. Sure' => /\ Sure /\ call'.fallback = call.fallback
               /\ Brief!Fits(count) <=> Brief!FitsWith(S, l)
  <2>1. Sure' => call.again \/ (steady /\ ~count.fallback)
    BY <1>7 DEF Sure
  <2>2. QED
    BY <1>1, <1>7, <2>1, SureAnswer
<1>10. QED
  BY <1>4, <1>6, <1>7, <1>8, <1>9 DEF low, up

(* A round of the search for how many rows fit.                            *)
LEMMA PrefixStep ==
  ASSUME RecallInv, Brief!FitPrefix
  PROVE  RecallInv'
<1>1. call \in Briefs /\ RecallType /\ call.pc = "prefix" /\ call.lower < call.upper
      /\ UNCHANGED <<rows, active, directory, steady>>
  BY DEF RecallInv, RecallType, Brief!FitPrefix, Brief!env
<1>2. PICK count \in Brief!Counts(Brief!Prefix(Brief!Middle), 1) : call' = Brief!Narrowed(count)
  BY DEF Brief!FitPrefix
<1>3. /\ RecallType' /\ (call'.again => call'.fallback)
      /\ call'.pc = "prefix" /\ call'.read = call.read
      /\ call'.lower = (IF Brief!Fits(count) THEN Brief!Middle ELSE call.lower)
      /\ call'.upper = (IF Brief!Fits(count) THEN call.upper ELSE Brief!Middle - 1)
      /\ call'.lower <= call'.upper /\ call'.upper <= call.upper
      /\ call'.lower \in Nat /\ call'.upper \in Nat
      /\ Sure' => /\ Sure /\ call'.fallback = call.fallback
                  /\ Brief!Fits(count) <=> Brief!FitsWith(Brief!Prefix(Brief!Middle), 1)
  <2>1. call' \in Briefs
    BY <1>1, <1>2, NarrowedFacts
  <2>2. call'.lower \in Nat /\ call'.upper \in Nat
    BY <2>1 DEF Briefs
  <2>3. QED
    BY <1>1, <1>2, <2>2, NarrowedFacts
<1>4. Whole \in Nat /\ Whole' = Whole /\ call.upper <= Whole /\ call.upper \in Nat
  BY <1>1, <1>3, CandidateFacts, SameCandidates DEF RecallInv, SearchBounds, Briefs
<1>5. SearchBounds'
  BY <1>3, <1>4 DEF SearchBounds
<1>6. ASSUME Sure' PROVE PrefixSearch'
  <2>1. PrefixSearch /\ call'.fallback = call.fallback
        /\ (Brief!Fits(count) <=> Brief!FitsWith(Brief!Prefix(Brief!Middle), 1))
    BY <1>1, <1>3, <1>6 DEF RecallInv
  <2>2. Brief!Middle \in Nat
    BY <1>1, MiddleFacts
  <2>3. Brief!FitsWith(Brief!Prefix(call'.lower), 1)
    BY <1>3, <2>1 DEF PrefixSearch
  <2>4. ASSUME NEW n \in (call'.upper + 1)..Whole
        PROVE  ~Brief!FitsWith(Brief!Prefix(n), 1)
    <3>1. CASE Brief!Fits(count)
      BY <1>3, <2>1, <2>4, <3>1 DEF PrefixSearch
    <3>2. CASE ~Brief!Fits(count)
      <4>1. n \in Nat /\ Brief!Middle <= n
        BY <1>3, <1>4, <2>2, <2>4, <3>2
      <4>2. Brief!Prefix(n) \in SUBSET Rows
            /\ Brief!Prefix(Brief!Middle) \in SUBSET Brief!Prefix(n)
        BY <1>1, <2>2, <4>1, PrefixFacts, CandidateFacts
      <4>3. Brief!FitsWith(Brief!Prefix(n), 1)
              => Brief!FitsWith(Brief!Prefix(Brief!Middle), 1)
        BY <1>1, <4>2, FewerFit
      <4>4. QED
        BY <2>1, <3>2, <4>3
    <3>3. QED
      BY <3>1, <3>2
  <2>5. /\ \A S, l : (Brief!FitsWith(S, l))' = Brief!FitsWith(S, l)
        /\ \A n : (Brief!Prefix(n))' = Brief!Prefix(n)
        /\ Brief!Mandatory' = Brief!Mandatory
    BY <1>1, <1>3, <2>1, SameCandidates
  <2>6. ~(Brief!FitsWith(Brief!Mandatory, 0))' /\ (Brief!FitsWith(Brief!Prefix(call.lower), 1))'
    <3>1. (Brief!Prefix(call.lower))' = Brief!Prefix(call'.lower)
      BY <1>1, <1>3, SameCandidates DEF Brief!Prefix
    <3>2. QED
      BY <2>1, <2>3, <2>5, <3>1 DEF PrefixSearch
  <2>7. \A n \in (call'.upper + 1)..Whole' : ~(Brief!FitsWith(Brief!Prefix(n), 1))'
    <3>1. ASSUME NEW n \in (call'.upper + 1)..Whole'
          PROVE  ~(Brief!FitsWith(Brief!Prefix(n), 1))'
      <4>1. n \in (call'.upper + 1)..Whole
        BY <1>4
      <4>2. (Brief!FitsWith(Brief!Prefix(n), 1))' = Brief!FitsWith(Brief!Prefix(n), 1)
        BY <1>1, <1>3, <2>1, SameCandidates DEF Brief!FitsWith
      <4>3. QED
        BY <2>4, <4>1, <4>2
    <3>2. QED
      BY <3>1
  <2>8. QED
    BY <2>6, <2>7 DEF PrefixSearch
<1>7. QED
  BY <1>3, <1>5, <1>6 DEF RecallInv

(* A round of the search for how much of each fits.                        *)
LEMMA LimitStep ==
  ASSUME RecallInv, Brief!FitLimit
  PROVE  RecallInv'
<1>1. call \in Briefs /\ RecallType /\ call.pc = "limit" /\ call.lower < call.upper
      /\ UNCHANGED <<rows, active, directory, steady>> /\ call.retained \in SUBSET Rows
  BY DEF RecallInv, RecallType, Brief!FitLimit, Brief!env, Briefs
<1>2. PICK count \in Brief!Counts(call.retained, Brief!Middle) : call' = Brief!Narrowed(count)
  BY DEF Brief!FitLimit
<1>3. call' \in Briefs
  BY <1>1, <1>2, NarrowedFacts
<1>4. /\ RecallType' /\ (call'.again => call'.fallback)
      /\ call'.pc = "limit" /\ call'.read = call.read /\ call'.retained = call.retained
      /\ call'.lower = (IF Brief!Fits(count) THEN Brief!Middle ELSE call.lower)
      /\ call'.upper = (IF Brief!Fits(count) THEN call.upper ELSE Brief!Middle - 1)
      /\ call'.lower <= call'.upper /\ call.lower <= call'.lower /\ call'.upper <= call.upper
      /\ Sure' => /\ Sure /\ call'.fallback = call.fallback
                  /\ Brief!Fits(count) <=> Brief!FitsWith(call.retained, Brief!Middle)
  BY <1>1, <1>2, NarrowedFacts
<1>5. /\ call.retained # {} /\ 1 <= call.lower /\ call.upper <= Brief!Maximum(call.retained)
      /\ call.lower \in Nat /\ call.upper \in Nat /\ call'.lower \in Nat /\ call'.upper \in Nat
      /\ Brief!Maximum(call.retained) \in Nat
      /\ (Brief!Maximum(call.retained))' = Brief!Maximum(call.retained)
  <2>1. call.retained # {} /\ 1 <= call.lower /\ call.upper <= Brief!Maximum(call.retained)
    BY <1>1 DEF RecallInv, SearchBounds
  <2>2. Brief!Maximum(call.retained) \in Nat
    BY <1>1, <2>1, MaximumFacts
  <2>3. (Brief!Maximum(call.retained))' = Brief!Maximum(call.retained)
    BY <1>1, <1>4 DEF Brief!Maximum
  <2>4. QED
    BY <1>1, <1>3, <2>1, <2>2, <2>3 DEF Briefs
<1>6. SearchBounds'
  BY <1>4, <1>5 DEF SearchBounds
<1>7. ASSUME Sure' PROVE LimitSearch'
  <2>1. LimitSearch /\ call'.fallback = call.fallback
        /\ (Brief!Fits(count) <=> Brief!FitsWith(call.retained, Brief!Middle))
    BY <1>1, <1>4, <1>7 DEF RecallInv
  <2>2. Brief!Middle \in Nat /\ call.lower < Brief!Middle
    BY <1>1, MiddleFacts
  <2>3. Brief!FitsWith(call.retained, call'.lower)
    BY <1>4, <2>1 DEF LimitSearch
  <2>4. ASSUME NEW n \in (call'.upper + 1)..Brief!Maximum(call.retained)
        PROVE  ~Brief!FitsWith(call.retained, n)
    <3>1. CASE Brief!Fits(count)
      BY <1>4, <2>1, <2>4, <3>1 DEF LimitSearch
    <3>2. CASE ~Brief!Fits(count)
      <4>1. n \in Nat /\ Brief!Middle <= n /\ 1 <= Brief!Middle
        BY <1>4, <1>5, <2>2, <2>4, <3>2
      <4>2. call.retained \in SUBSET call.retained
        OBVIOUS
      <4>3. Brief!FitsWith(call.retained, n) => Brief!FitsWith(call.retained, Brief!Middle)
        BY <1>1, <2>2, <4>1, <4>2, FewerFit
      <4>4. QED
        BY <2>1, <3>2, <4>3
    <3>3. QED
      BY <3>1, <3>2
  <2>5. /\ \A S, l : (Brief!FitsWith(S, l))' = Brief!FitsWith(S, l)
        /\ \A n : (Brief!Prefix(n))' = Brief!Prefix(n)
        /\ Brief!Mandatory' = Brief!Mandatory
        /\ \A n \in Nat : (SizeFound(n))' = SizeFound(n)
    BY <1>1, <1>4, <2>1, SameCandidates, SameFound
  <2>6. ~(Brief!FitsWith(Brief!Mandatory, 0))'
        /\ \E n \in Nat : (SizeFound(n))' /\ call'.retained = (Brief!Prefix(n))'
    BY <1>4, <2>1, <2>5 DEF LimitSearch
  <2>7. (Brief!FitsWith(call.retained, call.lower))'
    BY <1>4, <2>1, <2>3, <2>5
  <2>8. \A n \in (call'.upper + 1)..(Brief!Maximum(call.retained))' :
          ~(Brief!FitsWith(call.retained, n))'
    BY <1>4, <1>5, <2>4, <2>5
  <2>9. QED
    BY <2>6, <2>7, <2>8 DEF LimitSearch
<1>8. QED
  BY <1>4, <1>6, <1>7 DEF RecallInv

(* The first search ends, and the second begins.                           *)
LEMMA PrefixKept ==
  ASSUME RecallInv, Brief!KeepPrefix
  PROVE  RecallInv'
<1>1. /\ call \in Briefs /\ RecallType /\ call.pc = "prefix" /\ call.lower = call.upper
      /\ UNCHANGED <<rows, active, directory, steady>> /\ call.lower \in Nat
      /\ call.fallback \in BOOLEAN /\ call.again \in BOOLEAN
      /\ (call.again => call.fallback)
  BY DEF RecallInv, RecallType, Brief!KeepPrefix, Brief!env, Briefs
<1>2. Whole \in Nat /\ call.upper <= Whole
  BY <1>1, CandidateFacts DEF RecallInv, SearchBounds
<1>3. Sure => PrefixSearch /\ SizeFound(call.lower)
  <2>1. Sure => PrefixSearch
    BY <1>1 DEF RecallInv
  <2>2. PrefixSearch => SizeFound(call.lower)
    BY <1>1, <1>2 DEF PrefixSearch, SizeFound
  <2>3. QED
    BY <2>1, <2>2
<1>4. CASE call.lower = 0
  <2>1. call' = [call EXCEPT !.pc = "optional", !.selected = {}, !.limit = 0,
                             !.rest = Brief!Optional, !.fallback = call.fallback]
    BY <1>4 DEF Brief!KeepPrefix, Brief!Chosen
  <2>2. Brief!FitsWith({}, 0) /\ Brief!Prefix(0) = {}
    BY <1>1, FewerFit, PrefixFacts
  <2>3. Sure => MandatoryFound({}, 0)
    <3>1. SUFFICES ASSUME Sure PROVE MandatoryFound({}, 0)
      OBVIOUS
    <3>2. ~Brief!FitsWith(Brief!Mandatory, 0)
      BY <1>3, <3>1 DEF PrefixSearch
    <3>3. Brief!Max({m \in 0..Whole : Brief!FitsWith(Brief!Prefix(m), 1)}) = 0
      BY <1>1, <1>3, <1>4, <3>1, LargestSize
    <3>4. QED
      BY <2>2, <3>2, <3>3 DEF MandatoryFound
  <2>4. call.again \/ (steady /\ ~call.fallback) => Sure
    BY DEF Sure
  <2>5. {} \in SUBSET Rows /\ 0 \in Nat /\ {} \subseteq Brief!Mandatory
    OBVIOUS
  <2>6. QED
    BY <1>1, <2>1, <2>2, <2>3, <2>4, <2>5, ChosenStep
<1>5. CASE call.lower # 0
  <2> DEFINE S == Brief!Prefix(call.lower)
             top == Brief!Maximum(S)
  <2>1. call' = [call EXCEPT !.pc = "limit", !.retained = S, !.lower = 1, !.upper = top]
    BY <1>5 DEF Brief!KeepPrefix
  <2>2. S \in SUBSET Rows /\ S # {}
    <3>1. Brief!Mandatory # {}
      BY <1>1, <1>2, <1>5, PrefixFacts
    <3>2. QED
      BY <1>1, <1>5, <3>1, PrefixFacts, CandidateFacts
  <2>3. top \in Nat /\ 1 <= top
    BY <1>1, <2>2, MaximumFacts
  <2> HIDE DEF S, top
  <2>4. call' \in Briefs
    BY <1>1, <2>1, <2>2, <2>3 DEF Briefs
  <2>5. /\ call'.pc = "limit" /\ call'.retained = S /\ call'.lower = 1 /\ call'.upper = top
        /\ call'.fallback = call.fallback /\ call'.again = call.again
        /\ call'.read = call.read
    BY <1>1, <2>1 DEF Briefs
  <2>6. RecallType' /\ (call'.again => call'.fallback) /\ Sure' = Sure
    BY <1>1, <2>4, <2>5 DEF RecallType, Sure
  <2>7. /\ \A T, l : (Brief!FitsWith(T, l))' = Brief!FitsWith(T, l)
        /\ \A n : (Brief!Prefix(n))' = Brief!Prefix(n)
        /\ Brief!Mandatory' = Brief!Mandatory
        /\ \A n \in Nat : (SizeFound(n))' = SizeFound(n)
    BY <1>1, <2>5, SameCandidates, SameFound
  <2>8. (Brief!Maximum(call.retained))' = top
    BY <1>1, <2>5 DEF Brief!Maximum, top
  <2>9. SearchBounds'
    BY <2>2, <2>3, <2>5, <2>8 DEF SearchBounds
  <2>10. ASSUME Sure PROVE LimitSearch'
    <3>1. ~(Brief!FitsWith(Brief!Mandatory, 0))'
          /\ \E n \in Nat : (SizeFound(n))' /\ call'.retained = (Brief!Prefix(n))'
      BY <1>1, <1>3, <2>5, <2>7, <2>10 DEF PrefixSearch, S
    <3>2. (Brief!FitsWith(call.retained, call.lower))'
      BY <1>3, <2>5, <2>7, <2>10 DEF SizeFound, S
    <3>3. \A n \in (call'.upper + 1)..(Brief!Maximum(call.retained))' :
            ~(Brief!FitsWith(call.retained, n))'
      BY <2>3, <2>5, <2>8
    <3>4. QED
      BY <3>1, <3>2, <3>3 DEF LimitSearch
  <2>11. QED
    BY <2>5, <2>6, <2>9, <2>10 DEF RecallInv
<1>6. QED
  BY <1>4, <1>5

(* The second search ends.                                                 *)
LEMMA LimitKept ==
  ASSUME RecallInv, Brief!KeepLimit
  PROVE  RecallInv'
<1>1. /\ call \in Briefs /\ RecallType /\ call.pc = "limit" /\ call.lower = call.upper
      /\ UNCHANGED <<rows, active, directory, steady>> /\ call.lower \in Nat
      /\ call.retained \in SUBSET Rows /\ (call.again => call.fallback)
  BY DEF RecallInv, RecallType, Brief!KeepLimit, Brief!env, Briefs
<1>2. PICK count \in Brief!Counts(call.retained, call.lower) :
        call' = IF Brief!Fits(count) THEN Brief!Chosen(call.retained, call.lower, count)
                ELSE [call EXCEPT !.pc = "enforce", !.limit = call.lower,
                                  !.fallback = count.fallback]
  BY DEF Brief!KeepLimit
<1>3. count.fallback \in BOOLEAN /\ (call.fallback => count.fallback)
  BY <1>1, AnswerFacts
<1>4. /\ call.retained # {} /\ 1 <= call.lower
      /\ call.upper <= Brief!Maximum(call.retained)
  BY <1>1 DEF RecallInv, SearchBounds
<1>5. call.again \/ (steady /\ ~count.fallback) =>
        /\ LimitSearch /\ (Brief!Fits(count) <=> Brief!FitsWith(call.retained, call.lower))
  <2>1. call.again \/ (steady /\ ~count.fallback) =>
          Sure /\ (Brief!Fits(count) <=> Brief!FitsWith(call.retained, call.lower))
    BY <1>1, SureAnswer
  <2>2. QED
    BY <1>1, <2>1 DEF RecallInv
<1>6. ASSUME LimitSearch
      PROVE  /\ call.retained \subseteq Brief!Mandatory
             /\ Brief!FitsWith(call.retained, call.lower)
             /\ MandatoryFound(call.retained, call.lower)
  <2>1. PICK n \in Nat : SizeFound(n) /\ call.retained = Brief!Prefix(n)
    BY <1>6 DEF LimitSearch
  <2>2. Brief!Max({m \in 0..Whole : Brief!FitsWith(Brief!Prefix(m), 1)}) = n
    BY <1>1, <2>1, LargestSize
  <2>3. /\ Brief!FitsWith(call.retained, call.lower) /\ ~Brief!FitsWith(Brief!Mandatory, 0)
        /\ \A m \in (call.lower + 1)..Brief!Maximum(call.retained) :
             ~Brief!FitsWith(call.retained, m)
    BY <1>1, <1>6 DEF LimitSearch
  <2>4. call.lower
          = Brief!Min({Brief!Maximum(call.retained),
              Brief!Max({m \in 1..Brief!Max(Lengths) : Brief!FitsWith(call.retained, m)})})
    BY <1>1, <1>4, <2>3, LargestLimit
  <2>5. MandatoryFound(call.retained, call.lower)
    BY <2>1, <2>2, <2>3, <2>4 DEF MandatoryFound
  <2>6. QED
    BY <1>1, <2>1, <2>3, <2>5, PrefixFacts
<1>7. CASE Brief!Fits(count)
  <2>1. call' = [call EXCEPT !.pc = "optional", !.selected = call.retained,
                             !.limit = call.lower, !.rest = Brief!Optional,
                             !.fallback = count.fallback]
    BY <1>2, <1>7 DEF Brief!Chosen
  <2>2. QED
    BY <1>1, <1>3, <1>5, <1>6, <2>1, ChosenStep
<1>8. CASE ~Brief!Fits(count)
  <2>1. call' = [call EXCEPT !.pc = "enforce", !.limit = call.lower,
                             !.fallback = count.fallback]
    BY <1>2, <1>8
  <2>2. call' \in Briefs
    BY <1>1, <1>3, <2>1 DEF Briefs
  <2>3. call'.pc = "enforce" /\ call'.fallback = count.fallback /\ call'.again = call.again
    BY <1>1, <2>1 DEF Briefs
  <2>4. RecallType' /\ SearchBounds' /\ (call'.again => call'.fallback)
    BY <1>1, <1>3, <2>2, <2>3 DEF RecallType, SearchBounds
  <2>5. ~Sure'
    <3>1. Sure' => call.again \/ (steady /\ ~count.fallback)
      BY <1>1, <2>3 DEF Sure
    <3>2. QED
      BY <1>5, <1>6, <1>8, <3>1
  <2>6. QED
    BY <2>3, <2>4, <2>5 DEF RecallInv
<1>9. QED
  BY <1>7, <1>8

(* A counter that has answered otherwise: less and less is kept.           *)
LEMMA EnforceStep ==
  ASSUME RecallInv, Brief!Enforce
  PROVE  RecallInv'
<1>1. /\ call \in Briefs /\ RecallType /\ call.pc = "enforce" /\ ~Sure
      /\ UNCHANGED <<rows, active, directory, steady>> /\ call.limit \in Nat
      /\ call.retained \in SUBSET Rows /\ (call.again => call.fallback)
      /\ call.fallback \in BOOLEAN
  BY DEF RecallInv, RecallType, Brief!Enforce, Brief!env, Briefs
<1>2. \A f : (call.fallback => f) => ~(call.again \/ (steady /\ ~f))
  BY <1>1 DEF Sure
<1>3. CASE call' = Brief!Chosen({}, 0, call)
  <2>1. call' = [call EXCEPT !.pc = "optional", !.selected = {}, !.limit = 0,
                             !.rest = Brief!Optional, !.fallback = call.fallback]
    BY <1>3 DEF Brief!Chosen
  <2>2. QED
    BY <1>1, <1>2, <2>1, ChosenStep
<1>4. ASSUME NEW count \in Brief!Counts(call.retained, call.limit),
             call' = IF Brief!Fits(count) THEN Brief!Chosen(call.retained, call.limit, count)
                     ELSE [call EXCEPT
                             !.retained = IF call.limit > 1 THEN @ ELSE @ \ {Brief!Worst(@)},
                             !.limit = Brief!Max({1, @ \div 2}),
                             !.fallback = count.fallback]
      PROVE  RecallInv'
  <2>1. count.fallback \in BOOLEAN /\ (call.fallback => count.fallback)
    BY <1>1, AnswerFacts
  <2>2. CASE Brief!Fits(count)
    <3>1. call' = [call EXCEPT !.pc = "optional", !.selected = call.retained,
                               !.limit = call.limit, !.rest = Brief!Optional,
                               !.fallback = count.fallback]
      BY <1>4, <2>2 DEF Brief!Chosen
    <3>2. QED
      BY <1>1, <1>2, <2>1, <3>1, ChosenStep
  <2>3. CASE ~Brief!Fits(count)
    <3> DEFINE fewer == IF call.limit > 1 THEN call.retained
                        ELSE call.retained \ {Brief!Worst(call.retained)}
               half == Brief!Max({1, call.limit \div 2})
    <3>1. call' = [call EXCEPT !.retained = fewer, !.limit = half, !.fallback = count.fallback]
      BY <1>4, <2>3
    <3>2. fewer \in SUBSET Rows /\ half \in Nat
      <4>1. call.limit \div 2 \in Nat
        BY <1>1
      <4> DEFINE k == call.limit \div 2
      <4> HIDE DEF k
      <4>2. {1, k} \in SUBSET Int /\ {1, k} # {} /\ IsFiniteSet({1, k})
        <5>1. k \in Nat
          BY <4>1 DEF k
        <5>2. QED
          BY <5>1, PairIsFinite
      <4>3. half \in {1, k}
        <5>1. half = Brief!Max({1, k})
          BY DEF k
        <5>2. QED
          BY <4>2, <5>1, BriefExtremes
      <4>4. QED
        BY <1>1, <4>1, <4>3 DEF k
    <3> HIDE DEF fewer, half
    <3>3. call' \in Briefs
      BY <1>1, <2>1, <3>1, <3>2 DEF Briefs
    <3>4. call'.pc = "enforce" /\ call'.fallback = count.fallback /\ call'.again = call.again
      BY <1>1, <3>1 DEF Briefs
    <3>5. RecallType' /\ SearchBounds' /\ (call'.again => call'.fallback) /\ ~Sure'
      BY <1>1, <1>2, <2>1, <3>3, <3>4 DEF RecallType, SearchBounds, Sure
    <3>6. QED
      BY <3>4, <3>5 DEF RecallInv
  <2>4. QED
    BY <2>2, <2>3
<1>5. QED
  BY <1>3, <1>4 DEF Brief!Enforce

(* The best optional row is tried.                                         *)
LEMMA OptionalStep ==
  ASSUME RecallInv, Brief!TryOptional
  PROVE  RecallInv'
<1> DEFINE next == Brief!Best(call.rest)
<1>1. /\ call \in Briefs /\ RecallType /\ call.pc = "optional" /\ call.rest # {}
      /\ UNCHANGED <<rows, active, directory, steady>>
      /\ call.rest \in SUBSET Rows /\ call.selected \in SUBSET Rows
      /\ (call.again => call.fallback)
  BY DEF RecallInv, RecallType, Brief!TryOptional, Brief!env, Briefs
<1>2. PICK count \in Brief!Counts(call.selected \cup {next}, call.limit) :
        call' = [call EXCEPT !.rest = @ \ {next},
                             !.selected = IF Brief!Fits(count) THEN @ \cup {next} ELSE @,
                             !.fallback = count.fallback]
  BY DEF Brief!TryOptional
<1>3. next \in call.rest /\ \A s \in call.rest \ {next} : Brief!RanksBefore(next, s)
  BY <1>1, BestExists
<1> HIDE DEF next
<1>4. count.fallback \in BOOLEAN /\ (call.fallback => count.fallback)
  BY <1>1, AnswerFacts
<1> DEFINE taken == IF Brief!Fits(count) THEN call.selected \cup {next} ELSE call.selected
<1>5. taken \in SUBSET Rows
  BY <1>1, <1>3
<1>6. call' = [call EXCEPT !.rest = call.rest \ {next}, !.selected = taken,
                           !.fallback = count.fallback]
  BY <1>2
<1> HIDE DEF taken
<1>7. call' \in Briefs
  BY <1>1, <1>4, <1>5, <1>6 DEF Briefs
<1>8. /\ call'.pc = "optional" /\ call'.rest = call.rest \ {next} /\ call'.selected = taken
      /\ call'.fallback = count.fallback /\ call'.again = call.again
      /\ call'.read = call.read /\ call'.limit = call.limit
  BY <1>1, <1>6 DEF Briefs
<1>9. RecallType' /\ SearchBounds' /\ (call'.again => call'.fallback)
  BY <1>1, <1>4, <1>7, <1>8 DEF RecallType, SearchBounds
<1>10. ASSUME Sure'
       PROVE  /\ OptionalSoFar'
              /\ (MandatoryFound(call.selected \cap Brief!Mandatory, call.limit))'
  <2>1. /\ Sure /\ call'.fallback = call.fallback
        /\ Brief!Fits(count) <=> Brief!FitsWith(call.selected \cup {next}, call.limit)
    <3>1. call.again \/ (steady /\ ~count.fallback)
      BY <1>1, <1>8, <1>10 DEF Sure
    <3>2. QED
      BY <1>1, <1>8, <3>1, SureAnswer
  <2>2. /\ OptionalSoFar
        /\ MandatoryFound(call.selected \cap Brief!Mandatory, call.limit)
    BY <1>1, <2>1 DEF RecallInv
  <2>3. /\ next \in Brief!Optional /\ next \notin Brief!Mandatory /\ next \notin Tried
        /\ next \notin call.selected /\ ~Brief!IsMandatory(next) /\ next \in Rows
    BY <1>1, <1>3, <2>2, CandidateFacts DEF OptionalSoFar, Tried
  <2>4. Brief!Optional \ (call.rest \ {next}) = Tried \cup {next}
    BY <2>3 DEF Tried
  <2>5. \A r \in Tried : Brief!RanksBefore(r, next) /\ ~Brief!RanksBefore(next, r) /\ r # next
                         /\ r \in Rows
    <3>1. \A r \in Tried : Brief!RanksBefore(r, next) /\ r \in Rows
      BY <1>1, <1>3, <2>2, CandidateFacts DEF OptionalSoFar, Tried
    <3>2. QED
      BY <1>1, <2>3, <3>1, Ranking
  <2> DEFINE better(S, r) == {s \in S : Brief!IsMandatory(s) \/ Brief!RanksBefore(s, r)}
  <2>6. \A r \in Tried : better(taken, r) = better(call.selected, r)
    BY <2>3, <2>5 DEF taken
  <2>7. better(taken, next) \cup {next} = call.selected \cup {next}
    <3>1. \A s \in call.selected : Brief!IsMandatory(s) \/ Brief!RanksBefore(s, next)
      BY <1>1, <2>2, <2>5, CandidateFacts DEF OptionalSoFar
    <3>2. QED
      BY <3>1 DEF taken
  <2>8. ASSUME NEW r \in Tried \cup {next}
        PROVE  r \in taken <=> Brief!FitsWith(better(taken, r) \cup {r}, call.limit)
    <3>1. CASE r \in Tried
      <4>1. r \in taken <=> r \in call.selected
        BY <2>5, <3>1 DEF taken
      <4>2. r \in call.selected <=> Brief!FitsWith(better(call.selected, r) \cup {r}, call.limit)
        BY <2>2, <3>1 DEF OptionalSoFar
      <4>3. QED
        BY <2>6, <3>1, <4>1, <4>2
    <3>2. CASE r = next
      <4>1. next \in taken <=> Brief!Fits(count)
        BY <2>3 DEF taken
      <4>2. QED
        BY <2>1, <2>7, <3>2, <4>1
    <3>3. QED
      BY <3>1, <3>2
  <2>9. /\ call.rest \ {next} \subseteq Brief!Optional
        /\ taken \subseteq Brief!Mandatory \cup (Tried \cup {next})
        /\ Brief!FitsWith(taken, call.limit)
        /\ \A r \in Tried \cup {next}, s \in call.rest \ {next} : Brief!RanksBefore(r, s)
    BY <1>3, <2>1, <2>2 DEF OptionalSoFar, taken
  <2>10. /\ Brief!Mandatory' = Brief!Mandatory /\ Brief!Optional' = Brief!Optional
         /\ \A r : (Brief!IsMandatory(r))' = Brief!IsMandatory(r)
         /\ \A r, s : (Brief!RanksBefore(r, s))' = Brief!RanksBefore(r, s)
         /\ \A S, l : (Brief!FitsWith(S, l))' = Brief!FitsWith(S, l)
    BY <1>1, <1>8, <2>1, SameCandidates
  <2>11. Tried' = Tried \cup {next}
    BY <1>8, <2>4, <2>10 DEF Tried
  <2>12. OptionalSoFar'
    <3>1. \A r \in Tried' :
            r \in call'.selected <=>
              (Brief!FitsWith({s \in call.selected : Brief!IsMandatory(s)
                                                       \/ Brief!RanksBefore(s, r)}
                                \cup {r}, call.limit))'
      <4>1. ASSUME NEW r \in Tried'
            PROVE  ({s \in call.selected : Brief!IsMandatory(s) \/ Brief!RanksBefore(s, r)})'
                     = better(taken, r)
        BY <1>8, <2>10
      <4> HIDE DEF better
      <4>2. QED
        BY <1>8, <2>8, <2>10, <2>11, <4>1
    <3>2. /\ call'.rest \subseteq Brief!Optional'
          /\ call'.selected \subseteq Brief!Mandatory' \cup Tried'
          /\ (Brief!FitsWith(call.selected, call.limit))'
          /\ \A r \in Tried', s \in call'.rest : (Brief!RanksBefore(r, s))'
      BY <1>8, <2>9, <2>10, <2>11
    <3>3. QED
      BY <3>1, <3>2 DEF OptionalSoFar
  <2>13. (MandatoryFound(call.selected \cap Brief!Mandatory, call.limit))'
    <3>1. taken \cap Brief!Mandatory = call.selected \cap Brief!Mandatory
      BY <2>3 DEF taken
    <3>2. (call.selected \cap Brief!Mandatory)' = call.selected \cap Brief!Mandatory
          /\ call'.limit = call.limit
      BY <1>8, <2>10, <3>1
    <3>3. \A S, l : (MandatoryFound(S, l))' = MandatoryFound(S, l)
      BY <1>1, <1>8, <2>1, SameFound
    <3>4. QED
      BY <2>2, <3>2, <3>3
  <2>14. QED
    BY <2>12, <2>13
<1>11. QED
  BY <1>8, <1>9, <1>10 DEF RecallInv

(* All is counted: it is selected again, or taken.                         *)
LEMMA CountStep ==
  ASSUME RecallInv, Brief!CountBrief
  PROVE  RecallInv'
<1>1. /\ call \in Briefs /\ RecallType /\ call.pc = "optional" /\ call.rest = {}
      /\ UNCHANGED <<rows, active, directory, steady>>
      /\ call.selected \in SUBSET Rows /\ call.limit \in Nat /\ call.again \in BOOLEAN
      /\ (call.again => call.fallback)
  BY DEF RecallInv, RecallType, Brief!CountBrief, Brief!env, Briefs
<1>2. PICK count \in Brief!Counts(call.selected, call.limit) :
        call' = IF Brief!SelectsAgain(count.fallback)
                THEN [call EXCEPT !.pc = "mandatory", !.again = TRUE, !.fallback = TRUE]
                ELSE [call EXCEPT !.pc = "trim", !.tokens = count.tokens,
                                  !.fallback = count.fallback]
  BY DEF Brief!CountBrief
<1>3. /\ count.fallback \in BOOLEAN /\ (call.fallback => count.fallback)
      /\ count.tokens \in Nat /\ (call.selected = {} => count.tokens = 0)
  <2>1. call.selected \in SUBSET call.selected /\ call.selected \in SUBSET Rows
    BY <1>1
  <2>2. /\ Brief!Tokens(TRUE, call.selected, call.limit) \in Nat
        /\ Brief!Tokens(FALSE, call.selected, call.limit) \in Nat
        /\ call.selected = {} => /\ Brief!Tokens(TRUE, call.selected, call.limit) = 0
                       /\ Brief!Tokens(FALSE, call.selected, call.limit) = 0
    BY <1>1, <2>1, TokensGrow
  <2>3. /\ count.fallback \in BOOLEAN /\ (call.fallback => count.fallback)
        /\ \/ count.tokens = Brief!Tokens(TRUE, call.selected, call.limit)
           \/ count.tokens = Brief!Tokens(FALSE, call.selected, call.limit)
    BY <1>1, <1>2, AnswerFacts, ZenonT(60)
  <2>4. QED
    BY <2>2, <2>3
<1>4. CASE Brief!SelectsAgain(count.fallback)
  <2>1. call' = [call EXCEPT !.pc = "mandatory", !.again = TRUE, !.fallback = TRUE]
    BY <1>2, <1>4
  <2>2. call' \in Briefs /\ call'.pc = "mandatory" /\ call'.fallback
    BY <1>1, <2>1 DEF Briefs
  <2>3. QED
    BY <1>1, <2>2, EarlyStep DEF RecallType
<1>5. CASE ~Brief!SelectsAgain(count.fallback)
  <2>1. call' = [call EXCEPT !.pc = "trim", !.tokens = count.tokens,
                             !.fallback = count.fallback]
    BY <1>2, <1>5
  <2>2. call' \in Briefs
    BY <1>1, <1>3, <2>1 DEF Briefs
  <2>3. /\ call'.pc = "trim" /\ call'.tokens = count.tokens
        /\ call'.fallback = count.fallback /\ call'.again = call.again
        /\ call'.read = call.read /\ call'.selected = call.selected
        /\ call'.limit = call.limit
    BY <1>1, <2>1 DEF Briefs
  <2>4. RecallType' /\ SearchBounds' /\ (call'.again => call'.fallback)
    BY <1>1, <1>3, <2>2, <2>3 DEF RecallType, SearchBounds
  <2>5. /\ call'.selected = {} => call'.tokens = 0
        /\ steady' => Sure'
    BY <1>1, <1>3, <1>5, <2>3 DEF Brief!SelectsAgain, Sure
  <2>6. ASSUME Sure'
        PROVE  /\ (MandatoryFound(call.selected \cap Brief!Mandatory, call.limit))'
               /\ Brief!OptionalAsCounted' /\ call'.tokens <= Budget
    <3>1. /\ Sure /\ call'.fallback = call.fallback
          /\ Brief!Fits(count) <=> Brief!FitsWith(call.selected, call.limit)
      <4>1. call.again \/ (steady /\ ~count.fallback)
        BY <1>1, <2>3, <2>6 DEF Sure
      <4>2. QED
        BY <1>1, <2>3, <4>1, SureAnswer
    <3>2. /\ OptionalSoFar
          /\ MandatoryFound(call.selected \cap Brief!Mandatory, call.limit)
      BY <1>1, <3>1 DEF RecallInv
    <3>3. call'.tokens <= Budget
      BY <2>3, <3>1, <3>2 DEF OptionalSoFar, Brief!Fits
    <3>4. Brief!OptionalAsCounted
      <4>1. Tried = Brief!Optional
        BY <1>1 DEF Tried
      <4>2. QED
        BY <3>2, <4>1 DEF OptionalSoFar, Brief!OptionalAsCounted
    <3>5. Brief!OptionalAsCounted' = Brief!OptionalAsCounted
      BY <1>1, <2>3, <3>1, SameCandidates DEF Brief!OptionalAsCounted
    <3>6. (MandatoryFound(call.selected \cap Brief!Mandatory, call.limit))'
            = MandatoryFound(call.selected \cap Brief!Mandatory, call.limit)
      BY <1>1, <2>3, <3>1, SameCandidates, SameFound
    <3>7. QED
      BY <3>2, <3>3, <3>4, <3>5, <3>6
  <2>7. QED
    BY <2>3, <2>4, <2>5, <2>6 DEF RecallInv
<1>6. QED
  BY <1>4, <1>5

(* What is too much is taken away, which only a counter that answers       *)
(* otherwise makes necessary.                                              *)
LEMMA TrimStep ==
  ASSUME RecallInv, Brief!Trim
  PROVE  RecallInv'
<1> DEFINE fewer == call.selected \ {Brief!LowestValue}
<1>1. /\ call \in Briefs /\ RecallType /\ call.pc = "trim" /\ Brief!OverBudget
      /\ UNCHANGED <<rows, active, directory, steady>>
      /\ fewer \in SUBSET Rows /\ call.limit \in Nat /\ call.tokens \in Nat
      /\ (call.again => call.fallback)
  BY DEF RecallInv, RecallType, Brief!Trim, Brief!env, Briefs
<1>2. PICK count \in Brief!Counts(fewer, call.limit) :
        call' = [call EXCEPT !.selected = fewer, !.tokens = count.tokens,
                             !.fallback = count.fallback]
  BY DEF Brief!Trim
<1> HIDE DEF fewer
<1>3. ~steady /\ ~call.again
  <2>1. Sure => call.tokens <= Budget
    BY <1>1 DEF RecallInv
  <2>2. ~Sure
    BY <1>1, <2>1, RecallAssumption DEF Brief!OverBudget
  <2>3. QED
    BY <1>1, <2>2 DEF RecallInv, Sure
<1>4. /\ count.fallback \in BOOLEAN /\ (call.fallback => count.fallback)
      /\ count.tokens \in Nat /\ (fewer = {} => count.tokens = 0)
  <2>1. fewer \in SUBSET fewer /\ fewer \in SUBSET Rows
    BY <1>1
  <2>2. /\ Brief!Tokens(TRUE, fewer, call.limit) \in Nat
        /\ Brief!Tokens(FALSE, fewer, call.limit) \in Nat
        /\ fewer = {} => /\ Brief!Tokens(TRUE, fewer, call.limit) = 0
                       /\ Brief!Tokens(FALSE, fewer, call.limit) = 0
    BY <1>1, <2>1, TokensGrow
  <2>3. /\ count.fallback \in BOOLEAN /\ (call.fallback => count.fallback)
        /\ \/ count.tokens = Brief!Tokens(TRUE, fewer, call.limit)
           \/ count.tokens = Brief!Tokens(FALSE, fewer, call.limit)
    BY <1>1, <1>2, AnswerFacts
  <2>4. QED
    BY <2>2, <2>3
<1>5. call' \in Briefs
  BY <1>1, <1>2, <1>4 DEF Briefs
<1>6. /\ call'.pc = "trim" /\ call'.tokens = count.tokens /\ call'.again = call.again
      /\ call'.fallback = count.fallback /\ call'.selected = fewer
  BY <1>1, <1>2 DEF Briefs
<1>7. RecallType' /\ SearchBounds' /\ (call'.again => call'.fallback) /\ ~Sure'
  BY <1>1, <1>3, <1>4, <1>5, <1>6 DEF RecallType, SearchBounds, Sure
<1>8. QED
  BY <1>1, <1>3, <1>4, <1>6, <1>7 DEF RecallInv

(* The brief is given.                                                     *)
LEMMA GiveStep ==
  ASSUME RecallInv, Brief!GiveBrief
  PROVE  RecallInv'
<1>1. /\ call \in Briefs /\ RecallType /\ call.pc = "trim" /\ ~Brief!OverBudget
      /\ UNCHANGED <<rows, active, directory, steady>>
      /\ (call.again => call.fallback)
      /\ call' = [call EXCEPT !.pc = IF Brief!StillLive THEN "brief" ELSE "not_found"]
  BY DEF RecallInv, RecallType, Brief!GiveBrief, Brief!env
<1>2. /\ call' \in Briefs /\ call'.pc \in {"brief", "not_found"}
      /\ call'.tokens = call.tokens /\ call'.again = call.again
      /\ call'.fallback = call.fallback /\ call'.selected = call.selected
      /\ call'.read = call.read /\ call'.limit = call.limit
  BY <1>1 DEF Briefs
<1>3. RecallType' /\ SearchBounds' /\ (call'.again => call'.fallback) /\ Sure' = Sure
  BY <1>1, <1>2 DEF RecallType, SearchBounds, Sure
<1>4. CASE call'.pc = "not_found"
  BY <1>3, <1>4, EarlyStep
<1>5. CASE call'.pc = "brief"
  <2>1. Brief!OptionalAsCounted' = Brief!OptionalAsCounted
    BY <1>1, <1>2, SameCandidates DEF Brief!OptionalAsCounted
  <2>2. (MandatoryFound(call.selected \cap Brief!Mandatory, call.limit))'
          = MandatoryFound(call.selected \cap Brief!Mandatory, call.limit)
    BY <1>1, <1>2, SameCandidates, SameFound
  <2>3. QED
    BY <1>1, <1>2, <1>3, <1>5, <2>1, <2>2 DEF RecallInv, Brief!OverBudget
<1>6. QED
  BY <1>2, <1>4, <1>5

(* A recall begins with nothing read.                                      *)
LEMMA RecallStarts ==
  ASSUME Brief!Init
  PROVE  RecallInv
<1>1. call = Brief!New /\ Brief!New \in Briefs
  BY DEF Brief!Init, Brief!New, Briefs
<1>2. call.pc = "find" /\ call.again = FALSE
  BY <1>1 DEF Brief!New
<1>3. active \subseteq Rows /\ steady \in BOOLEAN /\ directory \in {1, 2, NONE}
  BY DEF Brief!Init
<1>4. rows \in [Rows -> [kind : Kinds, content : Rows, length : Lengths, relevant : BOOLEAN]]
  BY DEF Brief!Init
<1>5. QED
  BY <1>1, <1>2, <1>3, <1>4 DEF RecallInv, RecallType, SearchBounds

(* Each step keeps what holds.                                             *)
LEMMA RecallStep ==
  ASSUME RecallInv, [Brief!Next]_(Brief!vars)
  PROVE  RecallInv'
<1>1. active \subseteq Rows /\ directory \in {1, 2, NONE}
  BY DEF RecallInv, RecallType
<1>2. CASE UNCHANGED Brief!vars
  BY <1>1, <1>2, OthersStep DEF Brief!vars
<1>3. CASE Brief!ChangeRows
  <2>1. active' \subseteq Rows
    BY <1>1, <1>3 DEF Brief!ChangeRows
  <2>2. UNCHANGED <<rows, steady, call, directory>>
    BY <1>3 DEF Brief!ChangeRows
  <2>3. QED
    BY <1>1, <2>1, <2>2, OthersStep
<1>4. CASE Brief!ChangeProject
  BY <1>1, <1>4, OthersStep DEF Brief!ChangeProject
<1>5. CASE Brief!MoveDirectory
  BY <1>1, <1>5, OthersStep DEF Brief!MoveDirectory
<1>6. CASE Brief!Next
  BY <1>3, <1>4, <1>5, <1>6, ReadingStep, MandatoryStep, PrefixStep, PrefixKept, LimitStep,
     LimitKept, EnforceStep, OptionalStep, CountStep, TrimStep, GiveStep DEF Brief!Next
<1>7. QED
  BY <1>2, <1>6

(* A brief is as it was counted.                                           *)
LEMMA RecallKeeps ==
  ASSUME RecallInv
  PROVE  Brief!BriefAsCounted
<1>1. SUFFICES ASSUME call.pc = "brief"
      PROVE  /\ call.tokens <= Budget
             /\ steady \/ call.again => Brief!MandatoryAsCounted /\ Brief!OptionalAsCounted
  BY DEF Brief!BriefAsCounted
<1>2. call.tokens \in Nat /\ RecallType
  BY DEF RecallInv, RecallType, Briefs
<1>3. call.tokens <= Budget
  BY <1>1, <1>2, RecallAssumption DEF RecallInv, Brief!OverBudget
<1>4. ASSUME steady \/ call.again
      PROVE  Brief!MandatoryAsCounted /\ Brief!OptionalAsCounted
  <2>1. Sure
    BY <1>1, <1>4 DEF RecallInv, Sure
  <2>2. /\ MandatoryFound(call.selected \cap Brief!Mandatory, call.limit)
        /\ Brief!OptionalAsCounted
    BY <1>1, <2>1 DEF RecallInv
  <2>3. Brief!MandatoryAsCounted
    BY <2>2 DEF MandatoryFound, Brief!MandatoryAsCounted, Whole
  <2>4. QED
    BY <2>2, <2>3
<1>5. QED
  BY <1>3, <1>4

(* A brief stays within its budget and is the selection one counter stands *)
(* for, whatever counter fails at whatever count, and for all rows,        *)
(* lengths and budgets. (services/recall.py:193-213, 321-445)              *)
THEOREM BriefsAreAsCounted == Spec => []BriefAsCounted
<1> DEFINE Good == focus = "recall" => RecallInv
<1>1. Init => Good
  BY RecallStarts DEF Init
<1>2. Good /\ [Next]_vars => Good'
  <2>1. ASSUME Good, [Next]_vars, focus' = "recall" PROVE RecallInv'
    <3>1. focus = "recall"
      BY <2>1 DEF Next, vars, KeptAlone, FactsAlone, BriefAlone, RetryAlone
    <3>2. [Brief!Next]_(Brief!vars)
      BY <2>1, <3>1, RecallMoves
    <3>3. QED
      BY <2>1, <3>1, <3>2, RecallStep
  <2>2. QED
    BY <2>1
<1>3. Good => BriefAsCounted
  BY RecallKeeps DEF BriefAsCounted
<1>4. QED
  BY <1>1, <1>2, <1>3, PTL DEF Spec
=============================================================================
