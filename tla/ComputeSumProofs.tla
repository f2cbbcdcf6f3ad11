-------------------------- MODULE ComputeSumProofs -------------------------
(* Proofs about computesum, for any tree and any inputs.                    *)
EXTENDS ComputeSum, FiniteSetTheorems, FunctionTheorems, WellFoundedInduction, TLAPS

----------------------------------------------------------------------------
(* The inductive invariant.                                                 *)

Members(b) == Children(b) \union {b}
Arriving(i) == at[i] \in {"lock", "own", "arrive"}
InUnlock(i) == at[i] \in {"check", "getval", "post", "clear"}
AtGate(i) == at[i] = "pass" \/ (InUnlock(i) /\ ret[i] = "pass")

\* Node i has counted itself at its own barrier, at its parent's, and has gone
\* on from there.
CountedOwn(i) == line[i] # "start" /\ (line[i] = "children" => ~Arriving(i))
CountedParent(i) == line[i] = "parent" /\ ~Arriving(i)
PassedOwn(i) == CountedOwn(i) /\ (line[i] = "children" => ~AtGate(i))
PassedParent(i) == CountedParent(i) /\ ~AtGate(i)

Counted(b) == {i \in Members(b) : IF i = b THEN CountedOwn(i) ELSE CountedParent(i)}
Gathered(b) == Counted(b) = Members(b)

\* Where a node is in the library follows from its line.
LineOK(i) ==
  /\ line[i] = "start" => at[i] = "client"
  /\ line[i] = "children" => arg[i] = i
  /\ line[i] = "lock" => at[i] \in {"client", "lock", "own"} /\ arg[i] = csmtx
  /\ line[i] = "unlock" =>
       at[i] \in {"client", "check", "getval", "post", "clear"} /\ arg[i] = csmtx /\ ret[i] = "client"
  /\ line[i] = "parent" => arg[i] = Parent[i]
  /\ phase[i] = "unborn" => line[i] = "start"
  /\ phase[i] \notin {"unborn", "work"} => line[i] = "parent" /\ at[i] = "client"
LinesOK == \A i \in Nodes : LineOK(i)

\* The types of TypeOK, the bounds on foothread_exit's counters left out.
Types ==
  /\ Lib!TypeOK
  /\ mtx \in Nat /\ exit_sem \in Nat /\ num_threads \in Nat /\ exited_threads \in Nat
  /\ phase \in [Ex!Callers -> Ex!Phases] /\ child \in Ex!Callers
  /\ posts \in [Ex!Callers -> Nat]
  /\ sum \in [Nodes -> Int] /\ line \in [Nodes -> Lines] /\ over \in BOOLEAN

\* Until the node and its children have all arrived the count is theirs, and
\* nobody has gone on.
BarrierOK(b) ==
  ~Gathered(b) => count[b] = Cardinality(Counted(b)) /\ gate[b] = 0
BarriersOK ==
  /\ \A b \in Nodes : BarrierOK(b)
  /\ \A i \in Nodes : at[i] = "release" => Gathered(arg[i])
  /\ \A i \in Nodes : PassedOwn(i) => Gathered(i)
  /\ \A i \in Nodes : PassedParent(i) => Gathered(Parent[i])

SumsOK ==
  \A i \in Nodes : sum[i] = IF HasSum(i) THEN Total[i] ELSE 0

\* foothread_exit: who has counted himself, and who holds the semaphore mtx.
CountedOut == {"unlock_wait", "unlock_post", "wait", "post", "out"}
Exited == {x \in Ex!Callers : phase[x] \in CountedOut}
Born == {i \in Nodes : phase[i] # "unborn"}
InMtx(x) == phase[x] \in {"create", "clone", "created", "count", "unlock_wait", "unlock_post"}
Met == AllCreated /\ exited_threads >= n

PhasesOK ==
  /\ phase[Main] \notin {"unborn"}
  /\ \A i \in Nodes : phase[i] \notin {"create", "clone", "created"}
  /\ phase[Main] \in {"create", "clone"} => child \in Nodes /\ phase[child] = "unborn"
  /\ phase[Main] \in CountedOut \union {"count"} => AllCreated
  /\ \A x, y \in Ex!Callers : InMtx(x) /\ InMtx(y) => x = y
  /\ mtx = IF \E x \in Ex!Callers : InMtx(x) THEN 0 ELSE 1
CountsOK ==
  /\ exited_threads = Cardinality(Exited)
  /\ num_threads = Cardinality(Born) + (IF phase[Main] = "clone" THEN 1 ELSE 0)
  /\ \A x \in Ex!Callers : posts[x] <= num_threads
MetOK ==
  exit_sem > 0 \/ (\E x \in Ex!Callers : phase[x] \in {"unlock_post", "post", "out"}) => Met

\* The root's barrier: its mutex, and its tokens until main removes it.
RootMutexOK ==
  /\ \A i, j \in Nodes : Root \in holds[i] /\ Root \in holds[j] => i = j
  /\ semval[Root] = IF \E i \in Nodes : Root \in holds[i] THEN 0 ELSE 1
  /\ \A i \in Nodes : at[i] \in {"own", "arrive", "release", "check", "getval", "post"} /\ arg[i] = Root
                        => Root \in holds[i]
Owed == {i \in Nodes : arg[i] = Root /\ AtGate(i)}
AtRelease == {i \in Nodes : arg[i] = Root /\ at[i] = "release"}
TokensOK ==
  /\ Gathered(Root) /\ ~CountedParent(Root) =>
       /\ AtRelease = {} => count[Root] = 0 /\ Cardinality(Owed) = gate[Root]
       /\ \A i \in AtRelease : Cardinality(Owed) = gate[Root] + left[i]
  /\ CountedParent(Root) => AtRelease = {} /\ Cardinality(Owed) = gate[Root] + 1
RemovedOK == open # {} \/ gone # {} => phase[Main] = "out"
RootOK == Children(Root) # {} /\ Root \notin open => TokensOK

IInv ==
  /\ Types /\ LinesOK /\ RemovedOK
  /\ BarriersOK /\ SumsOK
  /\ PhasesOK /\ CountsOK /\ MetOK
  /\ RootMutexOK /\ RootOK /\ OnlyRootsGroupMissing

----------------------------------------------------------------------------
(* The tree, and its sums.                                                  *)

LEMMA TreeFacts ==
  /\ Parent[Root] = Root /\ Root \in Nodes
  /\ IsFiniteSet(Nodes) /\ Cardinality(Nodes) = n
  /\ Main \notin Nodes /\ csmtx \notin Nodes
<1>1. Parent[Root] = Root /\ Root \in Nodes
  BY TreeAssumption DEF Root
<1>2. IsFiniteSet(0 .. n - 1) /\ Cardinality(0 .. n - 1) = n
  BY TreeAssumption, FS_Interval
<1>. QED
  BY <1>1, <1>2, TreeAssumption DEF Nodes

LEMMA MembersFacts ==
  ASSUME NEW b \in Nodes
  PROVE  /\ Members(b) \subseteq Nodes /\ b \in Members(b)
         /\ IsFiniteSet(Members(b)) /\ Cardinality(Members(b)) = NumChildren(b) + 1
         /\ NumChildren(b) \in Nat
         /\ Children(b) # {} => NumChildren(b) > 0
<1>1. Children(b) \subseteq Nodes /\ b \notin Children(b)
  BY DEF Children
<1>2. IsFiniteSet(Children(b))
  BY <1>1, TreeFacts, FS_Subset
<1>3. IsFiniteSet(Members(b)) /\ Cardinality(Members(b)) = NumChildren(b) + 1
  BY <1>1, <1>2, FS_AddElement DEF Members, NumChildren
<1>4. NumChildren(b) \in Nat /\ (Children(b) # {} => NumChildren(b) # 0)
  BY <1>2, FS_CardinalityType, FS_EmptySet DEF NumChildren
<1>. QED
  BY <1>1, <1>3, <1>4 DEF Members

\* A part of a barrier's members is all of them when it is as large.
LEMMA PartFacts ==
  ASSUME NEW b \in Nodes, NEW S \in SUBSET Members(b)
  PROVE  /\ IsFiniteSet(S) /\ Cardinality(S) \in 0 .. NumChildren(b) + 1
         /\ Cardinality(S) = NumChildren(b) + 1 => S = Members(b)
  BY MembersFacts, FS_Subset, FS_CardinalityType

\* Every set of nodes has one without a child in it: were Parent a map of the
\* nodes that have their parent in the set onto all of it, it would be a
\* permutation of the set, which then held the root.
LEMMA Lowest ==
  ASSUME NEW S \in SUBSET Nodes, S # {}
  PROVE  \E i \in S : Children(i) \intersect S = {}
<1>. SUFFICES ASSUME \A i \in S : Children(i) \intersect S # {} PROVE FALSE
  OBVIOUS
<1>. DEFINE T == {j \in S : Parent[j] \in S /\ Parent[j] # j}
            f == [j \in T |-> Parent[j]]
<1>1. f \in Surjection(T, S)
  <2>1. f \in [T -> S]
    OBVIOUS
  <2>2. ASSUME NEW i \in S PROVE \E j \in T : f[j] = i
    <3>1. PICK j \in Children(i) : j \in S
      OBVIOUS
    <3>. QED
      BY <3>1 DEF Children
  <2>. QED
    BY <2>1, <2>2 DEF Surjection
<1>2. IsFiniteSet(S) /\ IsFiniteSet(T) /\ Cardinality(T) <= Cardinality(S)
  BY TreeFacts, FS_Subset
<1>3. Cardinality(S) <= Cardinality(T)
  BY <1>1, <1>2, FS_Surjection
<1>4. T = S
  BY <1>2, <1>3, FS_Subset, FS_CardinalityType
<1>5. Root \in S
  BY <1>4, TreeAssumption
<1>. QED
  BY <1>4, <1>5, TreeFacts

LEMMA Least ==
  ASSUME NEW K \in SUBSET Nat, K # {}
  PROVE  \E k \in K : \A j \in K : k <= j
<1>1. PICK k \in K : \A j \in K : ~(<<j, k>> \in OpToRel(<, Nat))
  BY NatLessThanWellFounded, WFMin, Zenon
<1>2. ASSUME NEW j \in K PROVE k <= j
  <2>1. ~(j < k)
    <3>. SUFFICES ASSUME j < k PROVE <<j, k>> \in OpToRel(<, Nat)
      BY <1>1
    <3>. DEFINE p == <<j, k>>
    <3>1. p \in Nat \X Nat /\ p[1] < p[2]
      OBVIOUS
    <3>. QED
      BY <3>1, Zenon DEF OpToRel
  <2>. QED
    BY <2>1
<1>. QED
  BY <1>2

\* The sum of finitely many numbers is a number: the fold that defines it, over
\* ever larger parts of the set, stays among the numbers.
LEMMA SumIsInt ==
  ASSUME NEW S, IsFiniteSet(S), NEW f \in [S -> Int]
  PROVE  SumFunction(f) \in Int
<1>. DEFINE pick(s) == CHOOSE x \in s : TRUE
            next(s, h) == IF s = {} THEN 0 ELSE f[pick(s)] + h[s \ {pick(s)}]
            iter == CHOOSE iter : iter = [s \in SUBSET S |->
                      IF s = {} THEN 0
                      ELSE f[CHOOSE x \in s : TRUE] + iter[s \ {CHOOSE x \in s : TRUE}]]
            Upto(k) == \E h \in [SUBSET S -> Int] :
                         \A s \in SUBSET S : Cardinality(s) <= k => h[s] = next(s, h)
<1>1. DOMAIN f = S
  OBVIOUS
<1>2. SumFunction(f) = iter[S]
  BY <1>1, Zenon DEF SumFunction, SumFunctionOnSet, FoldFunctionOnSet, MapThenFoldSet
<1>3. ASSUME NEW s \in SUBSET S
      PROVE  /\ IsFiniteSet(s) /\ Cardinality(s) \in Nat /\ Cardinality(s) <= Cardinality(S)
             /\ s # {} => /\ pick(s) \in s
                          /\ Cardinality(s \ {pick(s)}) = Cardinality(s) - 1
  <2>1. s # {} => pick(s) \in s
    OBVIOUS
  <2>. HIDE DEF pick
  <2>. QED
    BY <2>1, FS_Subset, FS_CardinalityType, FS_RemoveElement
<1>. HIDE DEF pick
<1>4. ASSUME NEW s \in SUBSET S, NEW h \in [SUBSET S -> Int] PROVE next(s, h) \in Int
  <2>1. s # {} => s \ {pick(s)} \in SUBSET S /\ pick(s) \in S
    BY <1>3
  <2>. QED
    BY <2>1
<1>5. Upto(0)
  <2>. DEFINE h == [s \in SUBSET S |-> 0]
  <2>1. h \in [SUBSET S -> Int]
    OBVIOUS
  <2>2. ASSUME NEW s \in SUBSET S, Cardinality(s) <= 0 PROVE h[s] = next(s, h)
    <3>0. IsFiniteSet(s) /\ Cardinality(s) \in Nat
      BY <1>3
    <3>1. s = {}
      BY <2>2, <3>0, FS_EmptySet
    <3>. QED
      BY <3>1
  <2>. QED
    BY <2>1, <2>2
<1>6. ASSUME NEW k \in Nat, Upto(k) PROVE Upto(k + 1)
  <2>1. PICK h \in [SUBSET S -> Int] :
          \A s \in SUBSET S : Cardinality(s) <= k => h[s] = next(s, h)
    BY <1>6
  <2>. DEFINE g == [s \in SUBSET S |-> next(s, h)]
  <2>2. g \in [SUBSET S -> Int]
    BY <1>4
  <2>3. ASSUME NEW s \in SUBSET S, Cardinality(s) <= k + 1 PROVE g[s] = next(s, g)
    <3>1. s # {} => h[s \ {pick(s)}] = g[s \ {pick(s)}]
      <4>1. ASSUME s # {}
            PROVE  s \ {pick(s)} \in SUBSET S /\ Cardinality(s \ {pick(s)}) <= k
        BY <1>3, <2>3, <4>1
      <4>. QED
        BY <2>1, <4>1
    <3>. QED
      BY <3>1
  <2>. HIDE DEF g, next
  <2>. QED
    BY <2>2, <2>3
<1>. HIDE DEF Upto, next
<1>7. \A k \in Nat : Upto(k)
  <2>. SUFFICES ASSUME {k \in Nat : ~Upto(k)} # {} PROVE FALSE
    OBVIOUS
  <2>. DEFINE K == {k \in Nat : ~Upto(k)}
  <2>0. K \in SUBSET Nat /\ K # {}
    OBVIOUS
  <2>. HIDE DEF K
  <2>1. PICK k \in K : \A j \in K : k <= j
    BY <2>0, Least
  <2>2. k \in Nat /\ ~Upto(k) /\ k # 0
    BY <1>5 DEF K
  <2>3. k - 1 \in Nat /\ k - 1 \notin K
    BY <2>1, <2>2
  <2>4. Upto(k - 1)
    BY <2>3 DEF K
  <2>. QED
    BY <1>6, <2>2, <2>3, <2>4
<1>8. PICK h \in [SUBSET S -> Int] : \A s \in SUBSET S : h[s] = next(s, h)
  <2>1. Cardinality(S) \in Nat
    BY FS_CardinalityType
  <2>2. PICK h \in [SUBSET S -> Int] :
          \A s \in SUBSET S : Cardinality(s) <= Cardinality(S) => h[s] = next(s, h)
    BY <1>7, <2>1 DEF Upto
  <2>. QED
    BY <1>3, <2>2
<1>9. h = [s \in SUBSET S |-> next(s, h)]
  BY <1>8
<1>10. iter = [s \in SUBSET S |-> next(s, iter)]
  BY <1>9, Zenon DEF next, pick
<1>. HIDE DEF iter
<1>11. \A s \in SUBSET S : iter[s] = next(s, iter)
  BY <1>10
<1>12. \A s \in SUBSET S : iter[s] \in Int
  <2>. DEFINE K == {k \in Nat : \E s \in SUBSET S : Cardinality(s) = k /\ iter[s] \notin Int}
  <2>. SUFFICES ASSUME K # {} PROVE FALSE
    BY <1>3
  <2>0. K \in SUBSET Nat
    OBVIOUS
  <2>. HIDE DEF K
  <2>1. PICK k \in K : \A j \in K : k <= j
    BY <2>0, Least
  <2>2. PICK s \in SUBSET S : Cardinality(s) = k /\ iter[s] \notin Int
    BY DEF K
  <2>3. s # {}
    <3>. SUFFICES ASSUME s = {} PROVE FALSE
      OBVIOUS
    <3>1. next(s, iter) = 0
      BY DEF next
    <3>. QED
      BY <1>11, <2>2, <3>1
  <2>4. s \ {pick(s)} \in SUBSET S /\ Cardinality(s \ {pick(s)}) = k - 1 /\ k - 1 \in Nat
        /\ pick(s) \in S
    BY <1>3, <2>2, <2>3
  <2>5. iter[s \ {pick(s)}] \in Int
    <3>1. k - 1 \notin K
      BY <2>0, <2>1, <2>4
    <3>. QED
      BY <2>4, <3>1 DEF K
  <2>6. iter[s] = f[pick(s)] + iter[s \ {pick(s)}]
    BY <1>11, <2>3 DEF next
  <2>. QED
    BY <2>2, <2>4, <2>5, <2>6
<1>. QED
  BY <1>2, <1>12

\* The recursion of Total is well founded: Total is defined on ever larger sets
\* of nodes that contain their children.
LEMMA TotalUnfolds ==
  /\ Total \in [Nodes -> Int]
  /\ \A i \in Nodes :
       Total[i] = IF Children(i) = {} THEN Input[i]
                  ELSE SumFunction([j \in Children(i) |-> Total[j]])
<1>. DEFINE value(i, f) == IF Children(i) = {} THEN Input[i]
                           ELSE SumFunction([j \in Children(i) |-> f[j]])
            Right(S) == /\ \A i \in S : Children(i) \subseteq S
                        /\ \E f \in [Nodes -> Int] : \A i \in S : f[i] = value(i, f)
            K == {n - Cardinality(S) : S \in {R \in SUBSET Nodes : Right(R)}}
<1>1. ASSUME NEW i \in Nodes, NEW f \in [Nodes -> Int] PROVE value(i, f) \in Int
  <2>1. [j \in Children(i) |-> f[j]] \in [Children(i) -> Int] /\ IsFiniteSet(Children(i))
    BY TreeFacts, FS_Subset DEF Children
  <2>2. SumFunction([j \in Children(i) |-> f[j]]) \in Int
    BY <2>1, SumIsInt
  <2>. QED
    BY <2>2, TreeAssumption
<1>2. ASSUME NEW S \in SUBSET Nodes
      PROVE  IsFiniteSet(S) /\ Cardinality(S) \in Nat /\ Cardinality(S) <= n
  BY TreeFacts, FS_Subset, FS_CardinalityType
<1>3. Right({})
  <2>. DEFINE f == [i \in Nodes |-> 0]
  <2>1. f \in [Nodes -> Int]
    OBVIOUS
  <2>. QED
    BY <2>1
<1>4. ASSUME NEW S \in SUBSET Nodes, Right(S), S # Nodes
      PROVE  \E R \in SUBSET Nodes : Right(R) /\ Cardinality(R) = Cardinality(S) + 1
  <2>1. PICK f \in [Nodes -> Int] : \A i \in S : f[i] = value(i, f)
    BY <1>4
  <2>2. PICK i \in Nodes \ S : Children(i) \intersect (Nodes \ S) = {}
    BY <1>4, Lowest
  <2>. DEFINE g == [f EXCEPT ![i] = value(i, f)]
              R == S \union {i}
  <2>3. g \in [Nodes -> Int]
    BY <1>1
  <2>4. Children(i) \subseteq S
    BY <2>2 DEF Children
  <2>5. ASSUME NEW j \in R PROVE Children(j) \subseteq S /\ g[j] = value(j, g)
    <3>1. Children(j) \subseteq S
      BY <1>4, <2>4
    <3>2. [c \in Children(j) |-> g[c]] = [c \in Children(j) |-> f[c]]
      BY <3>1, <2>2
    <3>3. value(j, g) = value(j, f)
      BY <3>2
    <3>4. g[j] = value(j, f)
      BY <2>1, <2>2
    <3>. QED
      BY <3>1, <3>3, <3>4
  <2>6. Cardinality(R) = Cardinality(S) + 1
    BY <1>2, <2>2, FS_AddElement
  <2>. HIDE DEF g, value
  <2>7. Right(R)
    BY <2>3, <2>5
  <2>. QED
    BY <2>6, <2>7
<1>. HIDE DEF value
<1>5. Right(Nodes)
  <2>0. n \in Nat
    BY TreeAssumption
  <2>1. K \in SUBSET Nat
    <3>. SUFFICES ASSUME NEW S \in SUBSET Nodes PROVE n - Cardinality(S) \in Nat
      OBVIOUS
    <3>. QED
      BY <1>2, <2>0
  <2>2. K # {}
    BY <1>3
  <2>. HIDE DEF Right
  <2>3. PICK k \in K : \A j \in K : k <= j
    <3>. HIDE DEF K
    <3>. QED
      BY <2>1, <2>2, Least
  <2>4. PICK S \in SUBSET Nodes : Right(S) /\ k = n - Cardinality(S)
    OBVIOUS
  <2>5. ASSUME S # Nodes PROVE FALSE
    <3>1. PICK R \in SUBSET Nodes : Right(R) /\ Cardinality(R) = Cardinality(S) + 1
      BY <1>4, <2>4, <2>5
    <3>2. n - Cardinality(R) \in K
      BY <3>1
    <3>3. k <= n - Cardinality(R)
      BY <2>3, <3>2
    <3>. QED
      BY <1>2, <2>0, <2>4, <3>1, <3>3
  <2>. QED
    BY <2>4, <2>5
<1>6. PICK f \in [Nodes -> Int] : \A i \in Nodes : f[i] = value(i, f)
  BY <1>5
<1>7. f = [i \in Nodes |-> value(i, f)]
  BY <1>6
<1>8. Total = [i \in Nodes |-> value(i, Total)]
  BY <1>7, Zenon DEF Total, value
<1>9. \A i \in Nodes : Total[i] = value(i, Total)
  BY <1>8
<1>10. ASSUME {i \in Nodes : Total[i] \notin Int} # {} PROVE FALSE
  <2>. DEFINE U == {i \in Nodes : Total[i] \notin Int}
  <2>1. PICK i \in U : Children(i) \intersect U = {}
    BY <1>10, Lowest
  <2>. DEFINE h == [j \in Nodes |-> IF j \in Children(i) THEN Total[j] ELSE 0]
  <2>2. h \in [Nodes -> Int]
    BY <2>1
  <2>3. [j \in Children(i) |-> h[j]] = [j \in Children(i) |-> Total[j]]
    BY DEF Children
  <2>4. value(i, h) = value(i, Total)
    BY <2>3 DEF value
  <2>. QED
    BY <1>1, <1>9, <2>2, <2>4
<1>11. Total \in [Nodes -> Int]
  BY <1>8, <1>10
<1>. QED
  BY <1>9, <1>11 DEF value

----------------------------------------------------------------------------
(* The steps: a node's in the library or on its lines, and the others.      *)

LibStep(i) ==
  WaitForChildren(i) \/ LockOutput(i) \/ Work(i) \/ WaitForParent(i) \/ NodeInLibrary(i)

ExitMoves ==
  \/ \E i \in Nodes : Create(i)
  \/ MainInLibrary
  \/ \E i \in Nodes : NodeInExit(i)

LEMMA StepKinds ==
  [Next]_vars => \/ \E i \in Nodes : LibStep(i)
                 \/ ExitMoves \/ Destroy \/ MainReturns \/ UNCHANGED vars
  BY DEF Next, MainStep, Node, LibStep, ExitMoves

\* What a call of node i, or a step inside a call, leaves alone.
LEMMA OthersStay ==
  ASSUME Types, NEW i \in Nodes, LibStep(i)
  PROVE  /\ UNCHANGED <<exitvars, over, open, gone>>
         /\ \A j \in Nodes \ {i} :
              /\ at'[j] = at[j] /\ arg'[j] = arg[j] /\ ret'[j] = ret[j] /\ left'[j] = left[j]
              /\ holds'[j] = holds[j] /\ line'[j] = line[j] /\ sum'[j] = sum[j]
<1>. USE DEF Types, Lib!TypeOK, Lib!Goto
<1>1. CASE WaitForChildren(i) \/ LockOutput(i) \/ WaitForParent(i)
  BY <1>1 DEF WaitForChildren, LockOutput, WaitForParent, NextLine, Lib!BarrierWait, Lib!Lock
<1>2. CASE Work(i)
  BY <1>2 DEF Work, NextLine, Lib!Unlock
<1>3. CASE NodeInLibrary(i)
  <2>0. UNCHANGED <<exitvars, sum, line, over>> /\ Lib!Continue(i)
    BY <1>3 DEF NodeInLibrary
  <2>1. CASE Lib!Acquire(i) \/ Lib!AcquireRemoved(i) \/ Lib!SetOwner(i)
    BY <2>0, <2>1 DEF Lib!Acquire, Lib!AcquireRemoved, Lib!SetOwner
  <2>2. CASE Lib!Refused(i) \/ Lib!CheckOwner(i) \/ Lib!CheckValue(i) \/ Lib!ClearOwner(i)
    BY <2>0, <2>2 DEF Lib!Refused, Lib!CheckOwner, Lib!CheckValue, Lib!ClearOwner
  <2>3. CASE Lib!Post(i)
    BY <2>0, <2>3 DEF Lib!Post
  <2>4. CASE Lib!Arrive(i) \/ Lib!ArriveLast(i)
    BY <2>0, <2>4 DEF Lib!Arrive, Lib!ArriveLast
  <2>5. CASE Lib!PostGate(i) \/ Lib!ResetCount(i)
    BY <2>0, <2>5 DEF Lib!PostGate, Lib!ResetCount
  <2>6. CASE Lib!PassGate(i)
    BY <2>0, <2>6 DEF Lib!PassGate
  <2>. QED
    BY <2>0, <2>1, <2>2, <2>3, <2>4, <2>5, <2>6 DEF Lib!Continue
<1>. QED
  BY <1>1, <1>2, <1>3 DEF LibStep

\* A step in creation or exit leaves the library and the sums alone.
LEMMA ExitMovesAlone == ExitMoves => UNCHANGED <<libvars, sum, line, over>>
  BY DEF ExitMoves, Create, MainInLibrary, NodeInExit

LEMMA TripFact ==
  ASSUME NEW b \in Nodes
  PROVE  [i \in Nodes |-> NumChildren(i) + 1][b] = NumChildren(b) + 1 /\ NumChildren(b) \in Nat
  BY MembersFacts

LEMMA LibTypeStep ==
  ASSUME Types, NEW i \in Nodes, LibStep(i)
  PROVE  Types'
<1>0. UNCHANGED <<exitvars, over, open, gone>> /\ Parent \in [Nodes -> Nodes]
  BY OthersStay, TreeAssumption
<1>. USE TreeFacts DEF Lib!AnyMutex, Lib!Points, Lib!InUnlock, Lib!Goto, exitvars, Lines
<1>. SUFFICES Lib!TypeOK' /\ sum' \in [Nodes -> Int] /\ line' \in [Nodes -> Lines]
  BY <1>0 DEF Types
<1>01. Lib!TypeOK /\ sum \in [Nodes -> Int] /\ line \in [Nodes -> Lines]
  BY DEF Types
<1>1. CASE WaitForChildren(i) \/ LockOutput(i) \/ WaitForParent(i)
  <2>1. \E m \in {csmtx} \union Nodes : Lib!Lock(i, m)
    BY <1>0, <1>1 DEF WaitForChildren, LockOutput, WaitForParent, Lib!BarrierWait
  <2>2. Lib!TypeOK'
    BY <1>01, <2>1 DEF Lib!Lock, Lib!TypeOK
  <2>3. sum' \in [Nodes -> Int] /\ line' \in [Nodes -> Lines]
    BY <1>01, <1>1 DEF WaitForChildren, LockOutput, WaitForParent, NextLine
  <2>. QED
    BY <2>2, <2>3
<1>2. CASE Work(i)
  <2>1. [j \in Children(i) |-> sum[j]] \in [Children(i) -> Int] /\ IsFiniteSet(Children(i))
    BY <1>01, FS_Subset DEF Children
  <2>2. SumFunction([j \in Children(i) |-> sum[j]]) \in Int
    BY <2>1, SumIsInt
  <2>3. sum' \in [Nodes -> Int]
    BY <1>2, <1>01, <2>2, TreeAssumption DEF Work
  <2>4. Lib!TypeOK' /\ line' \in [Nodes -> Lines]
    BY <1>2, <1>01 DEF Work, NextLine, Lib!Unlock, Lib!TypeOK
  <2>. QED
    BY <2>3, <2>4
<1>3. CASE NodeInLibrary(i)
  <2>0. UNCHANGED <<sum, line>> /\ Lib!Continue(i)
    BY <1>3 DEF NodeInLibrary
  <2>. SUFFICES Lib!TypeOK'
    BY <1>01, <2>0
  <2>. USE <1>01 DEF Lib!TypeOK
  <2>1. CASE Lib!Acquire(i)
    BY <2>1 DEF Lib!Acquire
  <2>2. CASE Lib!AcquireRemoved(i)
    BY <2>2 DEF Lib!AcquireRemoved
  <2>3. CASE Lib!SetOwner(i)
    BY <2>3 DEF Lib!SetOwner
  <2>4. CASE Lib!Refused(i) \/ Lib!CheckOwner(i) \/ Lib!CheckValue(i)
    BY <2>4 DEF Lib!Refused, Lib!CheckOwner, Lib!CheckValue
  <2>5. CASE Lib!Post(i)
    BY <2>5 DEF Lib!Post
  <2>6. CASE Lib!ClearOwner(i)
    BY <2>6 DEF Lib!ClearOwner
  <2>7. CASE Lib!Arrive(i)
    BY <2>7 DEF Lib!Arrive
  <2>8. CASE Lib!ArriveLast(i)
    <3>1. arg[i] \in Nodes
      BY <2>8 DEF Lib!ArriveLast
    <3>2. [j \in Nodes |-> NumChildren(j) + 1][arg[i]] - 1 \in Nat
      BY <3>1, TripFact
    <3>. QED
      BY <2>8, <3>1, <3>2 DEF Lib!ArriveLast
  <2>9. CASE Lib!PostGate(i)
    BY <2>9 DEF Lib!PostGate
  <2>10. CASE Lib!ResetCount(i)
    BY <2>10 DEF Lib!ResetCount
  <2>11. CASE Lib!PassGate(i)
    BY <2>11 DEF Lib!PassGate
  <2>. QED
    BY <2>0, <2>1, <2>2, <2>3, <2>4, <2>5, <2>6, <2>7, <2>8, <2>9, <2>10, <2>11 DEF Lib!Continue
<1>. QED
  BY <1>1, <1>2, <1>3 DEF LibStep

LEMMA ExitTypeStep ==
  ASSUME Types, ExitMoves
  PROVE  Types'
<1>0. UNCHANGED <<libvars, sum, line, over>>
  BY ExitMovesAlone
<1>1. Lib!TypeOK'
  BY <1>0 DEF Types, Lib!TypeOK, Lib!InUnlock, Lib!AnyMutex, Lib!Points, libvars
<1>. DEFINE ExTypes ==
       /\ mtx \in Nat /\ exit_sem \in Nat /\ num_threads \in Nat /\ exited_threads \in Nat
       /\ phase \in [Ex!Callers -> Ex!Phases] /\ child \in Ex!Callers
       /\ posts \in [Ex!Callers -> Nat]
<1>2. ExTypes'
  <2>. USE DEF Types, Ex!Callers, Ex!Phases, Ex!Becomes
  <2>1. ASSUME NEW i \in Nodes, Create(i) PROVE ExTypes'
    BY <2>1 DEF Create, Ex!CreateLock
  <2>2. ASSUME Ex!CreateStep PROVE ExTypes'
    BY <2>2 DEF Ex!CreateStep, Ex!CreateCount, Ex!CreateClone, Ex!CreateUnlock
  <2>3. ASSUME NEW x \in Nodes \union {Main}, Ex!ExitStep(x) PROVE ExTypes'
    <3>1. CASE Ex!ExitLock(x) \/ Ex!ExitUnlock(x)
      BY <3>1 DEF Ex!ExitLock, Ex!ExitUnlock
    <3>2. CASE Ex!ExitCount(x) \/ Ex!ExitWait(x)
      BY <3>2 DEF Ex!ExitCount, Ex!ExitWait
    <3>3. CASE Ex!ExitPost(x) \/ Ex!ExitPosted(x)
      BY <3>3 DEF Ex!ExitPost, Ex!ExitPosted
    <3>. QED
      BY <2>3, <3>1, <3>2, <3>3 DEF Ex!ExitStep
  <2>. HIDE DEF ExTypes, Types
  <2>. QED
    BY <2>1, <2>2, <2>3 DEF ExitMoves, MainInLibrary, NodeInExit
<1>. QED
  BY <1>0, <1>1, <1>2 DEF Types

LEMMA TypesStep == Types /\ [Next]_vars => Types'
<1>. SUFFICES ASSUME Types, [Next]_vars PROVE Types'
  OBVIOUS
<1>1. CASE Destroy
  BY <1>1 DEF Destroy, Lib!DestroyMutex, Lib!DestroyBarrier, Types, Lib!TypeOK, Lib!InUnlock,
     Lib!AnyMutex, Lib!Points, exitvars
<1>2. CASE MainReturns
  BY <1>2 DEF MainReturns, Types, Lib!TypeOK, Lib!InUnlock, Lib!AnyMutex, Lib!Points, exitvars, libvars
<1>3. CASE UNCHANGED vars
  BY <1>3 DEF vars, Types, Lib!TypeOK, Lib!InUnlock, Lib!AnyMutex, Lib!Points, exitvars, libvars
<1>. QED
  BY <1>1, <1>2, <1>3, StepKinds, LibTypeStep, ExitTypeStep

\* A step of a node keeps it in step with its line.
LEMMA LibLineStep ==
  ASSUME Types, LinesOK, NEW i \in Nodes, LibStep(i)
  PROVE  LinesOK'
<1>0. UNCHANGED <<exitvars, over, open, gone>>
      /\ \A j \in Nodes \ {i} :
              /\ at'[j] = at[j] /\ arg'[j] = arg[j] /\ ret'[j] = ret[j] /\ left'[j] = left[j]
              /\ holds'[j] = holds[j] /\ line'[j] = line[j] /\ sum'[j] = sum[j]
  BY OthersStay
<1>1. \A j \in Nodes \ {i} : LineOK(j)'
  BY <1>0 DEF LinesOK, LineOK, exitvars
<1>. SUFFICES LineOK(i)'
  BY <1>1 DEF LinesOK
<1>2. LineOK(i) /\ phase' = phase
  BY <1>0 DEF LinesOK, exitvars
<1>3. /\ at \in [Nodes -> Lib!Points] /\ arg \in [Nodes -> Lib!AnyMutex] /\ line \in [Nodes -> Lines]
      /\ ret \in [Nodes -> {"client", "pass"}] /\ csmtx \notin Nodes
  BY TreeFacts DEF Types, Lib!TypeOK
<1>. USE <1>2, <1>3 DEF LineOK, Lib!Goto, Lib!Points, Lines
<1>4. CASE WaitForChildren(i)
  BY <1>4 DEF WaitForChildren, NextLine, Lib!BarrierWait, Lib!Lock
<1>5. CASE LockOutput(i)
  BY <1>5 DEF LockOutput, NextLine, Lib!Lock
<1>6. CASE Work(i)
  BY <1>6 DEF Work, NextLine, Lib!Unlock
<1>7. CASE WaitForParent(i)
  BY <1>7 DEF WaitForParent, NextLine, Lib!BarrierWait, Lib!Lock
<1>8. CASE NodeInLibrary(i)
  <2>0. line' = line /\ Lib!Continue(i)
    BY <1>8 DEF NodeInLibrary
  <2>. USE <2>0
  <2>1. CASE Lib!Acquire(i)
    BY <2>1 DEF Lib!Acquire
  <2>2. CASE Lib!AcquireRemoved(i)
    BY <2>2 DEF Lib!AcquireRemoved
  <2>3. CASE Lib!SetOwner(i)
    BY <2>3 DEF Lib!SetOwner
  <2>4. CASE Lib!Refused(i) \/ Lib!CheckOwner(i) \/ Lib!CheckValue(i)
    BY <2>4 DEF Lib!Refused, Lib!CheckOwner, Lib!CheckValue
  <2>5. CASE Lib!Post(i) \/ Lib!ClearOwner(i)
    BY <2>5 DEF Lib!Post, Lib!ClearOwner
  <2>6. CASE Lib!Arrive(i) \/ Lib!ArriveLast(i)
    BY <2>6 DEF Lib!Arrive, Lib!ArriveLast
  <2>7. CASE Lib!PostGate(i) \/ Lib!ResetCount(i)
    BY <2>7 DEF Lib!PostGate, Lib!ResetCount
  <2>8. CASE Lib!PassGate(i)
    BY <2>8 DEF Lib!PassGate
  <2>. QED
    BY <2>0, <2>1, <2>2, <2>3, <2>4, <2>5, <2>6, <2>7, <2>8 DEF Lib!Continue
<1>. QED
  BY <1>4, <1>5, <1>6, <1>7, <1>8 DEF LibStep

\* What a step in creation or exit does to the nodes' phases.
LEMMA PhaseMoves ==
  ASSUME Types, ExitMoves, NEW j \in Nodes
  PROVE  \/ phase'[j] = phase[j]
         \/ phase'[j] = "work" /\ j = child /\ phase[Main] = "clone"
         \/ phase[j] # "unborn" /\ line[j] = "parent" /\ at[j] = "client"
            /\ phase'[j] \in CountedOut \union {"count"}
<1>. USE TreeFacts DEF Types, Ex!Callers, Ex!Becomes
<1>1. ASSUME NEW i \in Nodes, Create(i) PROVE phase'[j] = phase[j]
  BY <1>1 DEF Create, Ex!CreateLock
<1>2. ASSUME Ex!CreateCount \/ Ex!CreateUnlock PROVE phase'[j] = phase[j]
  BY <1>2 DEF Ex!CreateCount, Ex!CreateUnlock
<1>3. ASSUME Ex!CreateClone
      PROVE  phase'[j] = phase[j] \/ (phase'[j] = "work" /\ j = child /\ phase[Main] = "clone")
  BY <1>3 DEF Ex!CreateClone
<1>4. ASSUME NEW x \in Nodes \union {Main}, Ex!ExitStep(x)
      PROVE  phase'[j] = phase[j] \/ (j = x /\ phase[j] # "unborn"
                                      /\ phase'[j] \in CountedOut \union {"count"})
  <2>. USE DEF CountedOut
  <2>1. CASE Ex!ExitLock(x) \/ Ex!ExitCount(x)
    BY <2>1 DEF Ex!ExitLock, Ex!ExitCount
  <2>2. CASE Ex!ExitUnlock(x) \/ Ex!ExitWait(x)
    BY <2>2 DEF Ex!ExitUnlock, Ex!ExitWait
  <2>3. CASE Ex!ExitPost(x) \/ Ex!ExitPosted(x)
    BY <2>3 DEF Ex!ExitPost, Ex!ExitPosted
  <2>. QED
    BY <1>4, <2>1, <2>2, <2>3 DEF Ex!ExitStep
<1>5. ASSUME NEW i \in Nodes, NodeInExit(i)
      PROVE  line[i] = "parent" /\ at[i] = "client" /\ Ex!ExitStep(i)
  BY <1>5 DEF NodeInExit
<1>6. MainInLibrary => Ex!CreateStep \/ Ex!ExitStep(Main)
  BY DEF MainInLibrary
<1>. HIDE DEF Types, Ex!Becomes
<1>. QED
  BY <1>1, <1>2, <1>3, <1>4, <1>5, <1>6 DEF ExitMoves, Ex!CreateStep

LEMMA LinesStep == Types /\ LinesOK /\ [Next]_vars => LinesOK'
<1>. SUFFICES ASSUME Types, LinesOK, [Next]_vars PROVE LinesOK'
  OBVIOUS
<1>1. CASE ExitMoves
  <2>1. UNCHANGED <<at, arg, ret, line>>
    BY <1>1, ExitMovesAlone DEF libvars
  <2>. SUFFICES ASSUME NEW j \in Nodes PROVE LineOK(j)'
    BY DEF LinesOK
  <2>2. LineOK(j)
    BY DEF LinesOK
  <2>. QED
    BY <1>1, <2>1, <2>2, PhaseMoves DEF LineOK, CountedOut
<1>2. CASE Destroy
  BY <1>2 DEF Destroy, Lib!DestroyMutex, Lib!DestroyBarrier, LinesOK, LineOK, exitvars
<1>3. CASE MainReturns \/ UNCHANGED vars
  BY <1>3 DEF MainReturns, LinesOK, LineOK, vars, libvars, exitvars
<1>. QED
  BY <1>1, <1>2, <1>3, StepKinds, LibLineStep

----------------------------------------------------------------------------
(* The barriers.                                                            *)

\* A node that has called foothread_exit has passed both its barriers.
LEMMA ExitedPassed ==
  ASSUME LinesOK, BarriersOK, NEW i \in Nodes, phase[i] \notin {"unborn", "work"}
  PROVE  Gathered(i) /\ Gathered(Parent[i])
<1>1. line[i] = "parent" /\ at[i] = "client"
  BY DEF LinesOK, LineOK
<1>2. PassedOwn(i) /\ PassedParent(i)
  BY <1>1 DEF PassedOwn, PassedParent, CountedOwn, CountedParent, Arriving, AtGate, InUnlock
<1>. QED
  BY <1>2 DEF BarriersOK

\* A barrier with children is removed only when they have all arrived.
LEMMA OpenGathered ==
  ASSUME LinesOK, BarriersOK, RemovedOK, PhasesOK, OnlyRootsGroupMissing,
         NEW b \in open, open \subseteq Nodes, Children(b) # {}
  PROVE  Gathered(b)
<1>1. phase[Main] = "out" /\ AllCreated
  BY DEF RemovedOK, PhasesOK, CountedOut
<1>2. PICK i \in Children(Root) \union {Root} : \A j \in Nodes \ {i} : phase[j] # "work"
  BY <1>1 DEF OnlyRootsGroupMissing
<1>3. \A j \in Nodes \ {i} : Gathered(j) /\ Gathered(Parent[j])
  BY <1>1, <1>2, ExitedPassed DEF AllCreated
<1>4. CASE b # i
  BY <1>3, <1>4
<1>5. CASE b = Root /\ b = i
  <2>1. PICK c \in Children(b) : TRUE
    OBVIOUS
  <2>2. c \in Nodes \ {i} /\ Parent[c] = b
    BY <1>5, <2>1 DEF Children
  <2>. QED
    BY <1>3, <2>2
<1>6. CASE b # Root /\ b = i
  <2>1. b \in Children(Root) /\ Gathered(Root)
    BY <1>2, <1>3, <1>6, TreeFacts
  <2>2. CountedParent(b)
    BY <2>1, <1>6 DEF Gathered, Counted, Members
  <2>3. PassedOwn(b)
    BY <2>2 DEF PassedOwn, CountedOwn, CountedParent
  <2>. QED
    BY <2>3 DEF BarriersOK
<1>. QED
  BY <1>4, <1>5, <1>6

\* Most steps change neither who is counted nor who has passed, nor who is at
\* the gate or posts it.
QuietStep(i) ==
  /\ count' = count /\ gate' = gate /\ left' = left
  /\ AtGate(i)' = AtGate(i) /\ (AtGate(i) => arg'[i] = arg[i])
  /\ at[i] # "release"
  /\ CountedOwn(i)' = CountedOwn(i) /\ CountedParent(i)' = CountedParent(i)
  /\ PassedOwn(i)' => PassedOwn(i)
  /\ PassedParent(i)' => PassedParent(i)
  /\ at'[i] # "release"

LEMMA QuietSteps ==
  ASSUME Types, LinesOK, NEW i \in Nodes, LibStep(i)
  PROVE  \/ QuietStep(i)
         \/ line' = line /\ (\/ Lib!Arrive(i) \/ Lib!ArriveLast(i) \/ Lib!PostGate(i)
                             \/ Lib!ResetCount(i) \/ Lib!PassGate(i))
<1>1. LineOK(i) /\ LineOK(i)'
  BY LibLineStep DEF LinesOK
<1>2. /\ at \in [Nodes -> Lib!Points] /\ arg \in [Nodes -> Lib!AnyMutex] /\ line \in [Nodes -> Lines]
      /\ ret \in [Nodes -> {"client", "pass"}] /\ csmtx \notin Nodes /\ Parent \in [Nodes -> Nodes]
  BY TreeFacts, TreeAssumption DEF Types, Lib!TypeOK
<1>. USE <1>1, <1>2 DEF LineOK, Lib!Goto, QuietStep, CountedOwn, CountedParent, PassedOwn, PassedParent,
                        Arriving, AtGate, InUnlock
<1>3. CASE WaitForChildren(i)
  BY <1>3 DEF WaitForChildren, NextLine, Lib!BarrierWait, Lib!Lock
<1>4. CASE LockOutput(i)
  BY <1>4 DEF LockOutput, NextLine, Lib!Lock
<1>5. CASE Work(i)
  BY <1>5 DEF Work, NextLine, Lib!Unlock
<1>6. CASE WaitForParent(i)
  BY <1>6 DEF WaitForParent, NextLine, Lib!BarrierWait, Lib!Lock
<1>7. CASE NodeInLibrary(i)
  <2>0. line' = line /\ Lib!Continue(i)
    BY <1>7 DEF NodeInLibrary
  <2>. USE <2>0
  <2>1. CASE Lib!Acquire(i) \/ Lib!AcquireRemoved(i)
    BY <2>1 DEF Lib!Acquire, Lib!AcquireRemoved
  <2>2. CASE Lib!SetOwner(i)
    <3>1. count' = count /\ gate' = gate /\ left' = left /\ arg' = arg /\ at[i] = "own"
          /\ at'[i] = (IF arg[i] \in Nodes THEN "arrive" ELSE "client") /\ ret' = ret
      BY <2>2 DEF Lib!SetOwner
    <3>2. arg[i] \notin Nodes => line[i] = "lock"
      BY <3>1 DEF Lines
    <3>. QED
      BY <3>1, <3>2
  <2>3. CASE Lib!Refused(i) \/ Lib!CheckOwner(i) \/ Lib!CheckValue(i)
    BY <2>3 DEF Lib!Refused, Lib!CheckOwner, Lib!CheckValue
  <2>4. CASE Lib!Post(i) \/ Lib!ClearOwner(i)
    BY <2>4 DEF Lib!Post, Lib!ClearOwner
  <2>. QED
    BY <2>0, <2>1, <2>2, <2>3, <2>4 DEF Lib!Continue
<1>. QED
  BY <1>3, <1>4, <1>5, <1>6, <1>7 DEF LibStep

LEMMA QuietBarriers ==
  ASSUME Types, BarriersOK, NEW i \in Nodes, LibStep(i), QuietStep(i)
  PROVE  BarriersOK' /\ \A b \in Nodes : Counted(b)' = Counted(b)
<1>0. \A j \in Nodes \ {i} :
        at'[j] = at[j] /\ arg'[j] = arg[j] /\ ret'[j] = ret[j] /\ line'[j] = line[j]
  BY OthersStay
<1>1. ASSUME NEW j \in Nodes
      PROVE  /\ CountedOwn(j)' = CountedOwn(j) /\ CountedParent(j)' = CountedParent(j)
             /\ PassedOwn(j)' => PassedOwn(j)
             /\ PassedParent(j)' => PassedParent(j)
             /\ at'[j] = "release" => at[j] = "release" /\ arg'[j] = arg[j]
  BY <1>0 DEF QuietStep, CountedOwn, CountedParent, PassedOwn, PassedParent, Arriving, AtGate, InUnlock
<1>2. ASSUME NEW b \in Nodes PROVE Counted(b)' = Counted(b)
  BY <1>1, MembersFacts DEF Counted, Members, Children
<1>3. \A j \in Nodes : Parent[j] \in Nodes /\ (at[j] = "release" => arg[j] \in Nodes)
  BY TreeAssumption DEF Types, Lib!TypeOK
<1>4. \A b \in Nodes : Gathered(b)' = Gathered(b)
  BY <1>2 DEF Gathered, Members, Children
<1>5. \A b \in Nodes : BarrierOK(b)'
  BY <1>2, <1>4 DEF BarriersOK, BarrierOK, QuietStep
<1>. QED
  BY <1>1, <1>2, <1>3, <1>4, <1>5 DEF BarriersOK

\* Whose barrier a thread is at follows from its line.
LEMMA AtBarrier ==
  ASSUME Types, LinesOK, NEW i \in Nodes,
         at[i] \in {"arrive", "release", "pass"} \/ (InUnlock(i) /\ ret[i] = "pass")
  PROVE  /\ arg[i] \in Nodes
         /\ \/ line[i] = "children" /\ arg[i] = i
            \/ line[i] = "parent" /\ arg[i] = Parent[i]
         /\ i \in Members(arg[i])
<1>1. LineOK(i) /\ line[i] \in Lines /\ Parent \in [Nodes -> Nodes]
  BY TreeAssumption DEF LinesOK, Types
<1>2. \/ line[i] = "children" /\ arg[i] = i
      \/ line[i] = "parent" /\ arg[i] = Parent[i]
  BY <1>1 DEF LineOK, Lines, InUnlock
<1>. QED
  BY <1>1, <1>2 DEF Members, Children

\* A node that counts itself at b is new there, or b is the root's and all have
\* been there.
LEMMA Arrival ==
  ASSUME Types, LinesOK, BarriersOK, NEW i \in Nodes, LibStep(i),
         Lib!Arrive(i) \/ Lib!ArriveLast(i), line' = line, NEW b, b = arg[i]
  PROVE  /\ b \in Nodes /\ i \in Members(b)
         /\ \A c \in Nodes \ {b} : Counted(c)' = Counted(c)
         /\ Counted(b)' = Counted(b) \union {i}
         /\ i \in Counted(b) => Gathered(b) /\ i = Root /\ b = Root /\ line[i] = "parent"
<1>0. \A j \in Nodes \ {i} :
        at'[j] = at[j] /\ arg'[j] = arg[j] /\ ret'[j] = ret[j] /\ line'[j] = line[j]
  BY OthersStay
<1>1. at[i] = "arrive" /\ at'[i] \in {"check", "release"} /\ arg' = arg
  BY DEF Types, Lib!TypeOK, Lib!Arrive, Lib!ArriveLast, Lib!Goto
<1>2. /\ b \in Nodes /\ i \in Members(b)
      /\ (line[i] = "children" /\ b = i) \/ (line[i] = "parent" /\ b = Parent[i])
  BY <1>1, AtBarrier
<1>3. \A j \in Nodes \ {i} : CountedOwn(j)' = CountedOwn(j) /\ CountedParent(j)' = CountedParent(j)
  BY <1>0 DEF CountedOwn, CountedParent, Arriving
<1>4. ASSUME NEW c \in Nodes \ {b} PROVE Counted(c)' = Counted(c)
  <2>. SUFFICES ASSUME NEW j \in Members(c)
                PROVE  (IF j = c THEN CountedOwn(j) ELSE CountedParent(j))'
                         = IF j = c THEN CountedOwn(j) ELSE CountedParent(j)
    BY DEF Counted, Members, Children
  <2>1. j \in Nodes
    BY MembersFacts
  <2>2. CASE j # i
    BY <1>3, <2>1, <2>2
  <2>3. CASE j = i
    <3>1. CASE line[i] = "children"
      BY <1>2, <2>3, <3>1 DEF CountedParent
    <3>2. CASE line[i] = "parent"
      <4>1. c = i
        BY <1>2, <2>3, <3>2 DEF Members, Children
      <4>. QED
        BY <4>1, <2>3, <3>2 DEF CountedOwn
    <3>. QED
      BY <1>2, <3>1, <3>2
  <2>. QED
    BY <2>2, <2>3
<1>5. Counted(b)' = Counted(b) \union {i}
  <2>1. IF i = b THEN CountedOwn(i)' ELSE CountedParent(i)'
    BY <1>1, <1>2 DEF CountedOwn, CountedParent, Arriving
  <2>2. \A j \in Members(b) \ {i} : (IF j = b THEN CountedOwn(j) ELSE CountedParent(j))'
                         = IF j = b THEN CountedOwn(j) ELSE CountedParent(j)
    BY <1>2, <1>3, MembersFacts
  <2>. QED
    BY <1>1, <1>2, <2>1, <2>2 DEF Counted, Members, Children
<1>6. ASSUME i \in Counted(b) PROVE Gathered(b) /\ i = Root /\ b = Root /\ line[i] = "parent"
  <2>1. line[i] = "parent" /\ b = i
    BY <1>1, <1>2, <1>6 DEF Counted, CountedOwn, CountedParent, Arriving
  <2>2. PassedOwn(i)
    BY <2>1 DEF PassedOwn, CountedOwn
  <2>3. Parent[i] = i
    BY <1>2, <2>1
  <2>4. i = Root
    <3>1. \A j \in {i} : Parent[j] \in {i}
      BY <2>3
    <3>. QED
      BY <3>1, TreeAssumption
  <2>. QED
    BY <2>1, <2>2, <2>4 DEF BarriersOK
<1>. QED
  BY <1>2, <1>4, <1>5, <1>6

LEMMA ArriveBarriers ==
  ASSUME Types, LinesOK, BarriersOK, NEW i \in Nodes, LibStep(i),
         Lib!Arrive(i) \/ Lib!ArriveLast(i), line' = line
  PROVE  BarriersOK'
<1>. PICK b : b = arg[i]
  OBVIOUS
<1>0. \A j \in Nodes \ {i} :
        at'[j] = at[j] /\ arg'[j] = arg[j] /\ ret'[j] = ret[j] /\ line'[j] = line[j]
  BY OthersStay
<1>1. /\ b \in Nodes /\ i \in Members(b)
      /\ \A c \in Nodes \ {b} : Counted(c)' = Counted(c)
      /\ Counted(b)' = Counted(b) \union {i}
      /\ i \in Counted(b) => Gathered(b) /\ line[i] = "parent"
  BY Arrival
<1>2. /\ at[i] = "arrive" /\ arg' = arg /\ gate' = gate
      /\ count' = [count EXCEPT ![b] = @ + 1]
      /\ \/ at'[i] = "check" /\ ret'[i] = "pass" /\ count[b] + 1 # NumChildren(b) + 1
         \/ at'[i] = "release" /\ count[b] + 1 = NumChildren(b) + 1
  BY <1>1, TripFact DEF Types, Lib!TypeOK, Lib!Arrive, Lib!ArriveLast, Lib!Goto, Lib!IsLast
<1>3. count \in [Nodes -> Nat] /\ Parent \in [Nodes -> Nodes]
      /\ \A j \in Nodes : at[j] = "release" => arg[j] \in Nodes
  BY TreeAssumption DEF Types, Lib!TypeOK
<1>4. \A c \in Nodes : Gathered(c) => Gathered(c)'
  BY <1>1 DEF Gathered, Members, Children
<1>5. ASSUME ~Gathered(b)
      PROVE  /\ Cardinality(Counted(b)') = Cardinality(Counted(b)) + 1
             /\ count'[b] = Cardinality(Counted(b)')
             /\ at'[i] = "release" => Gathered(b)'
  <2>1. Counted(b) \subseteq Members(b) /\ Counted(b)' \subseteq Members(b)
    BY <1>1 DEF Counted
  <2>2. Cardinality(Counted(b)') = Cardinality(Counted(b)) + 1
    BY <1>1, <1>5, <2>1, PartFacts, FS_AddElement
  <2>3. count[b] = Cardinality(Counted(b))
    BY <1>1, <1>5 DEF BarriersOK, BarrierOK
  <2>4. ASSUME at'[i] = "release" PROVE Counted(b)' = Members(b)
    BY <1>1, <1>2, <2>1, <2>2, <2>3, <2>4, PartFacts
  <2>. QED
    BY <1>1, <1>2, <1>3, <2>2, <2>3, <2>4 DEF Gathered, Members, Children
<1>6. at'[i] = "release" => Gathered(b)'
  BY <1>1, <1>4, <1>5
<1>7. ASSUME NEW c \in Nodes PROVE BarrierOK(c)'
  <2>1. CASE c = b
    BY <1>1, <1>2, <1>4, <1>5, <2>1 DEF BarriersOK, BarrierOK
  <2>2. CASE c # b
    BY <1>1, <1>2, <1>3, <1>4, <2>2 DEF BarriersOK, BarrierOK
  <2>. QED
    BY <2>1, <2>2
<1>8. ASSUME NEW j \in Nodes, at'[j] = "release" PROVE Gathered(arg[j])'
  BY <1>0, <1>2, <1>3, <1>4, <1>6, <1>8 DEF BarriersOK
<1>9. ASSUME NEW j \in Nodes
      PROVE  /\ PassedOwn(j)' => Gathered(j)'
             /\ PassedParent(j)' => Gathered(Parent[j])'
  <2>1. CASE j # i
    BY <1>0, <1>3, <1>4, <2>1
    DEF BarriersOK, PassedOwn, PassedParent, CountedOwn, CountedParent, Arriving, AtGate, InUnlock
  <2>2. CASE j = i
    <3>1. (line[i] = "children" /\ b = i) \/ (line[i] = "parent" /\ b = Parent[i])
      BY <1>2, AtBarrier
    <3>2. CASE at'[i] = "release"
      <4>1. CASE line[i] = "children"
        BY <1>6, <2>2, <3>1, <3>2, <4>1 DEF PassedParent, CountedParent
      <4>2. CASE line[i] = "parent"
        <5>1. PassedOwn(i)
          BY <4>2 DEF PassedOwn, CountedOwn
        <5>. QED
          BY <1>4, <1>6, <2>2, <3>1, <3>2, <4>2, <5>1 DEF BarriersOK
      <4>. QED
        BY <3>1, <4>1, <4>2
    <3>3. CASE at'[i] = "check" /\ ret'[i] = "pass"
      <4>1. AtGate(i)'
        BY <3>3 DEF AtGate, InUnlock
      <4>2. PassedOwn(i)' => PassedOwn(i)
        BY <3>1, <4>1 DEF PassedOwn, CountedOwn
      <4>. QED
        BY <1>4, <2>2, <4>1, <4>2 DEF BarriersOK, PassedParent
    <3>. QED
      BY <1>2, <3>2, <3>3
  <2>. QED
    BY <2>1, <2>2
<1>. QED
  BY <1>7, <1>8, <1>9 DEF BarriersOK

\* The other steps at a barrier belong to one where all have arrived.
LEMMA ReleaseBarriers ==
  ASSUME Types, LinesOK, BarriersOK, NEW i \in Nodes, LibStep(i), line' = line,
         Lib!PostGate(i) \/ Lib!ResetCount(i) \/ Lib!PassGate(i),
         Gathered(arg[i])
  PROVE  BarriersOK' /\ \A c \in Nodes : Counted(c)' = Counted(c)
<1>. PICK b : b = arg[i]
  OBVIOUS
<1>0. \A j \in Nodes \ {i} :
        at'[j] = at[j] /\ arg'[j] = arg[j] /\ ret'[j] = ret[j] /\ line'[j] = line[j]
  BY OthersStay
<1>1. /\ at[i] \in {"release", "pass"} /\ arg' = arg
      /\ \/ at' = at /\ at[i] = "release"
         \/ at'[i] = "check" /\ ret'[i] = "client" /\ at[i] = "release"
         \/ at'[i] = "client" /\ at[i] = "pass"
      /\ \A c \in Nodes \ {b} : count'[c] = count[c] /\ gate'[c] = gate[c]
  BY DEF Types, Lib!TypeOK, Lib!PostGate, Lib!ResetCount, Lib!PassGate, Lib!Goto
<1>2. /\ b \in Nodes
      /\ (line[i] = "children" /\ b = i) \/ (line[i] = "parent" /\ b = Parent[i])
  BY <1>1, AtBarrier
<1>3. Parent \in [Nodes -> Nodes] /\ \A j \in Nodes : at[j] = "release" => arg[j] \in Nodes
  BY TreeAssumption DEF Types, Lib!TypeOK
<1>4. \A j \in Nodes : CountedOwn(j)' = CountedOwn(j) /\ CountedParent(j)' = CountedParent(j)
  BY <1>0, <1>1 DEF CountedOwn, CountedParent, Arriving
<1>5. ASSUME NEW c \in Nodes PROVE Counted(c)' = Counted(c) /\ Gathered(c)' = Gathered(c)
  BY <1>4, MembersFacts DEF Counted, Gathered, Members, Children
<1>6. \A c \in Nodes : BarrierOK(c)'
  BY <1>1, <1>5 DEF BarriersOK, BarrierOK
<1>7. ASSUME NEW j \in Nodes, at'[j] = "release" PROVE Gathered(arg[j])'
  BY <1>0, <1>1, <1>3, <1>5, <1>7 DEF BarriersOK
<1>8. ASSUME NEW j \in Nodes
      PROVE  /\ PassedOwn(j)' => Gathered(j)'
             /\ PassedParent(j)' => Gathered(Parent[j])'
  <2>1. CASE j # i
    BY <1>0, <1>3, <1>5, <2>1
    DEF BarriersOK, PassedOwn, PassedParent, CountedOwn, CountedParent, Arriving, AtGate, InUnlock
  <2>2. CASE j = i /\ line[i] = "children"
    BY <1>2, <1>5, <2>2 DEF PassedParent, CountedParent
  <2>3. CASE j = i /\ line[i] = "parent"
    <3>1. PassedOwn(i)
      BY <2>3 DEF PassedOwn, CountedOwn
    <3>. QED
      BY <1>2, <1>5, <2>3, <3>1 DEF BarriersOK
  <2>. QED
    BY <1>2, <2>1, <2>2, <2>3
<1>. QED
  BY <1>5, <1>6, <1>7, <1>8 DEF BarriersOK

\* Nobody passes a barrier before all have arrived.
LEMMA PassGathered ==
  ASSUME Types, LinesOK, BarriersOK, RemovedOK, PhasesOK, OnlyRootsGroupMissing,
         NEW i \in Nodes, Lib!PostGate(i) \/ Lib!ResetCount(i) \/ Lib!PassGate(i)
  PROVE  Gathered(arg[i])
<1>. PICK b : b = arg[i]
  OBVIOUS
<1>1. at[i] \in {"release", "pass"}
  BY DEF Lib!PostGate, Lib!ResetCount, Lib!PassGate
<1>2. /\ b \in Nodes /\ i \in Members(b)
      /\ (line[i] = "children" /\ b = i) \/ (line[i] = "parent" /\ b = Parent[i])
  BY <1>1, AtBarrier
<1>3. CASE at[i] = "release"
  BY <1>3 DEF BarriersOK
<1>4. CASE at[i] = "pass" /\ b \notin open
  <2>1. gate[b] > 0
    BY <1>4 DEF Lib!PassGate, Lib!PostGate, Lib!ResetCount
  <2>. QED
    BY <1>2, <2>1 DEF BarriersOK, BarrierOK
<1>5. CASE at[i] = "pass" /\ b \in open
  <2>1. open \subseteq Nodes
    BY DEF Types, Lib!TypeOK
  <2>2. CASE Children(b) # {}
    BY <1>5, <2>1, <2>2, OpenGathered
  <2>3. CASE Children(b) = {}
    <3>1. Members(b) = {b} /\ i = b
      BY <1>2, <2>3 DEF Members
    <3>2. CountedOwn(i)
      BY <1>2, <1>5 DEF CountedOwn, Arriving
    <3>. QED
      BY <3>1, <3>2 DEF Gathered, Counted
  <2>. QED
    BY <2>2, <2>3
<1>. QED
  BY <1>1, <1>3, <1>4, <1>5

LEMMA BarriersStep ==
  Types /\ LinesOK /\ BarriersOK /\ RemovedOK /\ PhasesOK /\ OnlyRootsGroupMissing /\ [Next]_vars
    => BarriersOK'
<1>. SUFFICES ASSUME Types, LinesOK, BarriersOK, RemovedOK, PhasesOK, OnlyRootsGroupMissing, [Next]_vars
              PROVE  BarriersOK'
  OBVIOUS
<1>1. ASSUME NEW i \in Nodes, LibStep(i) PROVE BarriersOK'
  BY <1>1, QuietSteps, QuietBarriers, ArriveBarriers, ReleaseBarriers, PassGathered
<1>2. ASSUME UNCHANGED <<at, arg, ret, line, count, gate>> PROVE BarriersOK'
  <2>1. \A j : /\ CountedOwn(j)' = CountedOwn(j) /\ CountedParent(j)' = CountedParent(j)
               /\ PassedOwn(j)' = PassedOwn(j) /\ PassedParent(j)' = PassedParent(j)
    BY <1>2 DEF CountedOwn, CountedParent, PassedOwn, PassedParent, Arriving, AtGate, InUnlock
  <2>2. \A b : Counted(b)' = Counted(b) /\ Gathered(b)' = Gathered(b)
    BY <2>1 DEF Counted, Gathered, Members, Children
  <2>. QED
    BY <1>2, <2>1, <2>2 DEF BarriersOK, BarrierOK
<1>3. ExitMoves \/ Destroy \/ MainReturns \/ UNCHANGED vars => UNCHANGED <<at, arg, ret, line, count, gate>>
  BY ExitMovesAlone DEF Destroy, Lib!DestroyMutex, Lib!DestroyBarrier, MainReturns, vars, libvars
<1>. QED
  BY <1>1, <1>2, <1>3, StepKinds

(* The sums: a node adds up numbers that are final.                         *)
LEMMA SumsStep ==
  Types /\ LinesOK /\ BarriersOK /\ SumsOK /\ [Next]_vars => SumsOK'
<1>. SUFFICES ASSUME Types, LinesOK, BarriersOK, SumsOK, [Next]_vars PROVE SumsOK'
  OBVIOUS
<1>1. ASSUME UNCHANGED <<sum, line>> PROVE SumsOK'
  BY <1>1 DEF SumsOK, HasSum
<1>2. ASSUME NEW i \in Nodes, LibStep(i) PROVE SumsOK'
  <2>0. /\ sum \in [Nodes -> Int] /\ line \in [Nodes -> Lines]
        /\ \A j \in Nodes \ {i} : line'[j] = line[j] /\ sum'[j] = sum[j]
    BY <1>2, OthersStay DEF Types
  <2>. SUFFICES sum'[i] = IF HasSum(i)' THEN Total[i] ELSE 0
    BY <2>0 DEF SumsOK, HasSum
  <2>1. CASE WaitForChildren(i) \/ LockOutput(i) \/ WaitForParent(i)
    BY <2>0, <2>1 DEF WaitForChildren, LockOutput, WaitForParent, NextLine, HasSum, SumsOK
  <2>2. CASE NodeInLibrary(i)
    BY <2>0, <2>2 DEF NodeInLibrary, HasSum, SumsOK
  <2>3. CASE Work(i)
    <3>1. at[i] = "client" /\ line[i] = "lock" /\ line' = [line EXCEPT ![i] = "unlock"]
      BY <2>3 DEF Work, NextLine
    <3>2. PassedOwn(i)
      BY <3>1 DEF PassedOwn, CountedOwn
    <3>3. Gathered(i)
      BY <3>2 DEF BarriersOK
    <3>4. ASSUME NEW j \in Children(i) PROVE sum[j] = Total[j]
      <4>1. j \in Nodes /\ CountedParent(j)
        BY <3>3 DEF Gathered, Counted, Members, Children
      <4>. QED
        BY <4>1 DEF CountedParent, SumsOK, HasSum
    <3>5. [j \in Children(i) |-> sum[j]] = [j \in Children(i) |-> Total[j]]
      BY <3>4
    <3>6. sum[i] = 0
      BY <3>1 DEF SumsOK, HasSum
    <3>7. Total[i] \in Int
      BY TotalUnfolds
    <3>8. sum'[i] = IF Children(i) = {} THEN Input[i]
                    ELSE sum[i] + SumFunction([j \in Children(i) |-> sum[j]])
      BY <2>0, <2>3 DEF Work
    <3>9. sum'[i] = Total[i]
      <4>1. CASE Children(i) = {}
        BY <3>8, <4>1, TotalUnfolds
      <4>2. CASE Children(i) # {}
        <5>1. Total[i] = SumFunction([j \in Children(i) |-> sum[j]])
          BY <3>5, <4>2, TotalUnfolds
        <5>. QED
          BY <3>6, <3>7, <3>8, <4>2, <5>1
      <4>. QED
        BY <4>1, <4>2
    <3>. QED
      BY <2>0, <3>1, <3>9 DEF HasSum
  <2>. QED
    BY <1>2, <2>1, <2>2, <2>3 DEF LibStep
<1>3. ExitMoves \/ Destroy \/ MainReturns \/ UNCHANGED vars => UNCHANGED <<sum, line>>
  BY ExitMovesAlone DEF Destroy, MainReturns, vars
<1>. QED
  BY <1>1, <1>2, <1>3, StepKinds

----------------------------------------------------------------------------
(* foothread_create and foothread_exit.                                     *)

LEMMA CallersFacts ==
  /\ Ex!Callers = Nodes \union {Main} /\ Main \notin Nodes
  /\ IsFiniteSet(Ex!Callers) /\ Cardinality(Ex!Callers) = n + 1
  /\ \A S \in SUBSET Ex!Callers : IsFiniteSet(S) /\ Cardinality(S) \in Nat
                                  /\ Cardinality(S) <= n + 1
<1>1. Ex!Callers = Nodes \union {Main} /\ Main \notin Nodes
  BY TreeFacts DEF Ex!Callers
<1>2. IsFiniteSet(Ex!Callers) /\ Cardinality(Ex!Callers) = n + 1
  BY <1>1, TreeFacts, FS_AddElement
<1>. QED
  BY <1>1, <1>2, FS_Subset, FS_CardinalityType

\* The steps of creation and exit, one by one.
LEMMA ExitMoveKinds ==
  ExitMoves => \/ \E i \in Nodes : Ex!CreateLock(i)
               \/ Ex!CreateCount \/ Ex!CreateClone \/ Ex!CreateUnlock
               \/ \E x \in Ex!Callers : Ex!ExitStep(x) /\ (x = Main => AllCreated)
  BY CallersFacts DEF ExitMoves, Create, MainInLibrary, NodeInExit, Ex!CreateStep

LEMMA PhasesStep == Types /\ PhasesOK /\ [Next]_vars => PhasesOK'
<1>. SUFFICES ASSUME Types, PhasesOK, [Next]_vars PROVE PhasesOK'
  OBVIOUS
<1>1. ASSUME UNCHANGED exitvars PROVE PhasesOK'
  BY <1>1 DEF PhasesOK, exitvars, AllCreated, InMtx
<1>2. ASSUME ExitMoves PROVE PhasesOK'
  <2>. USE CallersFacts DEF Types, Ex!Becomes, InMtx, CountedOut, AllCreated
  <2>1. ASSUME NEW i \in Nodes, Ex!CreateLock(i) PROVE PhasesOK'
    BY <2>1 DEF Ex!CreateLock, PhasesOK
  <2>2. ASSUME Ex!CreateCount PROVE PhasesOK'
    BY <2>2 DEF Ex!CreateCount, PhasesOK
  <2>3. ASSUME Ex!CreateClone PROVE PhasesOK'
    BY <2>3 DEF Ex!CreateClone, PhasesOK
  <2>4. ASSUME Ex!CreateUnlock PROVE PhasesOK'
    BY <2>4 DEF Ex!CreateUnlock, PhasesOK
  <2>5. ASSUME NEW x \in Ex!Callers, Ex!ExitStep(x), x = Main => AllCreated PROVE PhasesOK'
    <3>1. CASE Ex!ExitLock(x)
      BY <2>5, <3>1 DEF Ex!ExitLock, PhasesOK
    <3>2. CASE Ex!ExitCount(x)
      BY <2>5, <3>2 DEF Ex!ExitCount, PhasesOK
    <3>3. CASE Ex!ExitUnlock(x)
      BY <2>5, <3>3 DEF Ex!ExitUnlock, PhasesOK
    <3>4. CASE Ex!ExitWait(x)
      BY <2>5, <3>4 DEF Ex!ExitWait, PhasesOK
    <3>5. CASE Ex!ExitPost(x)
      BY <2>5, <3>5 DEF Ex!ExitPost, PhasesOK
    <3>6. CASE Ex!ExitPosted(x)
      BY <2>5, <3>6 DEF Ex!ExitPosted, PhasesOK
    <3>. QED
      BY <2>5, <3>1, <3>2, <3>3, <3>4, <3>5, <3>6 DEF Ex!ExitStep
  <2>. HIDE DEF Types, Ex!Becomes, InMtx, CountedOut, AllCreated
  <2>. QED
    BY <1>2, <2>1, <2>2, <2>3, <2>4, <2>5, ExitMoveKinds
<1>3. (\E i \in Nodes : LibStep(i)) \/ Destroy \/ MainReturns \/ UNCHANGED vars => UNCHANGED exitvars
  BY OthersStay DEF Destroy, MainReturns, vars
<1>. QED
  BY <1>1, <1>2, <1>3, StepKinds

LEMMA BornFacts ==
  /\ IsFiniteSet(Born) /\ Cardinality(Born) \in Nat
  /\ Born \subseteq Nodes
  /\ AllCreated <=> Born = Nodes
  BY TreeFacts, FS_Subset, FS_CardinalityType DEF Born, AllCreated

LEMMA CountsStep == Types /\ PhasesOK /\ CountsOK /\ [Next]_vars => CountsOK'
<1>. SUFFICES ASSUME Types, PhasesOK, CountsOK, [Next]_vars PROVE CountsOK'
  OBVIOUS
<1>1. ASSUME UNCHANGED exitvars PROVE CountsOK'
  <2>1. Exited' = Exited /\ Born' = Born
    BY <1>1 DEF exitvars, Exited, Born
  <2>. QED
    BY <1>1, <2>1 DEF CountsOK, exitvars
<1>2. ASSUME ExitMoves PROVE CountsOK'
  <2>0. /\ num_threads = Cardinality(Born) + (IF phase[Main] = "clone" THEN 1 ELSE 0)
        /\ exited_threads = Cardinality(Exited) /\ Cardinality(Exited) \in Nat /\ IsFiniteSet(Exited)
        /\ Cardinality(Born) \in Nat
        /\ phase \in [Ex!Callers -> Ex!Phases] /\ posts \in [Ex!Callers -> Nat]
        /\ \A x \in Ex!Callers : posts[x] <= num_threads
    BY CallersFacts, BornFacts DEF CountsOK, Types, Exited
  <2>. USE CallersFacts DEF Ex!Becomes
  <2>1. ASSUME NEW i \in Nodes, Ex!CreateLock(i) PROVE CountsOK'
    <3>1. Exited' = Exited /\ Born' = Born
      BY <2>0, <2>1 DEF Ex!CreateLock, Exited, Born, CountedOut
    <3>. QED
      BY <2>0, <2>1, <3>1 DEF Ex!CreateLock, CountsOK
  <2>2. ASSUME Ex!CreateCount PROVE CountsOK'
    <3>1. Exited' = Exited /\ Born' = Born
      BY <2>0, <2>2 DEF Ex!CreateCount, Exited, Born, CountedOut
    <3>2. num_threads' = num_threads + 1 /\ phase'[Main] = "clone" /\ phase[Main] = "create"
          /\ UNCHANGED <<exited_threads, posts>>
      BY <2>0, <2>2 DEF Ex!CreateCount, PhasesOK
    <3>. QED
      BY <2>0, <3>1, <3>2 DEF CountsOK
  <2>3. ASSUME Ex!CreateClone PROVE CountsOK'
    <3>1. child \in Nodes /\ phase[child] = "unborn" /\ phase[Main] = "clone"
          /\ phase'[Main] = "created"
      BY <2>0, <2>3 DEF Ex!CreateClone, PhasesOK
    <3>2. Exited' = Exited /\ Born' = Born \union {child} /\ child \notin Born
      BY <2>0, <2>3, <3>1 DEF Ex!CreateClone, Exited, Born, CountedOut
    <3>3. Cardinality(Born') = Cardinality(Born) + 1
      BY <3>2, BornFacts, FS_AddElement
    <3>. QED
      BY <2>0, <2>3, <3>1, <3>2, <3>3 DEF Ex!CreateClone, CountsOK
  <2>4. ASSUME Ex!CreateUnlock PROVE CountsOK'
    <3>1. Exited' = Exited /\ Born' = Born
      BY <2>0, <2>4 DEF Ex!CreateUnlock, Exited, Born, CountedOut
    <3>. QED
      BY <2>0, <2>4, <3>1 DEF Ex!CreateUnlock, CountsOK
  <2>5. ASSUME NEW x \in Ex!Callers, Ex!ExitStep(x) PROVE CountsOK'
    <3>1. CASE Ex!ExitLock(x)
      <4>1. Exited' = Exited /\ Born' = Born
        BY <2>0, <3>1 DEF Ex!ExitLock, Exited, Born, CountedOut
      <4>. QED
        BY <2>0, <3>1, <4>1 DEF Ex!ExitLock, CountsOK
    <3>2. CASE Ex!ExitCount(x)
      <4>1. Exited' = Exited \union {x} /\ x \notin Exited /\ Born' = Born
        BY <2>0, <3>2 DEF Ex!ExitCount, Exited, Born, CountedOut
      <4>2. Cardinality(Exited') = Cardinality(Exited) + 1
        BY <2>0, <4>1, FS_AddElement
      <4>3. UNCHANGED <<num_threads, posts>> /\ exited_threads' = exited_threads + 1
            /\ (phase'[Main] = "clone" <=> phase[Main] = "clone")
        BY <2>0, <3>2 DEF Ex!ExitCount
      <4>. QED
        BY <2>0, <4>1, <4>2, <4>3 DEF CountsOK
    <3>3. CASE Ex!ExitUnlock(x)
      <4>1. Exited' = Exited /\ Born' = Born
        BY <2>0, <3>3 DEF Ex!ExitUnlock, Exited, Born, CountedOut
      <4>. QED
        BY <2>0, <3>3, <4>1 DEF Ex!ExitUnlock, CountsOK
    <3>4. CASE Ex!ExitWait(x)
      <4>1. Exited' = Exited /\ Born' = Born
        BY <2>0, <3>4 DEF Ex!ExitWait, Exited, Born, CountedOut
      <4>. QED
        BY <2>0, <3>4, <4>1 DEF Ex!ExitWait, CountsOK
    <3>5. CASE Ex!ExitPost(x)
      <4>1. Exited' = Exited /\ Born' = Born
        BY <2>0, <3>5 DEF Ex!ExitPost, Exited, Born, CountedOut
      <4>2. \A y \in Ex!Callers : posts'[y] <= num_threads
        BY <2>0, <3>5 DEF Ex!ExitPost
      <4>. QED
        BY <2>0, <3>5, <4>1, <4>2 DEF Ex!ExitPost, CountsOK
    <3>6. CASE Ex!ExitPosted(x)
      <4>1. Exited' = Exited /\ Born' = Born
        BY <2>0, <3>6 DEF Ex!ExitPosted, Exited, Born, CountedOut
      <4>. QED
        BY <2>0, <3>6, <4>1 DEF Ex!ExitPosted, CountsOK
    <3>. QED
      BY <2>5, <3>1, <3>2, <3>3, <3>4, <3>5, <3>6 DEF Ex!ExitStep
  <2>. QED
    BY <1>2, <2>1, <2>2, <2>3, <2>4, <2>5, ExitMoveKinds
<1>3. (\E i \in Nodes : LibStep(i)) \/ Destroy \/ MainReturns \/ UNCHANGED vars => UNCHANGED exitvars
  BY OthersStay DEF Destroy, MainReturns, vars
<1>. QED
  BY <1>1, <1>2, <1>3, StepKinds

\* A set of nodes that holds, with a node, its parent and its children holds
\* all nodes or none.
LEMMA WholeTree ==
  ASSUME NEW S \in SUBSET Nodes, S # {},
         \A i \in S : Parent[i] \in S /\ Children(i) \subseteq S
  PROVE  S = Nodes
<1>1. Root \in S
  BY TreeAssumption
<1>2. \A j \in Nodes \ S : Parent[j] \in Nodes \ S
  BY TreeAssumption DEF Children
<1>3. Nodes \ S # {} => Root \in Nodes \ S
  BY <1>2, TreeAssumption
<1>. QED
  BY <1>1, <1>3

\* When the count of those who have called foothread_exit reaches the count of
\* threads, main has created them all: if it were not among them, they were all
\* the nodes there are, and no node passes its barriers without its family.
LEMMA CountReached ==
  ASSUME Types, LinesOK, BarriersOK, PhasesOK, CountsOK,
         NEW x \in Ex!Callers, Ex!ExitCount(x), exited_threads + 1 = num_threads
  PROVE  AllCreated /\ num_threads = n
<1>. DEFINE X == Exited \union {x}
<1>1. phase[x] = "count" /\ phase[Main] # "clone"
  BY CallersFacts DEF Ex!ExitCount, PhasesOK, InMtx
<1>2. Cardinality(X) = num_threads /\ num_threads = Cardinality(Born)
      /\ IsFiniteSet(X) /\ X \subseteq Ex!Callers
  <2>1. IsFiniteSet(Exited) /\ x \notin Exited /\ Exited \subseteq Ex!Callers
    BY <1>1, CallersFacts DEF Exited, CountedOut
  <2>2. Cardinality(X) = Cardinality(Exited) + 1 /\ IsFiniteSet(X)
    BY <2>1, FS_AddElement
  <2>. QED
    BY <1>1, <2>1, <2>2, BornFacts DEF CountsOK
<1>3. CASE Main \in X
  <2>1. AllCreated
    BY <1>1, <1>3 DEF PhasesOK, Exited
  <2>. QED
    BY <1>2, <2>1, BornFacts, TreeFacts
<1>4. CASE Main \notin X
  <2>1. X \subseteq Born
    BY <1>1, <1>2, <1>4, CallersFacts DEF Exited, Born, CountedOut
  <2>2. X = Born
    BY <1>2, <2>1, BornFacts, FS_Subset
  <2>3. ASSUME NEW i \in Born PROVE Parent[i] \in Born /\ Children(i) \subseteq Born
    <3>1. i \in Nodes /\ phase[i] \notin {"unborn", "work"} /\ Parent[i] \in Nodes
      BY <1>1, <2>2, TreeAssumption DEF Exited, CountedOut, Born
    <3>2. Gathered(i) /\ Gathered(Parent[i])
      BY <3>1, ExitedPassed
    <3>3. CountedOwn(Parent[i]) /\ \A c \in Children(i) : CountedParent(c)
      BY <3>2 DEF Gathered, Counted, Members, Children
    <3>. QED
      BY <3>1, <3>3 DEF CountedOwn, CountedParent, LinesOK, LineOK, Born, Children
  <2>4. Born = Nodes
    BY <2>2, <2>3, BornFacts, WholeTree
  <2>. QED
    BY <1>2, <2>4, BornFacts, TreeFacts
<1>. QED
  BY <1>3, <1>4

LEMMA MetStep ==
  Types /\ LinesOK /\ BarriersOK /\ PhasesOK /\ CountsOK /\ MetOK /\ [Next]_vars => MetOK'
<1>. SUFFICES ASSUME Types, LinesOK, BarriersOK, PhasesOK, CountsOK, MetOK, [Next]_vars PROVE MetOK'
  OBVIOUS
<1>1. ASSUME UNCHANGED exitvars PROVE MetOK'
  BY <1>1 DEF MetOK, Met, exitvars, AllCreated
<1>2. ASSUME ExitMoves PROVE MetOK'
  <2>0. /\ exited_threads \in Nat /\ n \in Nat /\ exit_sem \in Nat
        /\ phase \in [Ex!Callers -> Ex!Phases]
    BY TreeAssumption DEF Types
  <2>. USE <2>0, CallersFacts DEF Ex!Becomes
  <2>1. ASSUME NEW i \in Nodes, Ex!CreateLock(i) PROVE MetOK'
    BY <2>1 DEF Ex!CreateLock, MetOK, Met, AllCreated
  <2>2. ASSUME Ex!CreateCount \/ Ex!CreateUnlock PROVE MetOK'
    BY <2>2 DEF Ex!CreateCount, Ex!CreateUnlock, MetOK, Met, AllCreated
  <2>3. ASSUME Ex!CreateClone PROVE MetOK'
    BY <2>3 DEF Ex!CreateClone, MetOK, Met, AllCreated, PhasesOK
  <2>4. ASSUME NEW x \in Ex!Callers, Ex!ExitStep(x) PROVE MetOK'
    <3>1. CASE Ex!ExitLock(x)
      BY <3>1 DEF Ex!ExitLock, MetOK, Met, AllCreated
    <3>2. CASE Ex!ExitCount(x)
      <4>1. exited_threads + 1 = num_threads => AllCreated /\ num_threads = n
        BY <3>2, CountReached
      <4>. QED
        BY <3>2, <4>1 DEF Ex!ExitCount, MetOK, Met, AllCreated
    <3>3. CASE Ex!ExitUnlock(x)
      BY <3>3 DEF Ex!ExitUnlock, MetOK, Met, AllCreated
    <3>4. CASE Ex!ExitWait(x)
      BY <3>4 DEF Ex!ExitWait, MetOK, Met, AllCreated
    <3>5. CASE Ex!ExitPost(x)
      BY <3>5 DEF Ex!ExitPost, MetOK, Met, AllCreated
    <3>6. CASE Ex!ExitPosted(x)
      BY <3>6 DEF Ex!ExitPosted, MetOK, Met, AllCreated
    <3>. QED
      BY <2>4, <3>1, <3>2, <3>3, <3>4, <3>5, <3>6 DEF Ex!ExitStep
  <2>. QED
    BY <1>2, <2>1, <2>2, <2>3, <2>4, ExitMoveKinds
<1>3. (\E i \in Nodes : LibStep(i)) \/ Destroy \/ MainReturns \/ UNCHANGED vars => UNCHANGED exitvars
  BY OthersStay DEF Destroy, MainReturns, vars
<1>. QED
  BY <1>1, <1>2, <1>3, StepKinds

----------------------------------------------------------------------------
(* The root's barrier.                                                      *)

LEMMA RootMutexStep ==
  Types /\ LinesOK /\ RootMutexOK /\ [Next]_vars => RootMutexOK'
<1>. SUFFICES ASSUME Types, LinesOK, RootMutexOK, [Next]_vars PROVE RootMutexOK'
  OBVIOUS
<1>0. /\ Root \in Nodes /\ csmtx \notin Nodes /\ Root \notin gone /\ csmtx # Root
      /\ at \in [Nodes -> Lib!Points] /\ arg \in [Nodes -> Lib!AnyMutex]
      /\ semval \in [Lib!AnyMutex -> Nat] /\ holds \in [Nodes -> SUBSET Lib!AnyMutex]
  BY TreeFacts DEF Types, Lib!TypeOK
<1>1. ASSUME UNCHANGED <<semval, holds, at, arg>> PROVE RootMutexOK'
  BY <1>1 DEF RootMutexOK
<1>2. ASSUME NEW i \in Nodes, LibStep(i) PROVE RootMutexOK'
  <2>0. \A j \in Nodes \ {i} : at'[j] = at[j] /\ arg'[j] = arg[j] /\ holds'[j] = holds[j]
    BY <1>2, OthersStay
  <2>. USE <1>0 DEF Lib!Goto, Lib!AnyMutex, Lib!Points
  <2>1. CASE WaitForChildren(i) \/ LockOutput(i) \/ WaitForParent(i)
    <3>1. \E m : Lib!Lock(i, m)
      BY <2>1 DEF WaitForChildren, LockOutput, WaitForParent, Lib!BarrierWait
    <3>2. UNCHANGED <<semval, holds>> /\ at'[i] = "lock"
      BY <3>1 DEF Lib!Lock
    <3>. QED
      BY <2>0, <3>2 DEF RootMutexOK
  <2>2. CASE Work(i)
    <3>1. UNCHANGED <<semval, holds>> /\ arg'[i] = csmtx
      BY <2>2 DEF Work, Lib!Unlock
    <3>. QED
      BY <2>0, <3>1 DEF RootMutexOK
  <2>3. CASE NodeInLibrary(i)
    <3>0. Lib!Continue(i)
      BY <2>3 DEF NodeInLibrary
    <3>1. CASE Lib!Acquire(i)
      <4>1. CASE arg[i] = Root
        <5>1. semval[Root] > 0 /\ semval'[Root] = semval[Root] - 1 /\ arg' = arg
              /\ holds'[i] = holds[i] \union {Root}
          BY <3>1, <4>1 DEF Lib!Acquire
        <5>. QED
          BY <2>0, <5>1 DEF RootMutexOK
      <4>2. CASE arg[i] # Root
        <5>1. semval'[Root] = semval[Root] /\ arg' = arg
              /\ (Root \in holds'[i] <=> Root \in holds[i])
          BY <3>1, <4>2 DEF Lib!Acquire
        <5>. QED
          BY <2>0, <4>2, <5>1 DEF RootMutexOK
      <4>. QED
        BY <4>1, <4>2
    <3>2. CASE Lib!AcquireRemoved(i)
      <4>1. UNCHANGED <<semval, holds, arg>> /\ arg[i] # Root
        BY <3>2 DEF Lib!AcquireRemoved
      <4>. QED
        BY <2>0, <4>1 DEF RootMutexOK
    <3>3. CASE Lib!SetOwner(i) \/ Lib!Refused(i) \/ Lib!CheckOwner(i) \/ Lib!CheckValue(i)
      <4>1. UNCHANGED <<semval, holds, arg>> /\ at[i] \in {"own", "check", "getval"}
        BY <3>3 DEF Lib!SetOwner, Lib!Refused, Lib!CheckOwner, Lib!CheckValue
      <4>. QED
        BY <2>0, <4>1 DEF RootMutexOK
    <3>4. CASE Lib!ClearOwner(i) \/ Lib!PassGate(i)
      <4>1. UNCHANGED <<semval, holds, arg>>
        BY <3>4 DEF Lib!ClearOwner, Lib!PassGate
      <4>2. at'[i] \in {"pass", "client"}
        BY <3>4 DEF Lib!ClearOwner, Lib!PassGate, Types, Lib!TypeOK
      <4>. QED
        BY <2>0, <4>1, <4>2 DEF RootMutexOK
    <3>5. CASE Lib!Post(i)
      <4>1. CASE arg[i] = Root
        <5>1. Root \in holds[i]
          BY <3>5, <4>1 DEF Lib!Post, RootMutexOK
        <5>2. semval'[Root] = semval[Root] + 1 /\ arg' = arg /\ at'[i] = "clear"
              /\ holds'[i] = holds[i] \ {Root}
          BY <3>5, <4>1 DEF Lib!Post
        <5>. QED
          BY <2>0, <5>1, <5>2 DEF RootMutexOK
      <4>2. CASE arg[i] # Root
        <5>1. semval'[Root] = semval[Root] /\ arg' = arg /\ at'[i] = "clear"
              /\ (Root \in holds'[i] <=> Root \in holds[i])
          BY <3>5, <4>2 DEF Lib!Post
        <5>. QED
          BY <2>0, <4>2, <5>1 DEF RootMutexOK
      <4>. QED
        BY <4>1, <4>2
    <3>6. CASE Lib!Arrive(i) \/ Lib!ArriveLast(i) \/ Lib!PostGate(i) \/ Lib!ResetCount(i)
      <4>1. UNCHANGED <<semval, holds, arg>> /\ at[i] \in {"arrive", "release"}
        BY <3>6 DEF Lib!Arrive, Lib!ArriveLast, Lib!PostGate, Lib!ResetCount
      <4>. QED
        BY <2>0, <4>1 DEF RootMutexOK
    <3>. QED
      BY <3>0, <3>1, <3>2, <3>3, <3>4, <3>5, <3>6 DEF Lib!Continue
  <2>. QED
    BY <1>2, <2>1, <2>2, <2>3 DEF LibStep
<1>3. ExitMoves \/ Destroy \/ MainReturns \/ UNCHANGED vars => UNCHANGED <<semval, holds, at, arg>>
  BY ExitMovesAlone DEF Destroy, Lib!DestroyMutex, Lib!DestroyBarrier, MainReturns, vars, libvars
<1>. QED
  BY <1>1, <1>2, <1>3, StepKinds

\* The thread that counts, or posts the gate, is alone at the root's barrier.
LEMMA AloneAtRoot ==
  ASSUME RootMutexOK, NEW i \in Nodes, NEW j \in Nodes,
         at[i] \in {"arrive", "release"}, arg[i] = Root,
         at[j] \in {"arrive", "release"}, arg[j] = Root
  PROVE  i = j
  BY DEF RootMutexOK

LEMMA OwedFacts ==
  /\ IsFiniteSet(Owed) /\ Cardinality(Owed) \in Nat
  BY TreeFacts, FS_Subset, FS_CardinalityType DEF Owed

\* Before all have arrived, those at the gate are those counted.
LEMMA OwedAreCounted ==
  ASSUME Types, LinesOK, BarriersOK, ~Gathered(Root)
  PROVE  Owed = Counted(Root) /\ AtRelease = {} /\ line[Root] # "parent"
<1>0. Root \in Nodes /\ Members(Root) \subseteq Nodes /\ Parent[Root] = Root
  BY TreeFacts, MembersFacts
<1>1. line[Root] # "parent"
  BY <1>0 DEF BarriersOK, PassedOwn, CountedOwn
<1>2. AtRelease = {}
  BY DEF BarriersOK, AtRelease
<1>3. ASSUME NEW j \in Owed PROVE j \in Counted(Root)
  <2>1. j \in Nodes /\ arg[j] = Root /\ AtGate(j)
    BY DEF Owed
  <2>2. /\ j \in Members(Root)
        /\ (line[j] = "children" /\ j = Root) \/ (line[j] = "parent" /\ Parent[j] = Root)
    BY <2>1, AtBarrier DEF AtGate
  <2>3. ~Arriving(j)
    BY <2>1 DEF AtGate, InUnlock, Arriving
  <2>. QED
    BY <1>1, <2>2, <2>3 DEF Counted, CountedOwn, CountedParent
<1>4. ASSUME NEW j \in Counted(Root) PROVE j \in Owed
  <2>0. j \in Nodes /\ LineOK(j) /\ j \in Members(Root)
    BY <1>0 DEF Counted, LinesOK
  <2>1. CASE j = Root
    <3>1. CountedOwn(j) /\ ~PassedOwn(j)
      BY <1>0, <2>1 DEF Counted, BarriersOK
    <3>. QED
      BY <2>0, <2>1, <3>1 DEF PassedOwn, Owed, LineOK
  <2>2. CASE j # Root
    <3>1. Parent[j] = Root /\ CountedParent(j) /\ ~PassedParent(j)
      BY <2>0, <2>2 DEF Counted, BarriersOK, Members, Children
    <3>. QED
      BY <2>0, <2>2, <3>1 DEF PassedParent, CountedParent, Owed, LineOK
  <2>. QED
    BY <2>1, <2>2
<1>. QED
  BY <1>1, <1>2, <1>3, <1>4

LEMMA TokensQuiet ==
  ASSUME Types, BarriersOK, TokensOK, NEW i \in Nodes, LibStep(i), QuietStep(i)
  PROVE  TokensOK'
<1>0. \A j \in Nodes \ {i} :
        at'[j] = at[j] /\ arg'[j] = arg[j] /\ ret'[j] = ret[j] /\ line'[j] = line[j]
  BY OthersStay
<1>1. Owed' = Owed
  BY <1>0 DEF Owed, QuietStep, AtGate, InUnlock
<1>2. AtRelease' = AtRelease
  BY <1>0 DEF AtRelease, QuietStep
<1>3. CountedParent(Root)' = CountedParent(Root)
  BY <1>0, TreeFacts DEF QuietStep, CountedParent, Arriving
<1>4. Gathered(Root)' = Gathered(Root)
  BY QuietBarriers, TreeFacts DEF Gathered, Members, Children
<1>. QED
  BY <1>1, <1>2, <1>3, <1>4 DEF TokensOK, QuietStep

\* A step at another barrier.
LEMMA TokensElsewhere ==
  ASSUME Types, LinesOK, BarriersOK, TokensOK, NEW i \in Nodes, LibStep(i), line' = line,
         arg[i] # Root,
         Lib!Arrive(i) \/ Lib!ArriveLast(i) \/ Lib!PostGate(i) \/ Lib!ResetCount(i) \/ Lib!PassGate(i),
         Counted(Root)' = Counted(Root)
  PROVE  TokensOK'
<1>0. \A j \in Nodes \ {i} :
        at'[j] = at[j] /\ arg'[j] = arg[j] /\ ret'[j] = ret[j] /\ left'[j] = left[j]
  BY OthersStay
<1>1. arg' = arg /\ at[i] \in {"arrive", "release", "pass"} /\ arg[i] \in Nodes
      /\ count'[Root] = count[Root] /\ gate'[Root] = gate[Root]
  BY TreeFacts DEF Types, Lib!TypeOK, Lib!Arrive, Lib!ArriveLast, Lib!PostGate, Lib!ResetCount, Lib!PassGate
<1>2. Owed' = Owed /\ AtRelease' = AtRelease /\ \A j \in AtRelease : left'[j] = left[j]
  BY <1>0, <1>1 DEF Owed, AtRelease, AtGate, InUnlock
<1>3. i # Root
  <2>1. (line[i] = "children" /\ arg[i] = i) \/ (line[i] = "parent" /\ arg[i] = Parent[i])
    BY <1>1, AtBarrier
  <2>. QED
    BY <2>1, TreeFacts
<1>4. CountedParent(Root)' = CountedParent(Root) /\ Gathered(Root)' = Gathered(Root)
  BY <1>0, <1>3, TreeFacts DEF CountedParent, Arriving, Gathered, Members, Children
<1>. QED
  BY <1>1, <1>2, <1>4 DEF TokensOK

\* An arrival: the last one of the first round brings the tokens for the others,
\* the root's second one is the only one of a second round.
LEMMA TokensArrive ==
  ASSUME Types, LinesOK, BarriersOK, RootMutexOK, TokensOK, Children(Root) # {},
         NEW i \in Nodes, LibStep(i), line' = line, arg[i] = Root,
         Lib!Arrive(i) \/ Lib!ArriveLast(i)
  PROVE  TokensOK'
<1>0. \A j \in Nodes \ {i} :
        at'[j] = at[j] /\ arg'[j] = arg[j] /\ ret'[j] = ret[j] /\ line'[j] = line[j]
  BY OthersStay
<1>1. /\ Root \in Nodes /\ i \in Members(Root)
      /\ Counted(Root)' = Counted(Root) \union {i}
      /\ i \in Counted(Root) => Gathered(Root) /\ i = Root /\ line[i] = "parent"
  BY Arrival
<1>2. /\ at[i] = "arrive" /\ arg' = arg /\ gate' = gate /\ count'[Root] = count[Root] + 1
      /\ \/ /\ at'[i] = "check" /\ ret'[i] = "pass" /\ count[Root] + 1 # NumChildren(Root) + 1
            /\ left' = left
         \/ /\ at'[i] = "release" /\ count[Root] + 1 = NumChildren(Root) + 1
            /\ left'[i] = NumChildren(Root)
  <2>1. [j \in Nodes |-> NumChildren(j) + 1][Root] = NumChildren(Root) + 1 /\ NumChildren(Root) \in Nat
    BY <1>1, TripFact
  <2>2. CASE Lib!Arrive(i)
    BY <1>1, <2>1, <2>2 DEF Types, Lib!TypeOK, Lib!Arrive, Lib!Goto, Lib!IsLast
  <2>3. CASE Lib!ArriveLast(i)
    BY <1>1, <2>1, <2>3 DEF Types, Lib!TypeOK, Lib!ArriveLast, Lib!Goto, Lib!IsLast
  <2>. QED
    BY <2>2, <2>3
<1>3. NumChildren(Root) \in Nat \ {0} /\ count[Root] \in Nat /\ gate[Root] \in Nat
  BY <1>1, MembersFacts DEF Types, Lib!TypeOK
<1>4. CASE ~Gathered(Root)
  <2>1. Owed = Counted(Root) /\ AtRelease = {} /\ line[Root] # "parent"
    BY <1>4, OwedAreCounted
  <2>2. count[Root] = Cardinality(Counted(Root)) /\ gate[Root] = 0
    BY <1>1, <1>4 DEF BarriersOK, BarrierOK
  <2>3. ~CountedParent(Root)'
    BY <2>1 DEF CountedParent
  <2>4. CASE at'[i] = "release"
    <3>1. AtRelease' = {i}
      BY <1>0, <1>2, <2>1, <2>4 DEF AtRelease
    <3>2. Owed' = Owed
      BY <1>0, <1>2, <2>4 DEF Owed, AtGate, InUnlock
    <3>. QED
      BY <1>2, <1>3, <2>1, <2>2, <2>3, <2>4, <3>1, <3>2 DEF TokensOK
  <2>5. CASE at'[i] = "check"
    <3>1. Counted(Root) \in SUBSET Members(Root) /\ i \notin Counted(Root)
      BY <1>1, <1>4 DEF Counted
    <3>2. Cardinality(Counted(Root)') = Cardinality(Counted(Root)) + 1
      BY <1>1, <3>1, PartFacts, FS_AddElement
    <3>3. Cardinality(Counted(Root)') # NumChildren(Root) + 1
      BY <1>2, <2>2, <2>5, <3>2
    <3>4. ~Gathered(Root)'
      BY <1>1, <3>3, MembersFacts DEF Gathered, Members, Children
    <3>. QED
      BY <2>3, <3>4 DEF TokensOK
  <2>. QED
    BY <1>2, <2>4, <2>5
<1>5. CASE Gathered(Root)
  <2>1. i = Root /\ line[Root] = "parent"
    BY <1>1, <1>5 DEF Gathered
  <2>2. ~CountedParent(Root)
    BY <1>2, <2>1 DEF CountedParent, Arriving
  <2>3. AtRelease = {}
    <3>. SUFFICES ASSUME NEW j \in AtRelease PROVE FALSE
      OBVIOUS
    <3>1. j \in Nodes /\ at[j] = "release" /\ arg[j] = Root
      BY DEF AtRelease
    <3>2. i = j
      BY <1>2, <3>1, AloneAtRoot
    <3>. QED
      BY <1>2, <3>1, <3>2
  <2>4. count[Root] = 0 /\ Cardinality(Owed) = gate[Root]
    BY <1>5, <2>2, <2>3 DEF TokensOK
  <2>5. at'[i] = "check" /\ ret'[i] = "pass"
    BY <1>2, <1>3, <2>4
  <2>6. Owed' = Owed \union {i} /\ i \notin Owed
    BY <1>0, <1>2, <2>5 DEF Owed, AtGate, InUnlock
  <2>7. Cardinality(Owed') = Cardinality(Owed) + 1
    BY <2>6, OwedFacts, FS_AddElement
  <2>8. AtRelease' = {}
    BY <1>0, <1>2, <2>3, <2>5 DEF AtRelease
  <2>9. CountedParent(Root)'
    BY <1>2, <2>1, <2>5 DEF CountedParent, Arriving
  <2>. QED
    BY <1>2, <2>4, <2>7, <2>8, <2>9 DEF TokensOK
<1>. QED
  BY <1>4, <1>5

\* Posting the gate, ending the round and passing keep the balance.
LEMMA TokensRelease ==
  ASSUME Types, LinesOK, BarriersOK, RootMutexOK, TokensOK, Root \notin open,
         NEW i \in Nodes, LibStep(i), line' = line, arg[i] = Root, Gathered(Root),
         Lib!PostGate(i) \/ Lib!ResetCount(i) \/ Lib!PassGate(i)
  PROVE  TokensOK'
<1>0. \A j \in Nodes \ {i} :
        at'[j] = at[j] /\ arg'[j] = arg[j] /\ ret'[j] = ret[j] /\ left'[j] = left[j] /\ line'[j] = line[j]
  BY OthersStay
<1>1. /\ Root \in Nodes /\ gate \in [Nodes -> Nat] /\ count \in [Nodes -> Nat]
      /\ left \in [Nodes -> Nat] /\ at \in [Nodes -> Lib!Points] /\ ret \in [Nodes -> {"client", "pass"}]
  BY TreeFacts DEF Types, Lib!TypeOK
<1>2. Counted(Root)' = Counted(Root)
  BY <1>1, ReleaseBarriers
<1>3. Gathered(Root)' = Gathered(Root)
  BY <1>2 DEF Gathered, Members, Children
<1>4. CountedParent(Root)' = CountedParent(Root)
  BY <1>0, <1>1 DEF CountedParent, Arriving, Lib!PostGate, Lib!ResetCount, Lib!PassGate, Lib!Goto
<1>5. ASSUME at[i] = "release" PROVE AtRelease = {i}
  BY <1>5, AloneAtRoot DEF AtRelease
<1>. USE <1>1 DEF Lib!Goto, Lib!Points
<1>6. CASE Lib!PostGate(i)
  <2>1. /\ at' = at /\ arg' = arg /\ ret' = ret /\ at[i] = "release" /\ count' = count
        /\ left'[i] = left[i] - 1 /\ gate'[Root] = gate[Root] + 1
    BY <1>6 DEF Lib!PostGate
  <2>2. Owed' = Owed /\ AtRelease' = AtRelease
    BY <2>1 DEF Owed, AtRelease, AtGate, InUnlock
  <2>. QED
    BY <1>3, <1>4, <1>5, <2>1, <2>2, OwedFacts DEF TokensOK
<1>7. CASE Lib!ResetCount(i)
  <2>1. /\ arg' = arg /\ gate' = gate /\ at[i] = "release" /\ at'[i] = "check" /\ ret'[i] = "client"
        /\ left[i] = 0 /\ count'[Root] = 0
    BY <1>7 DEF Lib!ResetCount
  <2>2. Owed' = Owed
    BY <1>0, <2>1 DEF Owed, AtGate, InUnlock
  <2>3. AtRelease' = {}
    BY <1>0, <1>5, <2>1 DEF AtRelease
  <2>. QED
    BY <1>3, <1>4, <1>5, <2>1, <2>2, <2>3, OwedFacts DEF TokensOK
<1>8. CASE Lib!PassGate(i)
  <2>1. /\ arg' = arg /\ at[i] = "pass" /\ at'[i] = "client" /\ count' = count /\ left' = left
        /\ gate'[Root] = gate[Root] - 1
    BY <1>8 DEF Lib!PassGate
  <2>2. Owed' = Owed \ {i} /\ i \in Owed
    BY <1>0, <2>1 DEF Owed, AtGate, InUnlock
  <2>3. Cardinality(Owed') = Cardinality(Owed) - 1
    BY <2>2, OwedFacts, FS_RemoveElement
  <2>4. AtRelease' = AtRelease /\ \A j \in AtRelease : left[j] \in Nat
    BY <1>0, <2>1 DEF AtRelease
  <2>. QED
    BY <1>3, <1>4, <2>1, <2>3, <2>4, OwedFacts DEF TokensOK
<1>. QED
  BY <1>6, <1>7, <1>8

LEMMA RootStep ==
  Types /\ LinesOK /\ BarriersOK /\ RemovedOK /\ PhasesOK /\ OnlyRootsGroupMissing
    /\ RootMutexOK /\ RootOK /\ [Next]_vars => RootOK'
<1>. SUFFICES ASSUME Types, LinesOK, BarriersOK, RemovedOK, PhasesOK, OnlyRootsGroupMissing,
                     RootMutexOK, RootOK, [Next]_vars, Children(Root) # {}, Root \notin open'
              PROVE  TokensOK'
  BY DEF RootOK, Children
<1>0. Root \in Nodes
  BY TreeFacts
<1>1. ASSUME NEW i \in Nodes, LibStep(i) PROVE TokensOK'
  <2>1. Root \notin open /\ TokensOK
    BY <1>1, OthersStay DEF RootOK
  <2>2. CASE QuietStep(i)
    BY <1>1, <2>1, <2>2, TokensQuiet
  <2>3. CASE line' = line /\ (Lib!Arrive(i) \/ Lib!ArriveLast(i))
    <3>1. CASE arg[i] = Root
      BY <1>1, <2>1, <2>3, <3>1, TokensArrive
    <3>2. CASE arg[i] # Root
      <4>1. Counted(Root)' = Counted(Root)
        BY <1>0, <1>1, <2>3, <3>2, Arrival
      <4>. QED
        BY <1>1, <2>1, <2>3, <3>2, <4>1, TokensElsewhere
    <3>. QED
      BY <3>1, <3>2
  <2>4. CASE line' = line /\ (Lib!PostGate(i) \/ Lib!ResetCount(i) \/ Lib!PassGate(i))
    <3>0. Gathered(arg[i])
      BY <2>4, PassGathered
    <3>1. CASE arg[i] = Root
      BY <1>1, <2>1, <2>4, <3>0, <3>1, TokensRelease
    <3>2. CASE arg[i] # Root
      <4>1. Counted(Root)' = Counted(Root)
        BY <1>0, <1>1, <2>4, <3>0, ReleaseBarriers
      <4>. QED
        BY <1>1, <2>1, <2>4, <3>2, <4>1, TokensElsewhere
    <3>. QED
      BY <3>1, <3>2
  <2>. QED
    BY <1>1, <2>2, <2>3, <2>4, QuietSteps
<1>2. ASSUME UNCHANGED <<at, arg, ret, left, line, count, gate>>, open \subseteq open' PROVE TokensOK'
  <2>1. TokensOK
    BY <1>2 DEF RootOK
  <2>2. /\ CountedParent(Root)' = CountedParent(Root) /\ Owed' = Owed /\ AtRelease' = AtRelease
        /\ Gathered(Root)' = Gathered(Root)
    BY <1>2 DEF CountedParent, CountedOwn, Arriving, Owed, AtRelease, AtGate, InUnlock, Gathered,
       Counted, Members, Children
  <2>. QED
    BY <1>2, <2>1, <2>2 DEF TokensOK
<1>3. ExitMoves \/ Destroy \/ MainReturns \/ UNCHANGED vars =>
        UNCHANGED <<at, arg, ret, left, line, count, gate>> /\ open \subseteq open'
  BY ExitMovesAlone DEF Destroy, Lib!DestroyMutex, Lib!DestroyBarrier, MainReturns, vars, libvars
<1>. QED
  BY <1>1, <1>2, <1>3, StepKinds

----------------------------------------------------------------------------
(* Main leaves.                                                             *)

\* Those at the root's barrier cannot all have gone: there is one token too few.
LEMMA OneStays ==
  ASSUME Types, LinesOK, TokensOK, \A i \in Members(Root) : phase[i] \notin {"unborn", "work"}
  PROVE  FALSE
<1>0. Root \in Nodes /\ Root \in Members(Root) /\ gate[Root] \in Nat
  BY TreeFacts, MembersFacts DEF Types, Lib!TypeOK
<1>1. CountedParent(Root)
  BY <1>0 DEF LinesOK, LineOK, CountedParent, Arriving
<1>2. Cardinality(Owed) = gate[Root] + 1
  BY <1>1 DEF TokensOK
<1>3. Owed # {}
  BY <1>0, <1>2, FS_EmptySet
<1>4. PICK i \in Nodes : arg[i] = Root /\ AtGate(i)
  BY <1>3 DEF Owed
<1>5. i \in Members(Root)
  BY <1>4, AtBarrier DEF AtGate
<1>6. at[i] = "client"
  BY <1>5 DEF LinesOK, LineOK
<1>. QED
  BY <1>4, <1>6 DEF AtGate, InUnlock

LEMMA AtMostOne ==
  ASSUME NEW M, IsFiniteSet(M), Cardinality(M) <= 1, NEW a \in M, NEW b \in M
  PROVE  a = b
<1>1. Cardinality(M \ {b}) = Cardinality(M) - 1 /\ IsFiniteSet(M \ {b})
  BY FS_RemoveElement
<1>2. Cardinality(M) \in Nat /\ Cardinality(M \ {b}) \in Nat
  BY <1>1, FS_CardinalityType
<1>3. M \ {b} = {}
  BY <1>1, <1>2, FS_EmptySet
<1>. QED
  BY <1>3

LEMMA MainLeaves ==
  ASSUME Types, LinesOK, RemovedOK, PhasesOK, CountsOK, MetOK, RootOK,
         phase[Main] \in {"wait", "post"}, Met
  PROVE  \E i \in Children(Root) \union {Root} :
           \A j \in Nodes \ {i} : phase[j] \in CountedOut
<1>. DEFINE M == Nodes \ Exited
<1>1. Main \in Exited /\ Exited \subseteq Nodes \union {Main}
  BY CallersFacts DEF Exited, CountedOut
<1>2. IsFiniteSet(M) /\ Cardinality(M) \in Nat /\ Cardinality(M) <= 1
  <2>1. M = Ex!Callers \ Exited
    BY <1>1, CallersFacts
  <2>2. Cardinality(M) = Cardinality(Ex!Callers) - Cardinality(Ex!Callers \intersect Exited)
    BY <2>1, CallersFacts, FS_Difference
  <2>3. Ex!Callers \intersect Exited = Exited
    BY <1>1, CallersFacts
  <2>4. Cardinality(Exited) >= n /\ n \in Nat /\ Cardinality(Exited) \in Nat
    BY <1>1, CallersFacts, TreeAssumption DEF Met, CountsOK
  <2>. QED
    BY <2>2, <2>3, <2>4, TreeFacts, CallersFacts, FS_Subset, FS_CardinalityType
<1>3. \A j \in Nodes \ M : phase[j] \in CountedOut
  BY DEF Exited
<1>4. CASE M = {}
  BY <1>3, <1>4
<1>5. ASSUME NEW m \in M, m \notin Children(Root) \union {Root} PROVE FALSE
  <2>1. \A j \in M : j = m
    BY <1>2, <1>5, AtMostOne
  <2>2. \A j \in Members(Root) : phase[j] \in CountedOut
    BY <1>3, <1>5, <2>1, MembersFacts, TreeFacts DEF Members
  <2>3. Children(Root) # {}
    <3>. SUFFICES ASSUME Children(Root) = {} PROVE FALSE
      OBVIOUS
    <3>1. \A j \in Nodes \ {Root} : Parent[j] \in Nodes \ {Root}
      BY TreeAssumption DEF Children
    <3>2. m \in Nodes \ {Root}
      BY <1>5
    <3>. QED
      BY <3>1, <3>2, TreeAssumption
  <2>4. Root \notin open
    BY DEF RemovedOK
  <2>5. TokensOK
    BY <2>3, <2>4 DEF RootOK
  <2>. QED
    BY <2>2, <2>5, OneStays DEF CountedOut
<1>6. CASE M # {}
  <2>1. PICK m \in M : TRUE
    BY <1>6
  <2>2. m \in Children(Root) \union {Root}
    BY <1>5
  <2>3. \A j \in M : j = m
    BY <1>2, AtMostOne
  <2>. QED
    BY <1>3, <2>2, <2>3
<1>. QED
  BY <1>4, <1>6

LEMMA MissingStep ==
  Types /\ LinesOK /\ RemovedOK /\ PhasesOK /\ CountsOK /\ MetOK /\ RootOK
    /\ OnlyRootsGroupMissing /\ [Next]_vars => OnlyRootsGroupMissing' /\ RemovedOK'
<1>. SUFFICES ASSUME Types, LinesOK, RemovedOK, PhasesOK, CountsOK, MetOK, RootOK,
                     OnlyRootsGroupMissing, [Next]_vars
              PROVE  OnlyRootsGroupMissing' /\ RemovedOK'
  OBVIOUS
<1>1. CASE phase' = phase
  <2>1. OnlyRootsGroupMissing'
    BY <1>1 DEF OnlyRootsGroupMissing, Children
  <2>2. CASE UNCHANGED <<open, gone>>
    BY <1>1, <2>1, <2>2 DEF RemovedOK
  <2>3. CASE Destroy
    BY <1>1, <2>1, <2>3 DEF RemovedOK, Destroy
  <2>4. (\E i \in Nodes : LibStep(i)) \/ ExitMoves \/ MainReturns \/ UNCHANGED vars
          => UNCHANGED <<open, gone>>
    BY OthersStay, ExitMovesAlone DEF MainReturns, vars, libvars
  <2>. QED
    BY <2>2, <2>3, <2>4, StepKinds
<1>2. CASE ExitMoves
  <2>1. UNCHANGED <<open, gone>>
    BY <1>2, ExitMovesAlone DEF libvars
  <2>2. CASE phase[Main] = "out"
    <3>1. phase'[Main] = "out"
      <4>. USE <2>2, CallersFacts DEF Types, Ex!Becomes
      <4>1. ASSUME NEW i \in Nodes, Ex!CreateLock(i) PROVE FALSE
        BY <4>1 DEF Ex!CreateLock
      <4>2. ASSUME Ex!CreateCount \/ Ex!CreateClone \/ Ex!CreateUnlock PROVE FALSE
        BY <4>2 DEF Ex!CreateCount, Ex!CreateClone, Ex!CreateUnlock
      <4>3. ASSUME NEW x \in Ex!Callers, Ex!ExitStep(x) PROVE phase'[Main] = "out"
        <5>1. CASE Ex!ExitLock(x) \/ Ex!ExitCount(x)
          BY <5>1 DEF Ex!ExitLock, Ex!ExitCount
        <5>2. CASE Ex!ExitUnlock(x) \/ Ex!ExitWait(x)
          BY <5>2 DEF Ex!ExitUnlock, Ex!ExitWait
        <5>3. CASE Ex!ExitPost(x) \/ Ex!ExitPosted(x)
          BY <5>3 DEF Ex!ExitPost, Ex!ExitPosted
        <5>. QED
          BY <4>3, <5>1, <5>2, <5>3 DEF Ex!ExitStep
      <4>. HIDE DEF Types, Ex!Becomes
      <4>. QED
        BY <1>2, <4>1, <4>2, <4>3, ExitMoveKinds
    <3>2. PICK i \in Children(Root) \union {Root} : \A j \in Nodes \ {i} : phase[j] # "work"
      BY <2>2 DEF OnlyRootsGroupMissing
    <3>3. \A j \in Nodes \ {i} : phase'[j] # "work"
      BY <1>2, <2>2, <3>2, PhaseMoves DEF CountedOut
    <3>. QED
      BY <2>1, <3>1, <3>2, <3>3 DEF OnlyRootsGroupMissing, RemovedOK, Children
  <2>3. CASE phase[Main] # "out" /\ phase'[Main] = "out"
    <3>1. phase[Main] \in {"wait", "post"} /\ Met
          /\ \A j \in Nodes : phase'[j] = phase[j]
      <4>. USE <2>3, CallersFacts DEF Types, Ex!Becomes
      <4>1. ASSUME NEW i \in Nodes, Ex!CreateLock(i) PROVE FALSE
        BY <4>1 DEF Ex!CreateLock
      <4>2. ASSUME Ex!CreateCount \/ Ex!CreateUnlock PROVE FALSE
        BY <4>2 DEF Ex!CreateCount, Ex!CreateUnlock
      <4>3. ASSUME Ex!CreateClone PROVE FALSE
        BY <4>3 DEF Ex!CreateClone, PhasesOK
      <4>4. ASSUME NEW x \in Ex!Callers, Ex!ExitStep(x)
            PROVE  Ex!ExitWait(Main) \/ Ex!ExitPosted(Main)
        <5>1. CASE Ex!ExitLock(x) \/ Ex!ExitCount(x)
          BY <5>1 DEF Ex!ExitLock, Ex!ExitCount
        <5>2. CASE Ex!ExitUnlock(x) \/ Ex!ExitPost(x)
          BY <5>2 DEF Ex!ExitUnlock, Ex!ExitPost
        <5>3. CASE Ex!ExitWait(x) \/ Ex!ExitPosted(x)
          BY <5>3 DEF Ex!ExitWait, Ex!ExitPosted
        <5>. QED
          BY <4>4, <5>1, <5>2, <5>3 DEF Ex!ExitStep
      <4>5. Ex!ExitWait(Main) \/ Ex!ExitPosted(Main)
        <5>. HIDE DEF Types, Ex!Becomes
        <5>. QED
          BY <1>2, <4>1, <4>2, <4>3, <4>4, ExitMoveKinds
      <4>. QED
        BY <4>5 DEF Ex!ExitWait, Ex!ExitPosted, MetOK
    <3>2. PICK i \in Children(Root) \union {Root} : \A j \in Nodes \ {i} : phase[j] \in CountedOut
      BY <3>1, MainLeaves
    <3>. QED
      BY <2>1, <3>1, <3>2 DEF OnlyRootsGroupMissing, RemovedOK, Children, CountedOut
  <2>4. CASE phase[Main] # "out" /\ phase'[Main] # "out"
    BY <2>1, <2>4 DEF OnlyRootsGroupMissing, RemovedOK
  <2>. QED
    BY <2>2, <2>3, <2>4
<1>3. (\E i \in Nodes : LibStep(i)) \/ Destroy \/ MainReturns \/ UNCHANGED vars => phase' = phase
  BY OthersStay DEF Destroy, MainReturns, vars, exitvars
<1>. QED
  BY <1>1, <1>2, <1>3, StepKinds

----------------------------------------------------------------------------
(* The theorems.                                                            *)

LEMMA InitInv == Init => IInv
<1>. SUFFICES ASSUME Init PROVE IInv
  OBVIOUS
<1>0. /\ \A i \in Nodes : at[i] = "client" /\ line[i] = "start" /\ phase[i] = "unborn" /\ sum[i] = 0
                          /\ gate[i] = 0 /\ count[i] = 0 /\ holds[i] = {} /\ semval[i] = 1
      /\ phase[Main] = "work" /\ open = {} /\ gone = {}
      /\ exit_sem = 0 /\ num_threads = 0 /\ exited_threads = 0 /\ mtx = 1
      /\ \A x \in Ex!Callers : posts[x] = 0
  BY CallersFacts DEF Init, Lib!Init, Ex!ExitInit, Lib!AnyMutex
<1>1. Types
  <2>1. Lib!TypeOK
    BY DEF Init, Lib!Init, Lib!TypeOK, Lib!AnyMutex, Lib!Points, Lib!InUnlock
  <2>2. sum \in [Nodes -> Int] /\ line \in [Nodes -> Lines] /\ over \in BOOLEAN
    <3>1. sum = [i \in Nodes |-> 0] /\ line = [i \in Nodes |-> "start"] /\ over = FALSE
      BY DEF Init
    <3>2. 0 \in Int
      OBVIOUS
    <3>. QED
      BY <3>1, <3>2, Zenon DEF Lines
  <2>3. /\ mtx \in Nat /\ exit_sem \in Nat /\ num_threads \in Nat /\ exited_threads \in Nat
        /\ phase \in [Ex!Callers -> Ex!Phases] /\ child \in Ex!Callers
        /\ posts \in [Ex!Callers -> Nat]
    BY CallersFacts DEF Init, Ex!ExitInit, Ex!Phases
  <2>. QED
    BY <2>1, <2>2, <2>3 DEF Types
<1>2. LinesOK /\ RemovedOK
  BY <1>0 DEF LinesOK, LineOK, RemovedOK
<1>3. \A b \in Nodes : Counted(b) = {} /\ ~Gathered(b)
  BY <1>0, MembersFacts DEF Counted, Gathered, CountedOwn, CountedParent
<1>4. BarriersOK
  BY <1>0, <1>3, FS_EmptySet DEF BarriersOK, BarrierOK, PassedOwn, PassedParent, CountedOwn, CountedParent
<1>5. SumsOK
  BY <1>0 DEF SumsOK, HasSum
<1>6. PhasesOK /\ MetOK
  BY <1>0, CallersFacts DEF PhasesOK, MetOK, CountedOut, InMtx
<1>7. CountsOK
  <2>1. Exited = {} /\ Born = {}
    BY <1>0, CallersFacts DEF Exited, Born, CountedOut
  <2>. QED
    BY <1>0, <2>1, FS_EmptySet DEF CountsOK
<1>8. RootMutexOK
  BY <1>0, TreeFacts DEF RootMutexOK
<1>9. RootOK
  BY <1>0, <1>3, TreeFacts DEF RootOK, TokensOK, CountedParent
<1>10. OnlyRootsGroupMissing
  BY <1>0 DEF OnlyRootsGroupMissing
<1>. QED
  BY <1>1, <1>2, <1>4, <1>5, <1>6, <1>7, <1>8, <1>9, <1>10 DEF IInv

LEMMA NextInv == IInv /\ [Next]_vars => IInv'
  BY TypesStep, LinesStep, BarriersStep, SumsStep, PhasesStep, CountsStep, MetStep, RootMutexStep,
     RootStep, MissingStep DEF IInv

(* The inductive invariant: where the nodes are, who has arrived at which   *)
(* barrier, the counts of foothread_exit, and the tokens of the root.       *)
THEOREM Invariance == Spec => []IInv
<1>. QED
  BY InitInv, NextInv, PTL DEF Spec

(* Every variable keeps its type, and the counters of foothread_exit stay   *)
(* within the number of threads: nobody is counted twice.                   *)
THEOREM TypesAlways == Spec => []TypeOK
<1>1. IInv => TypeOK
  <2>. SUFFICES ASSUME IInv PROVE TypeOK
    OBVIOUS
  <2>1. Types /\ PhasesOK /\ CountsOK
    BY DEF IInv
  <2>2. n \in Nat /\ Cardinality(Nodes) = n /\ IsFiniteSet(Nodes)
    BY TreeFacts, TreeAssumption
  <2>3. num_threads \in 0 .. n
    <3>1. CASE phase[Main] = "clone"
      <4>1. child \in Nodes /\ child \notin Born
        BY <2>1, <3>1 DEF PhasesOK, Born
      <4>2. Cardinality(Born \union {child}) = Cardinality(Born) + 1
        BY <4>1, BornFacts, FS_AddElement
      <4>3. Cardinality(Born \union {child}) <= n
        BY <4>1, <2>2, BornFacts, FS_Subset
      <4>. QED
        BY <2>1, <2>2, <3>1, <4>2, <4>3, BornFacts DEF CountsOK
    <3>2. CASE phase[Main] # "clone"
      <4>1. Cardinality(Born) <= n
        BY <2>2, BornFacts, FS_Subset
      <4>. QED
        BY <2>1, <2>2, <3>2, <4>1, BornFacts DEF CountsOK
    <3>. QED
      BY <3>1, <3>2
  <2>4. exited_threads \in 0 .. n + 1
    BY <2>1, <2>2, CallersFacts DEF CountsOK, Exited
  <2>5. posts \in [Ex!Callers -> 0 .. n]
    <3>. SUFFICES ASSUME NEW x \in Ex!Callers PROVE posts[x] \in 0 .. n
      BY <2>1 DEF Types
    <3>. QED
      BY <2>1, <2>2, <2>3 DEF CountsOK, Types
  <2>6. mtx \in {0, 1}
    BY <2>1 DEF PhasesOK
  <2>7. Ex!ExitTypeOK
    <3>1. exit_sem \in Nat /\ phase \in [Ex!Callers -> Ex!Phases] /\ child \in Ex!Callers
      BY <2>1 DEF Types
    <3>2. Ex!Cardinality(Nodes) = Cardinality(Nodes)
      BY DEF Ex!Cardinality, Cardinality
    <3>. QED
      BY <2>2, <2>3, <2>4, <2>5, <2>6, <3>1, <3>2 DEF Ex!ExitTypeOK
  <2>8. Lib!TypeOK /\ sum \in [Nodes -> Int] /\ line \in [Nodes -> Lines] /\ over \in BOOLEAN
    BY <2>1 DEF Types
  <2>. QED
    BY <2>7, <2>8 DEF TypeOK
<1>. QED
  BY <1>1, Invariance, PTL

(* In every tree, with every input, a node that has added up its children   *)
(* has the sum of all leaves below it.                                      *)
THEOREM SumsRightAlways == Spec => []SumsRight
<1>1. IInv => SumsRight
  BY DEF IInv, SumsOK, SumsRight
<1>. QED
  BY <1>1, Invariance, PTL

(* In every tree, when main comes back from foothread_exit only the root    *)
(* or one of its children may still have to call it.                        *)
THEOREM OnlyRootsGroupMissingAlways == Spec => []OnlyRootsGroupMissing
<1>1. IInv => OnlyRootsGroupMissing
  BY DEF IInv
<1>. QED
  BY <1>1, Invariance, PTL
=============================================================================
