---------------------------- MODULE ComputeSum -----------------------------
(***************************************************************************)
(* A7/computesum.c: one follower per node of a tree adds up the numbers    *)
(* entered at the leaves, with the mutexes and barriers of Foothread and   *)
(* the creation and exit of FootExit.  Node i's barrier, called i, is for  *)
(* the node and its children.                                              *)
(***************************************************************************)
EXTENDS Integers, FiniteSets, Functions

CONSTANTS
  n,        \* the number of nodes
  Parent,   \* the array P: the root is its own parent
  Input,    \* Input[i]: what the user enters at leaf i
  csmtx, Main, None

Nodes == 0 .. n - 1
Root == CHOOSE i \in Nodes : Parent[i] = i
Children(i) == {j \in Nodes : Parent[j] = i /\ j # i}
\* Wrong variant of NumChildren: one too few are waited for.
NumChildrenLess(i) == Cardinality(Children(i)) - (IF Children(i) = {} THEN 0 ELSE 1)

NumChildren(i) == Cardinality(Children(i))

\* The file is gentree.c's: from every node the way up leads to the one root.
ASSUME TreeAssumption ==
  /\ n \in Nat \ {0}
  /\ Parent \in [Nodes -> Nodes]
  /\ \E i \in Nodes : Parent[i] = i
  /\ \A S \in SUBSET Nodes : S # {} /\ (\A i \in S : Parent[i] \in S) => Root \in S
  /\ Input \in [Nodes -> Int]
  /\ csmtx \notin Nodes /\ Main \notin Nodes /\ None \notin Nodes

VARIABLES
  semval, tid, gate, count, gone, open, at, arg, ret, left, holds,   \* of Foothread
  mtx, exit_sem, num_threads, exited_threads, phase, child, posts,   \* of FootExit
  sum,     \* the array sum
  line,    \* line[i]: the call node i has made last
  over     \* main has returned, and with it the process

Lib == INSTANCE Foothread
         WITH Threads <- Nodes, Mutexes <- {csmtx}, Barriers <- Nodes,
              TripCount <- [i \in Nodes |-> NumChildren(i) + 1]
Ex == INSTANCE FootExit WITH Leader <- Main, Followers <- Nodes, Joinable <- Nodes

libvars == <<semval, tid, gate, count, gone, open, at, arg, ret, left, holds>>
exitvars == <<mtx, exit_sem, num_threads, exited_threads, phase, child, posts>>
vars == <<libvars, exitvars, sum, line, over>>

\* arg is written before it is read; any value will do at the start.
Init ==
  /\ Lib!Init
  /\ arg = [i \in Nodes |-> i]
  /\ Ex!ExitInit
  /\ sum = [i \in Nodes |-> 0]
  /\ line = [i \in Nodes |-> "start"]
  /\ over = FALSE

----------------------------------------------------------------------------
(* main                                                                     *)

AllCreated == \A i \in Nodes : phase[i] # "unborn"

Create(i) ==
  /\ \A j \in 0 .. i - 1 : phase[j] # "unborn"
  /\ Ex!CreateLock(i)
  /\ UNCHANGED <<libvars, sum, line, over>>

MainInLibrary ==
  /\ \/ Ex!CreateStep
     \/ AllCreated /\ Ex!ExitStep(Main)
  /\ UNCHANGED <<libvars, sum, line, over>>

\* After foothread_exit: csmtx, the barriers in order, and the end.
Destroy ==
  /\ phase[Main] = "out"
  /\ \/ Lib!DestroyMutex(csmtx)
     \/ /\ csmtx \in gone
        /\ \E i \in Nodes : (\A j \in 0 .. i - 1 : j \in open) /\ Lib!DestroyBarrier(i)
  /\ UNCHANGED <<exitvars, sum, line, over>>

MainReturns ==
  /\ phase[Main] = "out"
  /\ open = Nodes
  /\ over' = TRUE
  /\ UNCHANGED <<libvars, exitvars, sum, line>>

----------------------------------------------------------------------------
(* node                                                                     *)

NextLine(i, from, to) ==
  /\ at[i] = "client"
  /\ line[i] = from
  /\ line' = [line EXCEPT ![i] = to]

WaitForChildren(i) ==
  /\ phase[i] = "work"
  /\ NextLine(i, "start", "children")
  /\ Lib!BarrierWait(i, i)
  /\ UNCHANGED <<exitvars, sum, over>>

LockOutput(i) ==
  /\ NextLine(i, "children", "lock")
  /\ Lib!Lock(i, csmtx)
  /\ UNCHANGED <<exitvars, sum, over>>

\* A leaf reads its number, another node adds up those of its children; the
\* root prints the result.
Work(i) ==
  /\ NextLine(i, "lock", "unlock")
  /\ sum' = [sum EXCEPT ![i] = IF Children(i) = {} THEN Input[i]
                               ELSE @ + SumFunction([j \in Children(i) |-> sum[j]])]
  /\ Lib!Unlock(i, csmtx)
  /\ UNCHANGED <<exitvars, over>>

\* The root waits at its own barrier a second time.
WaitForParent(i) ==
  /\ NextLine(i, "unlock", "parent")
  /\ Lib!BarrierWait(i, Parent[i])
  /\ UNCHANGED <<exitvars, sum, over>>

NodeInExit(i) ==
  /\ at[i] = "client" /\ line[i] = "parent"
  /\ Ex!ExitStep(i)
  /\ UNCHANGED <<libvars, sum, line, over>>

NodeInLibrary(i) ==
  /\ Lib!Continue(i)
  /\ UNCHANGED <<exitvars, sum, line, over>>

Node(i) ==
  \/ WaitForChildren(i) \/ LockOutput(i) \/ Work(i) \/ WaitForParent(i)
  \/ NodeInExit(i) \/ NodeInLibrary(i)

MainStep == (\E i \in Nodes : Create(i)) \/ MainInLibrary \/ Destroy \/ MainReturns

Next ==
  /\ ~over
  /\ MainStep \/ \E i \in Nodes : Node(i)

\* Linux runs every thread that can run.
Fairness == WF_vars(~over /\ MainStep) /\ \A i \in Nodes : WF_vars(~over /\ Node(i))

Spec == Init /\ [][Next]_vars /\ Fairness

----------------------------------------------------------------------------
Lines == {"start", "children", "lock", "unlock", "parent"}

TypeOK ==
  /\ Lib!TypeOK
  /\ Ex!ExitTypeOK
  /\ sum \in [Nodes -> Int]
  /\ line \in [Nodes -> Lines]
  /\ over \in BOOLEAN

\* What node i should arrive at: the sum of the leaves below it.
Total[i \in Nodes] ==
  IF Children(i) = {} THEN Input[i] ELSE SumFunction([j \in Children(i) |-> Total[j]])

HasSum(i) == line[i] \in {"unlock", "parent"}

(* A node that has added up its children has the sum of all leaves below    *)
(* it: it has waited for every child (computesum.c:28-36), although the     *)
(* barriers of different nodes are entered in any order and the root may    *)
(* take a token of its own barrier that was posted for a child.             *)
SumsRight == \A i \in Nodes : HasSum(i) => sum[i] = Total[i]

(* When main comes back from foothread_exit, at most one node has not       *)
(* called it (foothread.c:71 counts main for it), and that is the root,     *)
(* slow after its first wait, or a child of the root whose token the root   *)
(* took in its second wait (computesum.c:46).                               *)
OnlyRootsGroupMissing ==
  phase[Main] = "out" =>
    \E i \in Children(Root) \union {Root} : \A j \in Nodes \ {i} : phase[j] # "work"

(* "Eventually, the root node prints the sum of all the user inputs" (LA7): *)
(* the process does not end before (computesum.c:39-41, 82-91).  It is not  *)
(* so: main may leave when the root has not called foothread_exit.          *)
RootPrintsFirst == over => HasSum(Root)

=============================================================================
