------------------------------ MODULE TopoSort -----------------------------
(***************************************************************************)
(* A5: n worker processes list the vertices of a directed acyclic graph in *)
(* an array T, each its own vertex after its predecessors, and a boss      *)
(* waits for all of them and checks the order (boss.c, worker.c).  The     *)
(* workers start after the boss has made the shared memory and the         *)
(* semaphores.  Every P and V names semaphore 0 of its set, so of the n    *)
(* semaphores of syncid only the first is used.                            *)
(***************************************************************************)
EXTENDS Integers, FiniteSets

CONSTANTS
  n,        \* the number of vertices
  Graphs,   \* the graphs that may be in graph.txt, as sets of edges <<i, j>>
  OldT      \* what T may hold at the start: zeros, or what a run has left that
            \* found its order invalid and so did not remove the memory

Vertices == 0 .. n - 1

ASSUME GraphAssumption ==
  /\ n \in Nat
  /\ Graphs \subseteq SUBSET (Vertices \X Vertices)
  /\ OldT \subseteq [Vertices -> Vertices]

VARIABLES
  A,         \* the graph, in shared memory
  T, idx,    \* the listing and its next free index, in shared memory
  sync,      \* semaphore 0 of syncid
  mtx, ntfy, \* the two other semaphores
  removed,   \* the semaphores have been removed
  at,        \* at[i]: where worker i is
  todo,      \* todo[i]: the P's, later the V's on sync, worker i has to make
  heard,     \* the notifications the boss has received
  boss       \* "wait", "check", then the verdict "valid" or "invalid"

topo_vars == <<A, T, idx, sync, mtx, ntfy, removed, at, todo, heard, boss>>

Pred(i) == {j \in Vertices : <<j, i>> \in A}
Succ(i) == {j \in Vertices : <<i, j>> \in A}

TopoInit ==
  /\ A \in Graphs
  /\ T \in OldT
  /\ idx = 0
  /\ sync = 0 /\ mtx = 1 /\ ntfy = 0
  /\ removed = FALSE
  /\ at = [i \in Vertices |-> "wait"]
  /\ todo = [i \in Vertices |-> Cardinality(Pred(i))]
  /\ heard = 0
  /\ boss = "wait"

Goto(i, from, to) == at[i] = from /\ at' = [at EXCEPT ![i] = to]

----------------------------------------------------------------------------
(* worker                                                                   *)

\* P(syncid), once for every predecessor, whoever made the V.
AwaitOne(i) ==
  /\ at[i] = "wait" /\ todo[i] > 0
  /\ sync > 0
  /\ sync' = sync - 1
  /\ todo' = [todo EXCEPT ![i] = @ - 1]
  /\ UNCHANGED <<A, T, idx, mtx, ntfy, removed, at, heard, boss>>

\* Wrong variant of Lock: the semaphore is not used.
LockUnwaiting(i) ==
  /\ todo[i] = 0
  /\ Goto(i, "wait", "write")
  /\ UNCHANGED <<A, T, idx, sync, mtx, ntfy, removed, todo, heard, boss>>

Lock(i) ==
  /\ todo[i] = 0
  /\ Goto(i, "wait", "write")
  /\ mtx > 0
  /\ mtx' = mtx - 1
  /\ UNCHANGED <<A, T, idx, sync, ntfy, removed, todo, heard, boss>>

Write(i) ==
  /\ Goto(i, "write", "bump")
  /\ T' = [T EXCEPT ![idx] = i]
  /\ UNCHANGED <<A, idx, sync, mtx, ntfy, removed, todo, heard, boss>>

Bump(i) ==
  /\ Goto(i, "bump", "unlock")
  /\ idx' = idx + 1
  /\ UNCHANGED <<A, T, sync, mtx, ntfy, removed, todo, heard, boss>>

Unlock(i) ==
  /\ Goto(i, "unlock", "notify")
  /\ mtx' = mtx + 1
  /\ UNCHANGED <<A, T, idx, sync, ntfy, removed, todo, heard, boss>>

\* Wrong variant of Notify: the successors are forgotten.
NotifyOnly(i) ==
  /\ Goto(i, "notify", "signal")
  /\ ntfy' = ntfy + 1
  /\ UNCHANGED <<A, T, idx, sync, mtx, removed, todo, heard, boss>>

Notify(i) ==
  /\ Goto(i, "notify", "signal")
  /\ ntfy' = ntfy + 1
  /\ todo' = [todo EXCEPT ![i] = Cardinality(Succ(i))]
  /\ UNCHANGED <<A, T, idx, sync, mtx, removed, heard, boss>>

\* V(syncid), once for every successor; it fails when the boss is through.
SignalOne(i) ==
  /\ at[i] = "signal" /\ todo[i] > 0
  /\ sync' = IF removed THEN sync ELSE sync + 1
  /\ todo' = [todo EXCEPT ![i] = @ - 1]
  /\ UNCHANGED <<A, T, idx, mtx, ntfy, removed, at, heard, boss>>

Finish(i) ==
  /\ todo[i] = 0
  /\ Goto(i, "signal", "done")
  /\ UNCHANGED <<A, T, idx, sync, mtx, ntfy, removed, todo, heard, boss>>

Worker(i) ==
  \/ AwaitOne(i) \/ Lock(i) \/ Write(i) \/ Bump(i) \/ Unlock(i) \/ Notify(i)
  \/ SignalOne(i) \/ Finish(i)

----------------------------------------------------------------------------
(* boss                                                                     *)

Hear ==
  /\ boss = "wait" /\ heard < n
  /\ ntfy > 0
  /\ ntfy' = ntfy - 1
  /\ heard' = heard + 1
  /\ UNCHANGED <<A, T, idx, sync, mtx, removed, at, todo, boss>>

Heard == boss = "wait" /\ heard = n

HearLast ==
  /\ Heard
  /\ boss' = "check"
  /\ UNCHANGED <<A, T, idx, sync, mtx, ntfy, removed, at, todo, heard>>

Misplaced(k, l) == <<T[l], T[k]>> \in A \/ T[k] = T[l]

\* An invalid order ends the boss before it removes anything.
Check ==
  /\ boss = "check"
  /\ IF \E l \in Vertices : \E k \in 0 .. l - 1 : Misplaced(k, l)
       THEN boss' = "invalid" /\ UNCHANGED removed
       ELSE boss' = "valid" /\ removed' = TRUE
  /\ UNCHANGED <<A, T, idx, sync, mtx, ntfy, at, todo, heard>>

Boss == Hear \/ HearLast \/ Check

TopoNext == Boss \/ \E i \in Vertices : Worker(i)

\* The system runs every process that can run.
TopoFairness == WF_topo_vars(Boss) /\ \A i \in Vertices : WF_topo_vars(Worker(i))

TopoSpec == TopoInit /\ [][TopoNext]_topo_vars /\ TopoFairness

----------------------------------------------------------------------------
TopoTypeOK ==
  /\ A \subseteq Vertices \X Vertices
  /\ T \in [Vertices -> Vertices]
  /\ idx \in 0 .. n
  /\ sync \in Nat /\ mtx \in {0, 1} /\ ntfy \in Nat
  /\ removed \in BOOLEAN
  /\ at \in [Vertices -> {"wait", "write", "bump", "unlock", "notify", "signal", "done"}]
  /\ todo \in [Vertices -> Nat]
  /\ heard \in 0 .. n
  /\ boss \in {"wait", "check", "valid", "invalid"}

Inside == {i \in Vertices : at[i] \in {"write", "bump", "unlock"}}
Listed == {i \in Vertices : at[i] \in {"unlock", "notify", "signal", "done"}}
Notified == {i \in Vertices : at[i] \in {"signal", "done"}}

\* The semaphore mtx admits one worker at a time.
OneInside ==
  /\ mtx = IF Inside = {} THEN 1 ELSE 0
  /\ \A i, j \in Inside : i = j

\* The first idx places of T hold the workers that have listed themselves.
ListSoFar ==
  /\ idx = Cardinality(Listed)
  /\ \A k \in 0 .. idx - 1 : T[k] \in Listed
  /\ \A v \in Listed : \E k \in 0 .. idx - 1 : T[k] = v
  /\ \A k, l \in 0 .. idx - 1 : T[k] = T[l] => k = l
  /\ \A i \in Vertices : at[i] = "bump" => T[idx] = i

\* Every notification is on its way or heard, and the boss needs them all.
AllHeard ==
  /\ ntfy + heard = Cardinality(Notified)
  /\ boss # "wait" => heard = n
  /\ removed => boss = "valid"

(* When the boss reads T, every worker has written its vertex there, in a   *)
(* place of its own (boss.c:76-96, worker.c:66-72).                         *)
ListingComplete ==
  boss # "wait" =>
    /\ \A v \in Vertices : \E k \in Vertices : T[k] = v
    /\ \A k, l \in Vertices : k # l => T[k] # T[l]

TopoInv == TopoTypeOK /\ OneInside /\ ListSoFar /\ AllHeard

(* The boss removes the semaphores while workers may still be signalling    *)
(* their successors (boss.c:105-107, worker.c:74-78), but no worker is then *)
(* in, or before, its P's or its critical section.                          *)
NoneNeedsRemoved ==
  removed => \A i \in Vertices : at[i] \in {"signal", "done"}

(* "semaphore to block workers until all predecessors are done"             *)
(* (boss.c:51): a worker that is in its critical section, or past it, has   *)
(* all its predecessors past theirs.  It is not so: every P and V is on     *)
(* semaphore 0 of the set, and a worker takes what was meant for another.   *)
PredecessorsFirst ==
  \A i \in Vertices : at[i] # "wait" =>
    \A j \in Pred(i) : at[j] \in {"notify", "signal", "done"}

\* No vertex has both predecessors and successors.
TwoLayers == \A e, f \in A : e[2] # f[1]

(* When every worker either waits or signals, but none does both, all       *)
(* signals made are enough for all that wait, in whatever way they are      *)
(* shared out: the boss comes to a verdict (worker.c:61-78, boss.c:76-96).  *)
DecidesInLayers == TwoLayers ~> boss \in {"valid", "invalid"}

=============================================================================
