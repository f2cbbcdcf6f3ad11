----------------------------- MODULE FootExit ------------------------------
(***************************************************************************)
(* foothread_create and foothread_exit (A7/foothread.c): the leader makes  *)
(* followers, joinable or detached, and joinable followers and the leader  *)
(* meet in foothread_exit.  The two semaphores, made by the first call,    *)
(* are there from the start: the leader's first call makes them before     *)
(* there is any other thread.                                              *)
(***************************************************************************)
EXTENDS Integers, FiniteSets

CONSTANTS
  Leader,
  Followers,   \* the threads the leader may create
  Joinable     \* those created with FOOTHREAD_JOINABLE

ASSUME ExitAssumption ==
  /\ IsFiniteSet(Followers)
  /\ Leader \notin Followers
  /\ Joinable \subseteq Followers

Callers == Followers \union {Leader}

VARIABLES
  mtx,              \* the semaphore mtx
  exit_sem,         \* the semaphore exit_sem
  num_threads,
  exited_threads,
  phase,            \* phase[t]: where thread t is
  child,            \* the follower the leader is creating
  posts             \* posts[t]: the counter i of the loop of foothread_exit

exitvars == <<mtx, exit_sem, num_threads, exited_threads, phase, child, posts>>

ExitInit ==
  /\ mtx = 1
  /\ exit_sem = 0
  /\ num_threads = 0
  /\ exited_threads = 0
  /\ phase = [t \in Callers |-> IF t = Leader THEN "work" ELSE "unborn"]
  /\ child = Leader
  /\ posts = [t \in Callers |-> 0]

Becomes(t, p) == phase' = [phase EXCEPT ![t] = p]

----------------------------------------------------------------------------
(* foothread_create, by the leader                                          *)

CreateLock(f) ==
  /\ phase[Leader] = "work"
  /\ phase[f] = "unborn"
  /\ mtx > 0
  /\ mtx' = mtx - 1
  /\ child' = f
  /\ Becomes(Leader, "create")
  /\ UNCHANGED <<exit_sem, num_threads, exited_threads, posts>>

CreateCount ==
  /\ phase[Leader] = "create"
  /\ num_threads' = num_threads + (IF child \in Joinable THEN 1 ELSE 0)
  /\ Becomes(Leader, "clone")
  /\ UNCHANGED <<mtx, exit_sem, exited_threads, child, posts>>

CreateClone ==
  /\ phase[Leader] = "clone"
  /\ phase' = [phase EXCEPT ![Leader] = "created", ![child] = "work"]
  /\ UNCHANGED <<mtx, exit_sem, num_threads, exited_threads, child, posts>>

CreateUnlock ==
  /\ phase[Leader] = "created"
  /\ mtx' = mtx + 1
  /\ Becomes(Leader, "work")
  /\ UNCHANGED <<exit_sem, num_threads, exited_threads, child, posts>>

----------------------------------------------------------------------------
(* foothread_exit                                                           *)

ExitLock(t) ==
  /\ phase[t] = "work"
  /\ mtx > 0
  /\ mtx' = mtx - 1
  /\ Becomes(t, "count")
  /\ UNCHANGED <<exit_sem, num_threads, exited_threads, child, posts>>

\* Wrong variant of ExitCount: the last but one counts as the last.
ExitCountEarly(t) ==
  /\ phase[t] = "count"
  /\ exited_threads' = exited_threads + 1
  /\ Becomes(t, IF exited_threads + 1 # num_threads - 1 THEN "unlock_wait" ELSE "unlock_post")
  /\ UNCHANGED <<mtx, exit_sem, num_threads, child, posts>>

ExitCount(t) ==
  /\ phase[t] = "count"
  /\ exited_threads' = exited_threads + 1
  /\ Becomes(t, IF exited_threads + 1 # num_threads THEN "unlock_wait" ELSE "unlock_post")
  /\ UNCHANGED <<mtx, exit_sem, num_threads, child, posts>>

ExitUnlock(t) ==
  /\ \/ phase[t] = "unlock_wait" /\ Becomes(t, "wait")
     \/ phase[t] = "unlock_post" /\ Becomes(t, "post")
  /\ mtx' = mtx + 1
  /\ UNCHANGED <<exit_sem, num_threads, exited_threads, child, posts>>

ExitWait(t) ==
  /\ phase[t] = "wait"
  /\ exit_sem > 0
  /\ exit_sem' = exit_sem - 1
  /\ Becomes(t, "out")
  /\ UNCHANGED <<mtx, num_threads, exited_threads, child, posts>>

\* The loop reads num_threads anew each time, without the lock.
ExitPost(t) ==
  /\ phase[t] = "post"
  /\ posts[t] < num_threads
  /\ exit_sem' = exit_sem + 1
  /\ posts' = [posts EXCEPT ![t] = @ + 1]
  /\ UNCHANGED <<mtx, num_threads, exited_threads, phase, child>>

\* Wrong variant of ExitPosted: no post for the thread that comes last.
ExitPostedEarly(t) ==
  /\ phase[t] = "post"
  /\ posts[t] >= num_threads - 1
  /\ Becomes(t, "out")
  /\ UNCHANGED <<mtx, exit_sem, num_threads, exited_threads, child, posts>>

ExitPosted(t) ==
  /\ phase[t] = "post"
  /\ posts[t] >= num_threads
  /\ Becomes(t, "out")
  /\ UNCHANGED <<mtx, exit_sem, num_threads, exited_threads, child, posts>>

\* A detached follower returns without meeting anybody.
Return(f) ==
  /\ f \notin Joinable
  /\ phase[f] = "work"
  /\ Becomes(f, "out")
  /\ UNCHANGED <<mtx, exit_sem, num_threads, exited_threads, child, posts>>

----------------------------------------------------------------------------
ExitStep(t) ==
  \/ ExitLock(t) \/ ExitCount(t) \/ ExitUnlock(t)
  \/ ExitWait(t) \/ ExitPost(t) \/ ExitPosted(t)

CreateStep == CreateCount \/ CreateClone \/ CreateUnlock

ExitNext ==
  \/ \E f \in Followers : CreateLock(f) \/ Return(f)
  \/ CreateStep
  \/ \E t \in Joinable \union {Leader} : ExitStep(t)

\* Linux runs every thread that can run, and joinable threads do call
\* foothread_exit; the leader creates as many followers as it likes.
ExitFairness ==
  /\ WF_exitvars(CreateStep)
  /\ \A t \in Joinable \union {Leader} : WF_exitvars(ExitStep(t))

ExitSpec == ExitInit /\ [][ExitNext]_exitvars /\ ExitFairness

----------------------------------------------------------------------------
Phases == {"unborn", "work", "create", "clone", "created", "count",
           "unlock_wait", "unlock_post", "wait", "post", "out"}

ExitTypeOK ==
  /\ mtx \in {0, 1}
  /\ exit_sem \in Nat
  /\ num_threads \in 0 .. Cardinality(Joinable)
  /\ exited_threads \in 0 .. Cardinality(Joinable) + 1
  /\ phase \in [Callers -> Phases]
  /\ child \in Callers
  /\ posts \in [Callers -> 0 .. Cardinality(Joinable)]

\* Those who meet in foothread_exit, those of them the count has, the joinable
\* followers there are, and those whom a token let out: to post is to be the
\* last, of one thread at least, so a thread that left without a post had waited.
Meeting    == Joinable \union {Leader}
CountedOut == {"unlock_wait", "unlock_post", "wait", "post", "out"}
Exited     == {t \in Meeting : phase[t] \in CountedOut}
Born       == {f \in Joinable : phase[f] # "unborn"}
TookToken  == {t \in Meeting : phase[t] = "out" /\ posts[t] = 0}
Waiting    == {t \in Meeting : phase[t] = "wait"}

Inside(t) == phase[t] \in {"create", "clone", "created", "count", "unlock_wait", "unlock_post"}

\* Where the threads are: mtx lets one of them in at a time, the leader creates,
\* a follower it is creating is not there yet, and a detached one never meets anybody.
PhasesOK ==
  /\ phase[Leader] # "unborn"
  /\ \A f \in Followers : /\ phase[f] \notin {"create", "clone", "created"}
                          /\ f \notin Joinable => phase[f] \in {"unborn", "work", "out"} /\ posts[f] = 0
  /\ phase[Leader] \in {"create", "clone"} => child \in Followers /\ phase[child] = "unborn"
  /\ \A t, u \in Callers : Inside(t) /\ Inside(u) => t = u
  /\ mtx = IF \E t \in Callers : Inside(t) THEN 0 ELSE 1

\* What the two counters count.
CountsOK ==
  /\ exited_threads = Cardinality(Exited)
  /\ num_threads = Cardinality(Born)
                     + (IF phase[Leader] = "clone" /\ child \in Joinable THEN 1 ELSE 0)

\* A thread posts if the count is reached, one token for each thread there is
\* by then, and no token is lost.
PostsOK ==
  /\ \A t \in Meeting : /\ posts[t] <= num_threads
                        /\ posts[t] > 0 => phase[t] \in {"post", "out"}
                        /\ phase[t] \in {"unlock_post", "post"} => num_threads > 0
                        /\ posts[t] <= exit_sem + Cardinality(TookToken)
  /\ num_threads > 0 /\ exited_threads >= num_threads =>
       \E t \in Meeting : \/ phase[t] \in {"unlock_post", "post"}
                          \/ phase[t] = "out" /\ posts[t] >= num_threads

(* The inductive invariant of creation and exit.                            *)
ExitInv == ExitTypeOK /\ PhasesOK /\ CountsOK /\ PostsOK

(* When all who are to meet in foothread_exit have come and none has a post *)
(* left to make, the semaphore has a token for each that waits, although    *)
(* the count may have been reached before the leader created the last       *)
(* thread, and again later (foothread.c:69-79).                             *)
EnoughTokens ==
  num_threads > 0 /\ (\A t \in Meeting : phase[t] \in {"unborn", "wait", "out"})
    => Cardinality(Waiting) <= exit_sem

(* Whatever the order in which threads are created and call foothread_exit, *)
(* a thread that waits in it gets out, if there is a joinable follower; in  *)
(* particular a count that was reached too early, while the leader was      *)
(* still creating threads, leaves nobody behind (foothread.c:69-79).        *)
WaitersGetOut ==
  \A t \in Callers : (phase[t] = "wait" /\ num_threads > 0) ~> (phase[t] = "out")

=============================================================================
