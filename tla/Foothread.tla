----------------------------- MODULE Foothread -----------------------------
(***************************************************************************)
(* The mutexes and barriers of the foothread library (A7/foothread.c),     *)
(* used by threads that may call any function at any time.  A mutex is a   *)
(* semaphore and the tid of the thread that locked it; a barrier is a      *)
(* mutex of its own, a counter and a semaphore, its gate.                  *)
(*                                                                         *)
(* A call is a sequence of steps, one per access to a semaphore or to a    *)
(* field another thread may use at that moment.  A thread inside P and a   *)
(* thread about to call P are the same state: the semaphore decides who    *)
(* of them goes on.                                                        *)
(***************************************************************************)
EXTENDS Integers, FiniteSets

CONSTANTS
  Threads,     \* the threads of the process
  Mutexes,     \* the mutexes of the program
  Barriers,    \* its barriers; the mutex inside barrier b is called b
  TripCount,   \* TripCount[b]: the count foothread_barrier_init was given
  None         \* the tid 0

ASSUME ThreadsAssumption == IsFiniteSet(Threads) /\ None \notin Threads
ASSUME NamesAssumption == Mutexes \intersect Barriers = {}
ASSUME TripAssumption == TripCount \in [Barriers -> Nat \ {0}]

AnyMutex == Mutexes \union Barriers

VARIABLES
  semval,   \* semval[m]: the value of the mutex's semaphore
  tid,      \* tid[m]: the field tid
  gate,     \* gate[b]: the value of the barrier's semaphore
  count,    \* count[b]: the field count
  gone,     \* the mutexes whose semaphore has been removed
  open,     \* the barriers whose semaphore has been removed
  at,       \* at[t]: where thread t is, "client" outside the library
  arg,      \* arg[t]: the mutex (or the barrier) of the call
  ret,      \* ret[t]: where foothread_mutex_unlock returns to
  left,     \* left[t]: the posts thread t has still to make
  holds     \* holds[t]: the mutexes t has been given by P and not yet posted

libvars == <<semval, tid, gate, count, gone, open, at, arg, ret, left, holds>>

Points == {"client", "lock", "own", "check", "getval", "post", "clear",
           "arrive", "release", "pass"}

Init ==
  /\ semval = [m \in AnyMutex |-> 1]
  /\ tid = [m \in AnyMutex |-> None]
  /\ gate = [b \in Barriers |-> 0]
  /\ count = [b \in Barriers |-> 0]
  /\ gone = {}
  /\ open = {}
  /\ at = [t \in Threads |-> "client"]
  /\ arg \in [Threads -> AnyMutex]
  /\ ret = [t \in Threads |-> "client"]
  /\ left = [t \in Threads |-> 0]
  /\ holds = [t \in Threads |-> {}]

Goto(t, point) == at' = [at EXCEPT ![t] = point]

----------------------------------------------------------------------------
(* foothread_mutex_lock                                                     *)

Lock(t, m) ==
  /\ at[t] = "client"
  /\ Goto(t, "lock")
  /\ arg' = [arg EXCEPT ![t] = m]
  /\ UNCHANGED <<semval, tid, gate, count, gone, open, ret, left, holds>>

\* P of a semaphore that was removed fails at once, and the result is ignored.
AcquireRemoved(t) ==
  /\ at[t] = "lock"
  /\ arg[t] \in gone
  /\ Goto(t, "own")
  /\ UNCHANGED <<semval, tid, gate, count, gone, open, arg, ret, left, holds>>

Acquire(t) ==
  /\ at[t] = "lock"
  /\ arg[t] \notin gone
  /\ semval[arg[t]] > 0
  /\ semval' = [semval EXCEPT ![arg[t]] = @ - 1]
  /\ holds' = [holds EXCEPT ![t] = @ \union {arg[t]}]
  /\ Goto(t, "own")
  /\ UNCHANGED <<tid, gate, count, gone, open, arg, ret, left>>

\* foothread_barrier_wait goes on to count; nobody else locks b's mutex.
SetOwner(t) ==
  /\ at[t] = "own"
  /\ tid' = [tid EXCEPT ![arg[t]] = t]
  /\ Goto(t, IF arg[t] \in Barriers THEN "arrive" ELSE "client")
  /\ UNCHANGED <<semval, gate, count, gone, open, arg, ret, left, holds>>

----------------------------------------------------------------------------
(* foothread_mutex_unlock: two checks that only print, then the post, and   *)
(* the tid cleared after it.                                                *)

Unlock(t, m) ==
  /\ at[t] = "client"
  /\ Goto(t, "check")
  /\ arg' = [arg EXCEPT ![t] = m]
  /\ ret' = [ret EXCEPT ![t] = "client"]
  /\ UNCHANGED <<semval, tid, gate, count, gone, open, left, holds>>

\* "Error: Mutex can only be unlocked by the same thread that locked it"
Refused(t) ==
  /\ at[t] = "check"
  /\ tid[arg[t]] # t
  /\ Goto(t, ret[t])
  /\ UNCHANGED <<semval, tid, gate, count, gone, open, arg, ret, left, holds>>

\* Wrong variant of CheckOwner: anybody may unlock.
CheckOwnerSkipped(t) ==
  /\ at[t] = "check"
  /\ Goto(t, "getval")
  /\ UNCHANGED <<semval, tid, gate, count, gone, open, arg, ret, left, holds>>

CheckOwner(t) ==
  /\ at[t] = "check"
  /\ tid[arg[t]] = t
  /\ Goto(t, "getval")
  /\ UNCHANGED <<semval, tid, gate, count, gone, open, arg, ret, left, holds>>

\* The second check, "Error: Mutex is already unlocked"; -1 is no 1.
CheckValue(t) ==
  /\ at[t] = "getval"
  /\ Goto(t, IF semval[arg[t]] = 1 /\ arg[t] \notin gone THEN ret[t] ELSE "post")
  /\ UNCHANGED <<semval, tid, gate, count, gone, open, arg, ret, left, holds>>

Post(t) ==
  /\ at[t] = "post"
  /\ IF arg[t] \in gone
       THEN UNCHANGED <<semval, holds>>
       ELSE /\ semval' = [semval EXCEPT ![arg[t]] = @ + 1]
            /\ holds' = [holds EXCEPT ![t] = @ \ {arg[t]}]
  /\ Goto(t, "clear")
  /\ UNCHANGED <<tid, gate, count, gone, open, arg, ret, left>>

\* Wrong variant of ClearOwner: the tid is left in the mutex.
ClearOwnerForgotten(t) ==
  /\ at[t] = "clear"
  /\ Goto(t, ret[t])
  /\ UNCHANGED <<semval, tid, gate, count, gone, open, arg, ret, left, holds>>

ClearOwner(t) ==
  /\ at[t] = "clear"
  /\ tid' = [tid EXCEPT ![arg[t]] = None]
  /\ Goto(t, ret[t])
  /\ UNCHANGED <<semval, gate, count, gone, open, arg, ret, left, holds>>

\* foothread_mutex_destroy
DestroyMutex(m) ==
  /\ m \notin gone
  /\ gone' = gone \union {m}
  /\ UNCHANGED <<semval, tid, gate, count, open, at, arg, ret, left, holds>>

----------------------------------------------------------------------------
(* foothread_barrier_wait                                                   *)

BarrierWait(t, b) == Lock(t, b)

IsLast(b) == count[b] + 1 = TripCount[b]

\* The thread that is not the last one unlocks and waits at the gate ...
Arrive(t) ==
  /\ at[t] = "arrive"
  /\ ~IsLast(arg[t])
  /\ count' = [count EXCEPT ![arg[t]] = @ + 1]
  /\ ret' = [ret EXCEPT ![t] = "pass"]
  /\ Goto(t, "check")
  /\ UNCHANGED <<semval, tid, gate, gone, open, arg, left, holds>>

\* ... the last one posts the gate once for each of the others ...
\* Wrong variant of ArriveLast: a post for the last thread too.
ArriveLastPostingAll(t) ==
  /\ at[t] = "arrive"
  /\ IsLast(arg[t])
  /\ count' = [count EXCEPT ![arg[t]] = @ + 1]
  /\ left' = [left EXCEPT ![t] = TripCount[arg[t]]]
  /\ Goto(t, "release")
  /\ UNCHANGED <<semval, tid, gate, gone, open, arg, ret, holds>>

ArriveLast(t) ==
  /\ at[t] = "arrive"
  /\ IsLast(arg[t])
  /\ count' = [count EXCEPT ![arg[t]] = @ + 1]
  /\ left' = [left EXCEPT ![t] = TripCount[arg[t]] - 1]
  /\ Goto(t, "release")
  /\ UNCHANGED <<semval, tid, gate, gone, open, arg, ret, holds>>

PostGate(t) ==
  /\ at[t] = "release"
  /\ left[t] > 0
  /\ left' = [left EXCEPT ![t] = @ - 1]
  /\ gate' = [gate EXCEPT ![arg[t]] = @ + (IF arg[t] \in open THEN 0 ELSE 1)]
  /\ UNCHANGED <<semval, tid, count, gone, open, at, arg, ret, holds>>

\* ... sets the counter to zero and unlocks.
ResetCount(t) ==
  /\ at[t] = "release"
  /\ left[t] = 0
  /\ count' = [count EXCEPT ![arg[t]] = 0]
  /\ ret' = [ret EXCEPT ![t] = "client"]
  /\ Goto(t, "check")
  /\ UNCHANGED <<semval, tid, gate, gone, open, arg, left, holds>>

PassGate(t) ==
  /\ at[t] = "pass"
  /\ \/ /\ arg[t] \in open
        /\ UNCHANGED gate
     \/ /\ arg[t] \notin open
        /\ gate[arg[t]] > 0
        /\ gate' = [gate EXCEPT ![arg[t]] = @ - 1]
  /\ Goto(t, "client")
  /\ UNCHANGED <<semval, tid, count, gone, open, arg, ret, left, holds>>

\* foothread_barrier_destroy removes the gate, not the semaphore of the mutex.
DestroyBarrier(b) ==
  /\ b \notin open
  /\ open' = open \union {b}
  /\ UNCHANGED <<semval, tid, gate, count, gone, at, arg, ret, left, holds>>

----------------------------------------------------------------------------
\* The steps a thread makes inside a call.
Continue(t) ==
  \/ Acquire(t) \/ AcquireRemoved(t) \/ SetOwner(t)
  \/ Refused(t) \/ CheckOwner(t) \/ CheckValue(t) \/ Post(t) \/ ClearOwner(t)
  \/ Arrive(t) \/ ArriveLast(t) \/ PostGate(t) \/ ResetCount(t) \/ PassGate(t)

Next ==
  \/ \E t \in Threads :
       \/ Continue(t)
       \/ \E m \in Mutexes : Lock(t, m) \/ Unlock(t, m)
       \/ \E b \in Barriers : BarrierWait(t, b)
  \/ \E m \in Mutexes : DestroyMutex(m)
  \/ \E b \in Barriers : DestroyBarrier(b)

Spec == Init /\ [][Next]_libvars

----------------------------------------------------------------------------
InUnlock(t) == at[t] \in {"check", "getval", "post", "clear"}

TypeOK ==
  /\ semval \in [AnyMutex -> Nat]
  /\ tid \in [AnyMutex -> Threads \union {None}]
  /\ gate \in [Barriers -> Nat]
  /\ count \in [Barriers -> Nat]
  /\ gone \subseteq Mutexes
  /\ open \subseteq Barriers
  /\ at \in [Threads -> Points]
  /\ arg \in [Threads -> AnyMutex]
  /\ ret \in [Threads -> {"client", "pass"}]
  /\ left \in [Threads -> Nat]
  /\ holds \in [Threads -> SUBSET AnyMutex]
  /\ \A t \in Threads :
       at[t] \in {"arrive", "release", "pass"} \/ (InUnlock(t) /\ ret[t] = "pass")
         => arg[t] \in Barriers

(* Two threads are never both between their P of a mutex and their post of  *)
(* it, whatever calls are made: an unlock by another thread is refused      *)
(* before it posts (foothread.c:94-101).                                    *)
MutualExclusion ==
  \A t, u \in Threads : \A m \in AnyMutex :
    m \in holds[t] /\ m \in holds[u] => t = u

(* The semaphore is 1 exactly while nobody holds the mutex and 0 otherwise, *)
(* so that GETVAL (foothread.c:98) tells whether it is locked.              *)
ValueTellsLocked ==
  \A m \in AnyMutex :
    semval[m] = IF \E t \in Threads : m \in holds[t] THEN 0 ELSE 1

(* A tid that is set names a thread that holds the mutex, or one that is    *)
(* just about to clear it; so the check of line 94 lets only a holder pass. *)
OwnerHolds ==
  \A m \in AnyMutex \ gone : \A t \in Threads :
    tid[m] = t => m \in holds[t] \/ (at[t] = "clear" /\ arg[t] = m)

(* Between P and post a thread holds what it locked: in particular the      *)
(* thread that counts in foothread_barrier_wait, or posts the gate, is      *)
(* alone with the barrier's fields (foothread.c:121-130).                   *)
InsideHolds ==
  \A t \in Threads :
    at[t] \in {"own", "getval", "post", "arrive", "release"} =>
      arg[t] \in holds[t] \union gone

\* The threads that have counted themselves at b and not passed its gate.
Owed(b) ==
  {t \in Threads :
     /\ arg[t] = b
     /\ at[t] = "pass" \/ (InUnlock(t) /\ ret[t] = "pass")}

Releasing(b) == {t \in Threads : at[t] = "release" /\ arg[t] = b}

Matched(b) ==
  /\ Releasing(b) = {} =>
       /\ Cardinality(Owed(b)) = gate[b] + count[b]
       /\ count[b] < TripCount[b]
  /\ \A t \in Releasing(b) :
       /\ Cardinality(Owed(b)) = gate[b] + left[t]
       /\ count[b] = TripCount[b]

(* Every thread that waits at a barrier is matched: by a token on the gate, *)
(* by one the last thread has still to post, or by its part in the count of *)
(* a round that is not complete (foothread.c:121-134).  So no round posts   *)
(* too little or too much, even when threads of the next round arrive       *)
(* before those of this one have passed.                                    *)
TokensMatch == \A b \in Barriers \ open : Matched(b)

MutexInv == TypeOK /\ MutualExclusion /\ ValueTellsLocked /\ OwnerHolds /\ InsideHolds

(* What a reader of the message of foothread.c:95 expects: the thread that  *)
(* holds a mutex can unlock it.  It is not so: the thread before it may     *)
(* clear its tid, after the post (foothread.c:103-104).                     *)
HolderMayUnlock ==
  [][\A t \in Threads : Refused(t) => arg[t] \notin holds[t] \ gone]_libvars

(* foothread_mutex_unlock never meets an unlocked mutex after its first     *)
(* check: the branch of line 99 is dead, a second unlock is refused by the  *)
(* first one.                                                               *)
NeverAlreadyUnlocked ==
  [][\A t \in Threads : at[t] = "getval" /\ at'[t] # "getval" => at'[t] = "post"]_libvars
=============================================================================
