-------------------------- MODULE FoothreadProofs --------------------------
(* Proofs about the foothread library: its mutexes and barriers, for any    *)
(* threads, mutexes, barriers and trip counts, and creation and exit, for   *)
(* any joinable and detached followers.                                     *)
EXTENDS Foothread, FootExit, FiniteSetTheorems, TLAPS

LEMMA InitMutexInv == Init => MutexInv
<1>. SUFFICES ASSUME Init PROVE MutexInv
  OBVIOUS
<1>. USE DEF Init, AnyMutex, Points, InUnlock
<1>1. TypeOK
  BY DEF TypeOK
<1>2. MutualExclusion
  BY DEF MutualExclusion
<1>3. ValueTellsLocked
  BY DEF ValueTellsLocked
<1>4. OwnerHolds
  BY ThreadsAssumption DEF OwnerHolds
<1>5. InsideHolds
  BY DEF InsideHolds
<1>. QED
  BY <1>1, <1>2, <1>3, <1>4, <1>5 DEF MutexInv

(* Each action keeps the types.                                             *)
LEMMA TypeStep == TypeOK /\ [Next]_libvars => TypeOK'
<1>. SUFFICES ASSUME TypeOK, [Next]_libvars PROVE TypeOK'
  OBVIOUS
<1>. USE NamesAssumption, TripAssumption DEF TypeOK, InUnlock, Points, AnyMutex, Goto
<1>1. ASSUME NEW t \in Threads, NEW m \in AnyMutex, Lock(t, m) PROVE TypeOK'
  BY <1>1 DEF Lock
<1>2. ASSUME NEW t \in Threads, NEW m \in Mutexes, Unlock(t, m) PROVE TypeOK'
  BY <1>2 DEF Unlock
<1>3. ASSUME NEW t \in Threads, Acquire(t) PROVE TypeOK'
  BY <1>3 DEF Acquire
<1>4. ASSUME NEW t \in Threads, AcquireRemoved(t) PROVE TypeOK'
  BY <1>4 DEF AcquireRemoved
<1>5. ASSUME NEW t \in Threads, SetOwner(t) PROVE TypeOK'
  BY <1>5 DEF SetOwner
<1>6. ASSUME NEW t \in Threads, Refused(t) \/ CheckOwner(t) \/ CheckValue(t) PROVE TypeOK'
  BY <1>6 DEF Refused, CheckOwner, CheckValue
<1>7. ASSUME NEW t \in Threads, Post(t) PROVE TypeOK'
  BY <1>7 DEF Post
<1>8. ASSUME NEW t \in Threads, ClearOwner(t) PROVE TypeOK'
  BY <1>8 DEF ClearOwner
<1>9. ASSUME NEW t \in Threads, Arrive(t) PROVE TypeOK'
  BY <1>9 DEF Arrive
<1>10. ASSUME NEW t \in Threads, ArriveLast(t) PROVE TypeOK'
  <2>1. arg[t] \in Barriers
    BY <1>10 DEF ArriveLast
  <2>2. TripCount[arg[t]] - 1 \in Nat
    BY <2>1, TripAssumption
  <2>. QED
    BY <1>10, <2>1, <2>2 DEF ArriveLast
<1>11. ASSUME NEW t \in Threads, PostGate(t) PROVE TypeOK'
  BY <1>11 DEF PostGate
<1>12. ASSUME NEW t \in Threads, ResetCount(t) PROVE TypeOK'
  BY <1>12 DEF ResetCount
<1>13. ASSUME NEW t \in Threads, PassGate(t) PROVE TypeOK'
  BY <1>13 DEF PassGate
<1>14. ASSUME NEW m \in Mutexes, DestroyMutex(m) PROVE TypeOK'
  BY <1>14 DEF DestroyMutex
<1>15. ASSUME NEW b \in Barriers, DestroyBarrier(b) PROVE TypeOK'
  BY <1>15 DEF DestroyBarrier
<1>16. CASE UNCHANGED libvars
  BY <1>16 DEF libvars
<1>. QED
  BY <1>1, <1>2, <1>3, <1>4, <1>5, <1>6, <1>7, <1>8, <1>9, <1>10, <1>11, <1>12, <1>13,
     <1>14, <1>15, <1>16 DEF Next, Continue, BarrierWait

(* The invariant of the mutexes, action by action: only Acquire, Post,      *)
(* SetOwner, ClearOwner and CheckOwner touch what its parts relate.         *)
LEMMA MutexStep == MutexInv /\ [Next]_libvars => MutexInv'
<1>. SUFFICES ASSUME MutexInv, [Next]_libvars PROVE MutexInv'
  OBVIOUS
<1>0. TypeOK /\ MutualExclusion /\ ValueTellsLocked /\ OwnerHolds /\ InsideHolds
  BY DEF MutexInv
<1>1. TypeOK'
  BY <1>0, TypeStep
<1>. DEFINE Rest == MutualExclusion /\ ValueTellsLocked /\ OwnerHolds /\ InsideHolds
<1>. USE <1>0 DEF TypeOK, AnyMutex, Goto, Points
<1>2. ASSUME NEW t \in Threads, NEW m \in AnyMutex, Lock(t, m) PROVE Rest'
  BY <1>2 DEF Lock, MutualExclusion, ValueTellsLocked, OwnerHolds, InsideHolds
<1>3. ASSUME NEW t \in Threads, NEW m \in Mutexes, Unlock(t, m) PROVE Rest'
  BY <1>3 DEF Unlock, MutualExclusion, ValueTellsLocked, OwnerHolds, InsideHolds
<1>4. ASSUME NEW t \in Threads, Acquire(t) PROVE Rest'
  <2>. USE <1>4 DEF Acquire
  <2>1. MutualExclusion'
    BY DEF MutualExclusion, ValueTellsLocked
  <2>2. ValueTellsLocked'
    BY DEF ValueTellsLocked
  <2>3. OwnerHolds'
    BY DEF OwnerHolds
  <2>4. InsideHolds'
    BY DEF InsideHolds
  <2>. QED
    BY <2>1, <2>2, <2>3, <2>4
<1>5. ASSUME NEW t \in Threads, AcquireRemoved(t) PROVE Rest'
  BY <1>5 DEF AcquireRemoved, MutualExclusion, ValueTellsLocked, OwnerHolds, InsideHolds
<1>6. ASSUME NEW t \in Threads, SetOwner(t) PROVE Rest'
  <2>. USE <1>6 DEF SetOwner
  <2>1. OwnerHolds'
    BY ThreadsAssumption DEF OwnerHolds, InsideHolds
  <2>2. InsideHolds'
    BY DEF InsideHolds
  <2>. QED
    BY <2>1, <2>2 DEF MutualExclusion, ValueTellsLocked
<1>7. ASSUME NEW t \in Threads, Refused(t) \/ CheckOwner(t) \/ CheckValue(t) PROVE Rest'
  <2>1. InsideHolds'
    BY <1>7 DEF Refused, CheckOwner, CheckValue, InsideHolds, OwnerHolds
  <2>. QED
    BY <1>7, <2>1 DEF Refused, CheckOwner, CheckValue, MutualExclusion, ValueTellsLocked, OwnerHolds
<1>8. ASSUME NEW t \in Threads, Post(t) PROVE Rest'
  <2>. USE <1>8 DEF Post
  <2>1. MutualExclusion'
    BY DEF MutualExclusion
  <2>2. ASSUME NEW m \in AnyMutex
        PROVE semval'[m] = IF \E u \in Threads : m \in holds'[u] THEN 0 ELSE 1
    <3>1. CASE arg[t] \in gone
      BY <3>1 DEF ValueTellsLocked
    <3>2. CASE arg[t] \notin gone /\ m = arg[t]
      BY <3>2 DEF ValueTellsLocked, MutualExclusion, InsideHolds
    <3>3. CASE arg[t] \notin gone /\ m # arg[t]
      BY <3>3 DEF ValueTellsLocked
    <3>. QED
      BY <3>1, <3>2, <3>3
  <2>3. OwnerHolds'
    BY DEF OwnerHolds, InsideHolds
  <2>4. InsideHolds'
    BY DEF InsideHolds, MutualExclusion
  <2>. QED
    BY <2>1, <2>2, <2>3, <2>4 DEF ValueTellsLocked
<1>9. ASSUME NEW t \in Threads, ClearOwner(t) PROVE Rest'
  <2>. USE <1>9 DEF ClearOwner
  <2>1. OwnerHolds'
    BY ThreadsAssumption DEF OwnerHolds
  <2>2. InsideHolds'
    BY DEF InsideHolds
  <2>. QED
    BY <2>1, <2>2 DEF MutualExclusion, ValueTellsLocked
<1>10. ASSUME NEW t \in Threads, Arrive(t) \/ ArriveLast(t) PROVE Rest'
  BY <1>10 DEF Arrive, ArriveLast, MutualExclusion, ValueTellsLocked, OwnerHolds, InsideHolds
<1>11. ASSUME NEW t \in Threads, PostGate(t) \/ ResetCount(t) \/ PassGate(t) PROVE Rest'
  BY <1>11 DEF PostGate, ResetCount, PassGate, MutualExclusion, ValueTellsLocked, OwnerHolds, InsideHolds
<1>12. ASSUME NEW m \in Mutexes, DestroyMutex(m) PROVE Rest'
  BY <1>12 DEF DestroyMutex, MutualExclusion, ValueTellsLocked, OwnerHolds, InsideHolds
<1>13. ASSUME NEW b \in Barriers, DestroyBarrier(b) PROVE Rest'
  BY <1>13 DEF DestroyBarrier, MutualExclusion, ValueTellsLocked, OwnerHolds, InsideHolds
<1>14. ASSUME UNCHANGED libvars PROVE Rest'
  <2>. USE <1>14 DEF libvars
  <2>1. MutualExclusion' /\ ValueTellsLocked'
    BY DEF MutualExclusion, ValueTellsLocked
  <2>2. OwnerHolds' /\ InsideHolds'
    BY DEF OwnerHolds, InsideHolds
  <2>. QED
    BY <2>1, <2>2
<1>. HIDE <1>0 DEF Rest, TypeOK, AnyMutex, Goto, Points
<1>15. Barriers \subseteq AnyMutex /\ Mutexes \subseteq AnyMutex
  BY DEF AnyMutex
<1>16. Rest'
  BY <1>2, <1>3, <1>4, <1>5, <1>6, <1>7, <1>8, <1>9, <1>10, <1>11, <1>12, <1>13, <1>14, <1>15
  DEF Next, Continue, BarrierWait
<1>. QED
  BY <1>1, <1>16 DEF MutexInv, Rest

(* The inductive invariant of the mutexes holds for any calls of any        *)
(* threads.                                                                 *)
THEOREM MutexInvariance == Spec => []MutexInv
<1>. QED
  BY InitMutexInv, MutexStep, PTL DEF Spec

(* Two threads never hold the same mutex.                                   *)
THEOREM MutualExclusionAlways == Spec => []MutualExclusion
<1>1. MutexInv => MutualExclusion
  BY DEF MutexInv
<1>. QED
  BY <1>1, MutexInvariance, PTL

(* The second check of foothread_mutex_unlock never fires.                  *)
THEOREM NeverAlreadyUnlockedAlways == Spec => NeverAlreadyUnlocked
<1>1. MutexInv /\ [Next]_libvars =>
        [\A t \in Threads : at[t] = "getval" /\ at'[t] # "getval" => at'[t] = "post"]_libvars
  <2>. SUFFICES ASSUME MutexInv, Next, NEW t \in Threads, at[t] = "getval", at'[t] # "getval"
                PROVE at'[t] = "post"
    OBVIOUS
  <2>0. TypeOK /\ ValueTellsLocked /\ InsideHolds
    BY DEF MutexInv
  <2>1. CheckValue(t)
    BY <2>0 DEF Next, Continue, BarrierWait, Lock, Unlock, Acquire, AcquireRemoved, SetOwner,
       Refused, CheckOwner, CheckValue, Post, ClearOwner, Arrive, ArriveLast, PostGate,
       ResetCount, PassGate, DestroyMutex, DestroyBarrier, Goto, TypeOK
  <2>2. semval[arg[t]] = 1 => arg[t] \in gone
    BY <2>0 DEF TypeOK, ValueTellsLocked, InsideHolds
  <2>. QED
    BY <2>0, <2>1, <2>2 DEF CheckValue, Goto, TypeOK
<1>. QED
  BY <1>1, MutexInvariance, PTL DEF Spec, NeverAlreadyUnlocked

(* At most one thread is between lock and unlock of a barrier's mutex.      *)
LEMMA AloneAtBarrier ==
  ASSUME MutexInv, NEW b \in Barriers, NEW t \in Threads, NEW u \in Threads,
         at[t] \in {"arrive", "release"}, arg[t] = b,
         at[u] \in {"arrive", "release"}, arg[u] = b
  PROVE  t = u
<1>1. TypeOK /\ InsideHolds /\ MutualExclusion
  BY DEF MutexInv
<1>2. b \notin gone /\ b \in AnyMutex
  BY <1>1, NamesAssumption DEF TypeOK, AnyMutex
<1>3. b \in holds[t] /\ b \in holds[u]
  BY <1>1, <1>2 DEF InsideHolds
<1>. QED
  BY <1>1, <1>2, <1>3 DEF MutualExclusion

LEMMA OwedFinite == ASSUME NEW b PROVE IsFiniteSet(Owed(b)) /\ Cardinality(Owed(b)) \in Nat
  BY ThreadsAssumption, FS_Subset, FS_CardinalityType DEF Owed

(* A step of a thread at barrier b, or of any other, keeps b's threads and  *)
(* tokens matched.                                                          *)
LEMMA MatchedStep ==
  ASSUME MutexInv, [Next]_libvars, NEW b \in Barriers, b \notin open', Matched(b)
  PROVE  Matched(b)'
<1>0. TypeOK /\ b \notin gone /\ b \in AnyMutex
  BY NamesAssumption DEF MutexInv, TypeOK, AnyMutex
<1>1. IsFiniteSet(Owed(b)) /\ Cardinality(Owed(b)) \in Nat
  BY OwedFinite
<1>2. gate[b] \in Nat /\ count[b] \in Nat /\ TripCount[b] \in Nat \ {0}
  BY <1>0, TripAssumption DEF TypeOK
<1>3. ASSUME Owed(b)' = Owed(b), Releasing(b)' = Releasing(b), gate'[b] = gate[b],
             count'[b] = count[b], \A t \in Releasing(b) : left'[t] = left[t]
      PROVE  Matched(b)'
  BY <1>3 DEF Matched
<1>4. ASSUME NEW t \in Threads, Arrive(t), arg[t] = b PROVE Matched(b)'
  <2>1. Owed(b)' = Owed(b) \union {t} /\ t \notin Owed(b)
    BY <1>0, <1>4 DEF Arrive, Owed, InUnlock, TypeOK, Goto
  <2>2. Releasing(b) = {} /\ Releasing(b)' = {}
    BY <1>0, <1>4, AloneAtBarrier DEF Arrive, Releasing, TypeOK, Goto
  <2>3. Cardinality(Owed(b)') = Cardinality(Owed(b)) + 1
    BY <2>1, <1>1, FS_AddElement
  <2>4. gate' = gate /\ count'[b] = count[b] + 1 /\ count[b] + 1 # TripCount[b]
    BY <1>0, <1>4 DEF Arrive, IsLast, TypeOK
  <2>. QED
    BY <1>1, <1>2, <2>2, <2>3, <2>4 DEF Matched
<1>5. ASSUME NEW t \in Threads, ArriveLast(t), arg[t] = b PROVE Matched(b)'
  <2>1. Owed(b)' = Owed(b)
    BY <1>0, <1>5 DEF ArriveLast, Owed, InUnlock, TypeOK, Goto
  <2>2. Releasing(b) = {} /\ Releasing(b)' = {t}
    BY <1>0, <1>5, AloneAtBarrier DEF ArriveLast, Releasing, TypeOK, Goto
  <2>3. gate' = gate /\ count'[b] = count[b] + 1 /\ count[b] + 1 = TripCount[b]
        /\ left'[t] = TripCount[b] - 1
    BY <1>0, <1>5 DEF ArriveLast, IsLast, TypeOK
  <2>. QED
    BY <1>1, <1>2, <2>1, <2>2, <2>3 DEF Matched
<1>6. ASSUME NEW t \in Threads, PostGate(t), arg[t] = b PROVE Matched(b)'
  <2>1. Owed(b)' = Owed(b)
    BY <1>6 DEF PostGate, Owed, InUnlock
  <2>2. Releasing(b) = {t} /\ Releasing(b)' = {t}
    BY <1>6, AloneAtBarrier DEF PostGate, Releasing
  <2>3. gate'[b] = gate[b] + 1 /\ count' = count /\ left'[t] = left[t] - 1 /\ left[t] \in Nat
    BY <1>0, <1>6 DEF PostGate, TypeOK
  <2>. QED
    BY <1>1, <1>2, <2>1, <2>2, <2>3 DEF Matched
<1>7. ASSUME NEW t \in Threads, ResetCount(t), arg[t] = b PROVE Matched(b)'
  <2>1. Owed(b)' = Owed(b)
    BY <1>0, <1>7 DEF ResetCount, Owed, InUnlock, TypeOK, Goto
  <2>2. Releasing(b) = {t} /\ Releasing(b)' = {}
    BY <1>0, <1>7, AloneAtBarrier DEF ResetCount, Releasing, TypeOK, Goto
  <2>3. gate' = gate /\ count'[b] = 0 /\ left[t] = 0
    BY <1>0, <1>7 DEF ResetCount, TypeOK
  <2>. QED
    BY <1>1, <1>2, <2>1, <2>2, <2>3 DEF Matched
<1>8. ASSUME NEW t \in Threads, PassGate(t), arg[t] = b PROVE Matched(b)'
  <2>1. Owed(b)' = Owed(b) \ {t} /\ t \in Owed(b)
    BY <1>0, <1>8 DEF PassGate, Owed, InUnlock, TypeOK, Goto
  <2>2. Releasing(b)' = Releasing(b) /\ left' = left
    BY <1>0, <1>8 DEF PassGate, Releasing, TypeOK, Goto
  <2>3. Cardinality(Owed(b)') = Cardinality(Owed(b)) - 1
    BY <2>1, <1>1, FS_RemoveElement
  <2>4. gate'[b] = gate[b] - 1 /\ count' = count
    BY <1>0, <1>8 DEF PassGate, TypeOK
  <2>5. \A u \in Releasing(b) : left[u] \in Nat
    BY <1>0 DEF Releasing, TypeOK
  <2>. QED
    BY <1>1, <1>2, <2>2, <2>3, <2>4, <2>5 DEF Matched
<1>. DEFINE Barred(t) == Arrive(t) \/ ArriveLast(t) \/ PostGate(t) \/ ResetCount(t) \/ PassGate(t)
<1>9. ASSUME NEW t \in Threads, Barred(t), arg[t] # b PROVE Matched(b)'
  <2>. USE <1>0, <1>9 DEF TypeOK, Goto, InUnlock
  <2>1. Owed(b)' = Owed(b) /\ Releasing(b)' = Releasing(b)
    BY DEF Owed, Releasing, Arrive, ArriveLast, PostGate, ResetCount, PassGate
  <2>2. gate'[b] = gate[b] /\ count'[b] = count[b]
    BY DEF Arrive, ArriveLast, PostGate, ResetCount, PassGate
  <2>3. \A u \in Releasing(b) : left'[u] = left[u]
    BY DEF Releasing, Arrive, ArriveLast, PostGate, ResetCount, PassGate
  <2>. QED
    BY <1>3, <2>1, <2>2, <2>3
<1>. DEFINE Mutexed(t) ==
       \/ Acquire(t) \/ AcquireRemoved(t) \/ SetOwner(t) \/ Refused(t)
       \/ CheckOwner(t) \/ CheckValue(t) \/ Post(t) \/ ClearOwner(t)
       \/ \E m \in AnyMutex : Lock(t, m)
       \/ \E m \in Mutexes : Unlock(t, m)
<1>10. ASSUME NEW t \in Threads, Mutexed(t) PROVE Matched(b)'
  <2>1. Owed(b)' = Owed(b) /\ Releasing(b)' = Releasing(b)
    <3>. USE <1>0 DEF TypeOK, Goto, InUnlock, Owed, Releasing, Points
    <3>1. CASE Acquire(t) \/ AcquireRemoved(t) \/ SetOwner(t)
      BY <3>1 DEF Acquire, AcquireRemoved, SetOwner
    <3>2. CASE Refused(t) \/ CheckOwner(t) \/ CheckValue(t)
      BY <3>2 DEF Refused, CheckOwner, CheckValue
    <3>3. CASE Post(t) \/ ClearOwner(t)
      BY <3>3 DEF Post, ClearOwner
    <3>4. CASE \E m \in AnyMutex : Lock(t, m)
      BY <3>4 DEF Lock
    <3>5. CASE \E m \in Mutexes : Unlock(t, m)
      BY <3>5 DEF Unlock
    <3>. QED
      BY <1>10, <3>1, <3>2, <3>3, <3>4, <3>5
  <2>2. gate' = gate /\ count' = count /\ left' = left
    BY <1>10 DEF Acquire, AcquireRemoved, SetOwner, Refused, CheckOwner, CheckValue, Post,
       ClearOwner, Lock, Unlock
  <2>. QED
    BY <1>3, <2>1, <2>2
<1>11. ASSUME \/ \E m \in Mutexes : DestroyMutex(m)
              \/ \E c \in Barriers : DestroyBarrier(c)
              \/ UNCHANGED libvars
       PROVE  Matched(b)'
  BY <1>3, <1>11 DEF DestroyMutex, DestroyBarrier, libvars, Owed, Releasing, InUnlock
<1>12. Mutexes \subseteq AnyMutex /\ Barriers \subseteq AnyMutex
  BY DEF AnyMutex
<1>. QED
  BY <1>4, <1>5, <1>6, <1>7, <1>8, <1>9, <1>10, <1>11, <1>12 DEF Next, Continue, BarrierWait

(* At every barrier, of any threads and counts, the threads that wait are   *)
(* matched by tokens and counts, in every round.                            *)
THEOREM TokensMatchAlways == Spec => []TokensMatch
<1>1. Init => TokensMatch
  <2>. SUFFICES ASSUME Init, NEW b \in Barriers PROVE Matched(b)
    BY DEF TokensMatch
  <2>1. Owed(b) = {} /\ Releasing(b) = {}
    BY DEF Init, Owed, Releasing, InUnlock
  <2>2. Cardinality({}) = 0
    BY FS_EmptySet
  <2>3. gate[b] = 0 /\ count[b] = 0 /\ TripCount[b] > 0
    BY TripAssumption DEF Init
  <2>. QED
    BY <2>1, <2>2, <2>3 DEF Matched
<1>2. TokensMatch /\ MutexInv /\ [Next]_libvars => TokensMatch'
  <2>. SUFFICES ASSUME TokensMatch, MutexInv, [Next]_libvars,
                       NEW b \in Barriers, b \notin open'
                PROVE  Matched(b)'
    BY DEF TokensMatch
  <2>1. b \notin open
    BY DEF Next, Continue, BarrierWait, Lock, Unlock, Acquire, AcquireRemoved, SetOwner,
       Refused, CheckOwner, CheckValue, Post, ClearOwner, Arrive, ArriveLast, PostGate,
       ResetCount, PassGate, DestroyMutex, DestroyBarrier, libvars
  <2>. QED
    BY <2>1, MatchedStep DEF TokensMatch
<1>. QED
  BY <1>1, <1>2, MutexInvariance, PTL DEF Spec
----------------------------------------------------------------------------
(* foothread_create and foothread_exit                                      *)

(* Sets of threads are finite, and so are the joinable ones in particular.  *)
LEMMA MeetingFacts ==
  /\ Callers = Followers \union {Leader} /\ Joinable \subseteq Followers /\ Leader \notin Followers
  /\ Meeting = Joinable \union {Leader} /\ Meeting \subseteq Callers
  /\ IsFiniteSet(Meeting) /\ Cardinality(Meeting) = Cardinality(Joinable) + 1
  /\ IsFiniteSet(Joinable) /\ Cardinality(Joinable) \in Nat
  /\ \A S \in SUBSET Meeting : /\ IsFiniteSet(S) /\ Cardinality(S) \in Nat
                               /\ Cardinality(S) <= Cardinality(Joinable) + 1
<1>1. IsFiniteSet(Joinable) /\ Joinable \subseteq Followers /\ Leader \notin Followers
  BY ExitAssumption, FS_Subset
<1>2. IsFiniteSet(Meeting) /\ Cardinality(Meeting) = Cardinality(Joinable) + 1
  BY <1>1, FS_AddElement DEF Meeting
<1>. QED
  BY <1>1, <1>2, FS_Subset, FS_CardinalityType DEF Callers, Meeting

(* The sets that the counters count.                                        *)
LEMMA CountedSets ==
  /\ Exited \subseteq Meeting /\ Born \subseteq Joinable
  /\ TookToken \subseteq Meeting /\ Waiting \subseteq Meeting
  /\ \A S \in {Exited, Born, TookToken, Waiting} : IsFiniteSet(S) /\ Cardinality(S) \in Nat
  /\ Cardinality(Exited) <= Cardinality(Joinable) + 1
  /\ Cardinality(Born) <= Cardinality(Joinable)
<1>1. Exited \subseteq Meeting /\ Born \subseteq Joinable
      /\ TookToken \subseteq Meeting /\ Waiting \subseteq Meeting
  BY DEF Exited, Born, TookToken, Waiting
<1>. QED
  BY <1>1, MeetingFacts, FS_Subset, FS_CardinalityType

(* The invariant holds at the start: the leader alone is there.             *)
LEMMA InitExit == ExitInit => ExitInv
<1>. SUFFICES ASSUME ExitInit PROVE ExitInv
  OBVIOUS
<1>. USE MeetingFacts DEF ExitInit
<1>1. Exited = {} /\ Born = {} /\ Cardinality({}) = 0
  BY FS_EmptySet DEF Exited, Born, CountedOut
<1>2. ExitTypeOK
  BY DEF ExitTypeOK, Phases
<1>3. PhasesOK
  BY DEF PhasesOK, Inside
<1>4. CountsOK
  BY <1>1 DEF CountsOK
<1>5. PostsOK
  BY CountedSets DEF PostsOK
<1>. QED
  BY <1>2, <1>3, <1>4, <1>5 DEF ExitInv

(* Types without the bounds that rest on the counting.                      *)
ExitTypes ==
  /\ mtx \in Nat /\ exit_sem \in Nat /\ num_threads \in Nat /\ exited_threads \in Nat
  /\ phase \in [Callers -> Phases] /\ child \in Callers /\ posts \in [Callers -> Nat]

(* Each action keeps those types,                                           *)
LEMMA ExitTypesStep == ExitTypes /\ [ExitNext]_exitvars => ExitTypes'
<1>. SUFFICES ASSUME ExitTypes, [ExitNext]_exitvars PROVE ExitTypes'
  OBVIOUS
<1>. USE MeetingFacts DEF ExitTypes, Becomes, Phases
<1>1. ASSUME NEW f \in Followers, CreateLock(f) \/ Return(f) PROVE ExitTypes'
  BY <1>1 DEF CreateLock, Return
<1>2. ASSUME CreateStep PROVE ExitTypes'
  BY <1>2 DEF CreateStep, CreateCount, CreateClone, CreateUnlock
<1>3. ASSUME NEW t \in Meeting, ExitStep(t) PROVE ExitTypes'
  <2>1. CASE ExitLock(t) \/ ExitUnlock(t)
    BY <2>1 DEF ExitLock, ExitUnlock
  <2>2. CASE ExitCount(t) \/ ExitWait(t)
    BY <2>2 DEF ExitCount, ExitWait
  <2>3. CASE ExitPost(t) \/ ExitPosted(t)
    BY <2>3 DEF ExitPost, ExitPosted
  <2>. QED
    BY <1>3, <2>1, <2>2, <2>3 DEF ExitStep
<1>4. CASE UNCHANGED exitvars
  BY <1>4 DEF exitvars
<1>. HIDE DEF ExitTypes, Becomes, Phases
<1>. QED
  BY <1>1, <1>2, <1>3, <1>4 DEF ExitNext, Meeting

(* and mtx keeps out all but one.                                           *)
LEMMA ExitPhasesStep == ExitTypes /\ PhasesOK /\ [ExitNext]_exitvars => PhasesOK'
<1>. SUFFICES ASSUME ExitTypes, PhasesOK, [ExitNext]_exitvars PROVE PhasesOK'
  OBVIOUS
<1>. USE MeetingFacts DEF ExitTypes, Becomes, Inside, PhasesOK
<1>1. ASSUME NEW f \in Followers, CreateLock(f) PROVE PhasesOK'
  BY <1>1 DEF CreateLock
<1>2. ASSUME NEW f \in Followers, Return(f) PROVE PhasesOK'
  BY <1>2 DEF Return
<1>3. ASSUME CreateCount PROVE PhasesOK'
  BY <1>3 DEF CreateCount
<1>4. ASSUME CreateClone PROVE PhasesOK'
  BY <1>4 DEF CreateClone
<1>5. ASSUME CreateUnlock PROVE PhasesOK'
  BY <1>5 DEF CreateUnlock
<1>6. ASSUME NEW t \in Meeting, ExitStep(t) PROVE PhasesOK'
  <2>1. CASE ExitLock(t)
    BY <2>1 DEF ExitLock
  <2>2. CASE ExitCount(t)
    BY <2>2 DEF ExitCount
  <2>3. CASE ExitUnlock(t)
    BY <2>3 DEF ExitUnlock
  <2>4. CASE ExitWait(t)
    BY <2>4 DEF ExitWait
  <2>5. CASE ExitPost(t)
    BY <2>5 DEF ExitPost
  <2>6. CASE ExitPosted(t)
    BY <2>6 DEF ExitPosted
  <2>. QED
    BY <1>6, <2>1, <2>2, <2>3, <2>4, <2>5, <2>6 DEF ExitStep
<1>7. CASE UNCHANGED exitvars
  BY <1>7 DEF exitvars
<1>. HIDE DEF ExitTypes, Becomes, Inside, PhasesOK
<1>. QED
  BY <1>1, <1>2, <1>3, <1>4, <1>5, <1>6, <1>7 DEF ExitNext, CreateStep, Meeting

(* What a step does to the sets the counters count.                         *)
LEMMA SetsMove ==
  ASSUME ExitTypes, PhasesOK, [ExitNext]_exitvars
  PROVE  /\ \/ Exited' = Exited /\ exited_threads' = exited_threads
            \/ \E t \in Meeting : /\ ExitCount(t) /\ t \notin Exited
                                  /\ Exited' = Exited \union {t}
                                  /\ exited_threads' = exited_threads + 1
         /\ \/ Born' = Born
            \/ CreateClone /\ child \in Joinable /\ child \notin Born
               /\ Born' = Born \union {child}
<1>. DEFINE Same == Exited' = Exited /\ exited_threads' = exited_threads /\ Born' = Born
<1>. USE MeetingFacts DEF ExitTypes, Becomes, Exited, Born, CountedOut
<1>1. ASSUME NEW f \in Followers, CreateLock(f) PROVE Same
  BY <1>1 DEF CreateLock, PhasesOK
<1>2. ASSUME NEW f \in Followers, Return(f) PROVE Same
  BY <1>2 DEF Return, PhasesOK
<1>3. ASSUME CreateCount \/ CreateUnlock PROVE Same
  BY <1>3 DEF CreateCount, CreateUnlock, PhasesOK
<1>4. ASSUME CreateClone
      PROVE  /\ Exited' = Exited /\ exited_threads' = exited_threads
             /\ \/ Born' = Born
                \/ child \in Joinable /\ child \notin Born /\ Born' = Born \union {child}
  BY <1>4 DEF CreateClone, PhasesOK
<1>5. ASSUME NEW t \in Meeting, ExitCount(t)
      PROVE  /\ t \notin Exited /\ Exited' = Exited \union {t}
             /\ exited_threads' = exited_threads + 1 /\ Born' = Born
  BY <1>5 DEF ExitCount
<1>6. ASSUME NEW t \in Meeting, ExitStep(t), ~ ExitCount(t) PROVE Same
  <2>1. CASE ExitLock(t) \/ ExitUnlock(t)
    BY <2>1 DEF ExitLock, ExitUnlock
  <2>2. CASE ExitWait(t) \/ ExitPost(t) \/ ExitPosted(t)
    BY <2>2 DEF ExitWait, ExitPost, ExitPosted
  <2>. QED
    BY <1>6, <2>1, <2>2 DEF ExitStep
<1>7. CASE UNCHANGED exitvars
  BY <1>7 DEF exitvars
<1>. HIDE DEF ExitTypes, Becomes, Exited, Born, CountedOut
<1>. QED
  BY <1>1, <1>2, <1>3, <1>4, <1>5, <1>6, <1>7 DEF ExitNext, CreateStep, Meeting

(* The leader's step from one phase to another, and the number of threads.  *)
LEMMA CountMoves ==
  ASSUME ExitTypes, PhasesOK, [ExitNext]_exitvars
  PROVE  \/ CreateCount
         \/ CreateClone
         \/ /\ num_threads' = num_threads
            /\ phase[Leader] # "clone" /\ phase'[Leader] # "clone"
         \/ /\ num_threads' = num_threads /\ phase'[Leader] = phase[Leader] /\ child' = child
<1>. DEFINE Still == num_threads' = num_threads
                     /\ (\/ phase[Leader] # "clone" /\ phase'[Leader] # "clone"
                         \/ phase'[Leader] = phase[Leader] /\ child' = child)
<1>. USE MeetingFacts DEF ExitTypes, Becomes
<1>1. ASSUME NEW f \in Followers, CreateLock(f) \/ Return(f) PROVE Still
  BY <1>1 DEF CreateLock, Return
<1>2. ASSUME CreateUnlock PROVE Still
  BY <1>2 DEF CreateUnlock
<1>3. ASSUME NEW t \in Meeting, ExitStep(t) PROVE Still
  <2>1. CASE ExitLock(t) \/ ExitCount(t)
    BY <2>1 DEF ExitLock, ExitCount
  <2>2. CASE ExitUnlock(t) \/ ExitWait(t)
    BY <2>2 DEF ExitUnlock, ExitWait
  <2>3. CASE ExitPost(t) \/ ExitPosted(t)
    BY <2>3 DEF ExitPost, ExitPosted
  <2>. QED
    BY <1>3, <2>1, <2>2, <2>3 DEF ExitStep
<1>4. CASE UNCHANGED exitvars
  BY <1>4 DEF exitvars
<1>. HIDE DEF ExitTypes, Becomes
<1>. QED
  BY <1>1, <1>2, <1>3, <1>4 DEF ExitNext, CreateStep, Meeting

(* The counters stay exact: a thread is counted before it is made, and under *)
(* mtx no exit is counted in between.                                       *)
LEMMA ExitCountsStep == ExitTypes /\ PhasesOK /\ CountsOK /\ [ExitNext]_exitvars => CountsOK'
<1>. SUFFICES ASSUME ExitTypes, PhasesOK, CountsOK, [ExitNext]_exitvars PROVE CountsOK'
  OBVIOUS
<1>1. exited_threads' = Cardinality(Exited')
  <2>1. CASE Exited' = Exited /\ exited_threads' = exited_threads
    BY <2>1 DEF CountsOK
  <2>2. ASSUME NEW t \in Meeting, t \notin Exited, Exited' = Exited \union {t},
               exited_threads' = exited_threads + 1
        PROVE  exited_threads' = Cardinality(Exited')
    BY <2>2, CountedSets, FS_AddElement DEF CountsOK
  <2>. QED
    BY <2>1, <2>2, SetsMove
<1>. DEFINE Extra == IF phase[Leader] = "clone" /\ child \in Joinable THEN 1 ELSE 0
<1>2. Cardinality(Born) \in Nat /\ num_threads = Cardinality(Born) + Extra
  BY CountedSets DEF CountsOK
<1>3. CASE CreateCount
  <2>1. /\ phase[Leader] = "create" /\ phase'[Leader] = "clone" /\ child' = child
        /\ num_threads' = num_threads + (IF child \in Joinable THEN 1 ELSE 0)
    BY <1>3, MeetingFacts DEF CreateCount, ExitTypes, Becomes
  <2>2. Born' = Born
    BY <2>1, SetsMove DEF CreateClone
  <2>. QED
    BY <1>1, <1>2, <2>1, <2>2 DEF CountsOK
<1>4. CASE CreateClone
  <2>1. /\ phase[Leader] = "clone" /\ phase'[Leader] = "created" /\ num_threads' = num_threads
        /\ child \in Followers /\ phase[child] = "unborn" /\ phase'[child] = "work"
    BY <1>4, MeetingFacts DEF CreateClone, ExitTypes, PhasesOK
  <2>2. CASE child \in Joinable
    <3>1. child \in Born' /\ child \notin Born
      BY <2>1, <2>2 DEF Born
    <3>2. Born' = Born \union {child}
      BY <3>1, SetsMove
    <3>. QED
      <4>1. IsFiniteSet(Born) /\ Cardinality(Born') = Cardinality(Born) + 1
        BY <3>1, <3>2, CountedSets, FS_AddElement
      <4>. QED
        BY <1>1, <1>2, <2>1, <2>2, <4>1 DEF CountsOK
  <2>3. CASE child \notin Joinable
    <3>1. Born' = Born
      BY <2>3, SetsMove
    <3>. QED
      BY <1>1, <1>2, <2>1, <2>3, <3>1 DEF CountsOK
  <2>. QED
    BY <2>2, <2>3
<1>5. CASE ~ CreateClone /\ ~ CreateCount
  <2>1. Born' = Born
    BY <1>5, SetsMove
  <2>. QED
    BY <1>1, <1>2, <1>5, <2>1, CountMoves DEF CountsOK
<1>. QED
  BY <1>3, <1>4, <1>5

(* A thread is counted out only after it was born, so while the leader is   *)
(* making a thread the count is behind.                                     *)
LEMMA CountBehind ==
  ASSUME PhasesOK, CountsOK, phase[Leader] = "create"
  PROVE  exited_threads <= num_threads
<1>1. Exited \subseteq Born
  BY DEF Exited, Born, CountedOut, Meeting
<1>. QED
  BY <1>1, CountedSets, FS_Subset DEF CountsOK

(* Who has taken a token: a step of foothread_exit adds the thread that     *)
(* waited, and no step takes one away.                                      *)
LEMMA TookMoves ==
  ASSUME ExitTypes, PhasesOK, PostsOK, [ExitNext]_exitvars
  PROVE  \/ TookToken' = TookToken
         \/ \E t \in Meeting : ExitWait(t) /\ t \notin TookToken /\ TookToken' = TookToken \union {t}
<1>0. ASSUME NEW t \in Meeting
      PROVE  (ExitWait(t) => posts[t] = 0) /\ (ExitPosted(t) => posts[t] > 0)
  <2>1. /\ posts[t] \in Nat /\ num_threads \in Nat
        /\ posts[t] > 0 => phase[t] \in {"post", "out"}
        /\ phase[t] = "post" => num_threads > 0
    BY MeetingFacts DEF ExitTypes, PostsOK
  <2>. QED
    BY <2>1 DEF ExitWait, ExitPosted
<1>. USE MeetingFacts DEF ExitTypes, Becomes, TookToken
<1>1. ASSUME NEW f \in Followers, CreateLock(f) PROVE TookToken' = TookToken
  BY <1>1 DEF CreateLock, PhasesOK
<1>2. ASSUME NEW f \in Followers, Return(f) PROVE TookToken' = TookToken
  BY <1>2 DEF Return, PhasesOK
<1>3. ASSUME CreateStep PROVE TookToken' = TookToken
  BY <1>3 DEF CreateStep, CreateCount, CreateClone, CreateUnlock, PhasesOK
<1>4. ASSUME NEW t \in Meeting, ExitStep(t)
      PROVE  \/ TookToken' = TookToken
             \/ ExitWait(t) /\ t \notin TookToken /\ TookToken' = TookToken \union {t}
  <2>1. CASE ExitLock(t) \/ ExitCount(t) \/ ExitUnlock(t)
    BY <2>1 DEF ExitLock, ExitCount, ExitUnlock
  <2>2. CASE ExitWait(t)
    <3>1. posts[t] = 0
      BY <1>0, <2>2
    <3>. QED
      BY <2>2, <3>1 DEF ExitWait
  <2>3. CASE ExitPost(t)
    BY <2>3 DEF ExitPost
  <2>4. CASE ExitPosted(t)
    <3>1. posts[t] > 0
      BY <1>0, <2>4
    <3>. QED
      BY <2>4, <3>1 DEF ExitPosted
  <2>. QED
    BY <1>4, <2>1, <2>2, <2>3, <2>4 DEF ExitStep
<1>5. CASE UNCHANGED exitvars
  BY <1>5 DEF exitvars
<1>. HIDE DEF ExitTypes, Becomes, TookToken
<1>. QED
  BY <1>1, <1>2, <1>3, <1>4, <1>5 DEF ExitNext, Meeting

(* No token is lost: those at the semaphore and those taken change with a   *)
(* post alone.                                                              *)
LEMMA TokensKept ==
  ASSUME ExitTypes, PhasesOK, PostsOK, [ExitNext]_exitvars
  PROVE  exit_sem' + Cardinality(TookToken')
           = exit_sem + Cardinality(TookToken) + (IF \E t \in Meeting : ExitPost(t) THEN 1 ELSE 0)
<1>0. exit_sem \in Nat /\ Cardinality(TookToken) \in Nat /\ IsFiniteSet(TookToken)
  BY CountedSets DEF ExitTypes
<1>1. ASSUME NEW t \in Meeting, ExitWait(t), t \notin TookToken, TookToken' = TookToken \union {t}
      PROVE  /\ exit_sem' + Cardinality(TookToken') = exit_sem + Cardinality(TookToken)
             /\ ~ \E u \in Meeting : ExitPost(u)
  <2>1. Cardinality(TookToken') = Cardinality(TookToken) + 1
    BY <1>0, <1>1, FS_AddElement
  <2>2. exit_sem' = exit_sem - 1 /\ ~ \E u \in Meeting : ExitPost(u)
    BY <1>0, <1>1 DEF ExitWait, ExitPost
  <2>. QED
    BY <1>0, <2>1, <2>2
<1>2. CASE TookToken' = TookToken /\ \E t \in Meeting : ExitPost(t)
  <2>1. exit_sem' = exit_sem + 1
    BY <1>2 DEF ExitPost
  <2>. QED
    BY <1>0, <1>2, <2>1
<1>3. CASE TookToken' = TookToken /\ ~ \E t \in Meeting : ExitPost(t)
  <2>1. ASSUME NEW t \in Meeting, ExitWait(t) PROVE FALSE
    <3>1. t \in TookToken' /\ t \notin TookToken
      <4>1. phase[t] = "wait" /\ phase'[t] = "out" /\ posts'[t] = posts[t]
        BY <2>1, MeetingFacts DEF ExitWait, Becomes, ExitTypes
      <4>2. posts[t] \in Nat /\ (posts[t] > 0 => phase[t] \in {"post", "out"})
        BY MeetingFacts DEF ExitTypes, PostsOK
      <4>. QED
        BY <4>1, <4>2 DEF TookToken
    <3>. QED
      BY <1>3, <3>1
  <2>2. ASSUME NEW f \in Followers, CreateLock(f) \/ Return(f) PROVE exit_sem' = exit_sem
    BY <2>2 DEF CreateLock, Return
  <2>3. CreateStep => exit_sem' = exit_sem
    BY DEF CreateStep, CreateCount, CreateClone, CreateUnlock
  <2>4. ASSUME NEW t \in Meeting, ExitStep(t) PROVE exit_sem' = exit_sem
    BY <1>3, <2>1, <2>4 DEF ExitStep, ExitLock, ExitCount, ExitUnlock, ExitPosted
  <2>5. exit_sem' = exit_sem
    BY <2>2, <2>3, <2>4 DEF ExitNext, Meeting, exitvars
  <2>. QED
    BY <1>0, <1>3, <2>5
<1>. QED
  BY <1>0, <1>1, <1>2, <1>3, TookMoves

(* How the posts of a thread and its phase move.                            *)
LEMMA PosterMoves ==
  ASSUME ExitTypes, PhasesOK, PostsOK, [ExitNext]_exitvars, NEW t \in Meeting
  PROVE  \/ /\ posts'[t] = posts[t]
            /\ \/ phase'[t] = phase[t]
               \/ /\ phase[t] \notin {"unlock_post", "post", "out"}
                  /\ phase'[t] \notin {"unlock_post", "post"}
               \/ ExitCount(t) /\ exited_threads + 1 = num_threads
               \/ phase[t] = "unlock_post" /\ phase'[t] = "post"
               \/ phase[t] = "post" /\ phase'[t] = "out" /\ posts[t] >= num_threads
         \/ /\ ExitPost(t) /\ phase[t] = "post" /\ phase'[t] = "post"
            /\ posts[t] < num_threads /\ posts'[t] = posts[t] + 1
<1>. DEFINE Claim == \/ /\ posts'[t] = posts[t]
                        /\ \/ phase'[t] = phase[t]
                           \/ /\ phase[t] \notin {"unlock_post", "post", "out"}
                              /\ phase'[t] \notin {"unlock_post", "post"}
                           \/ ExitCount(t) /\ exited_threads + 1 = num_threads
                           \/ phase[t] = "unlock_post" /\ phase'[t] = "post"
                           \/ phase[t] = "post" /\ phase'[t] = "out" /\ posts[t] >= num_threads
                     \/ /\ ExitPost(t) /\ phase[t] = "post" /\ phase'[t] = "post"
                        /\ posts[t] < num_threads /\ posts'[t] = posts[t] + 1
<1>. USE MeetingFacts DEF ExitTypes, Becomes
<1>1. ASSUME NEW f \in Followers, CreateLock(f) \/ Return(f) PROVE Claim
  BY <1>1 DEF CreateLock, Return, PhasesOK
<1>2. ASSUME CreateStep PROVE Claim
  BY <1>2 DEF CreateStep, CreateCount, CreateClone, CreateUnlock, PhasesOK
<1>3. ASSUME NEW u \in Meeting, ExitStep(u) PROVE Claim
  <2>1. CASE ExitLock(u)
    BY <2>1 DEF ExitLock
  <2>2. CASE ExitCount(u)
    BY <2>2 DEF ExitCount
  <2>3. CASE ExitUnlock(u)
    BY <2>3 DEF ExitUnlock
  <2>4. CASE ExitWait(u)
    BY <2>4 DEF ExitWait
  <2>5. CASE ExitPost(u)
    BY <2>5 DEF ExitPost
  <2>6. CASE ExitPosted(u)
    BY <2>6 DEF ExitPosted
  <2>. HIDE DEF Claim
  <2>. QED
    BY <1>3, <2>1, <2>2, <2>3, <2>4, <2>5, <2>6 DEF ExitStep
<1>4. ASSUME UNCHANGED exitvars PROVE Claim
  BY <1>4 DEF exitvars
<1>. HIDE DEF ExitTypes, Becomes, Claim
<1>5. Claim
  BY <1>1, <1>2, <1>3, <1>4 DEF ExitNext, Meeting
<1>. QED
  BY <1>5 DEF Claim

(* The thread that reaches the count posts for all there are, and the count *)
(* cannot be reached, left behind and forgotten: a thread made later raises *)
(* the number of threads above it.                                          *)
LEMMA ExitPostsStep ==
  ExitTypes /\ PhasesOK /\ CountsOK /\ PostsOK /\ [ExitNext]_exitvars => PostsOK'
<1>. SUFFICES ASSUME ExitTypes, PhasesOK, CountsOK, PostsOK, [ExitNext]_exitvars PROVE PostsOK'
  OBVIOUS
<1>0. /\ exit_sem \in Nat /\ num_threads \in Nat /\ exited_threads \in Nat
      /\ num_threads' \in Nat /\ num_threads' >= num_threads
      /\ Cardinality(TookToken) \in Nat /\ \A t \in Meeting : posts[t] \in Nat
  <2>1. num_threads' = num_threads \/ CreateCount
    BY CountMoves DEF CreateClone
  <2>. QED
    BY <2>1, CountedSets, MeetingFacts DEF CreateCount, ExitTypes
<1>1. ASSUME NEW t \in Meeting
      PROVE  /\ posts'[t] <= num_threads'
             /\ posts'[t] > 0 => phase'[t] \in {"post", "out"}
             /\ phase'[t] \in {"unlock_post", "post"} => num_threads' > 0
             /\ posts'[t] <= exit_sem' + Cardinality(TookToken')
  <2>1. /\ posts[t] \in Nat /\ posts[t] <= num_threads
        /\ posts[t] > 0 => phase[t] \in {"post", "out"}
        /\ phase[t] \in {"unlock_post", "post"} => num_threads > 0
        /\ posts[t] <= exit_sem + Cardinality(TookToken)
    BY <1>0 DEF PostsOK
  <2>2. CASE ExitPost(t) /\ phase[t] = "post" /\ phase'[t] = "post"
             /\ posts[t] < num_threads /\ posts'[t] = posts[t] + 1
    BY <1>0, <2>1, <2>2, TokensKept
  <2>3. CASE posts'[t] = posts[t]
    <3>1. posts'[t] <= num_threads' /\ posts'[t] <= exit_sem' + Cardinality(TookToken')
      BY <1>0, <2>1, <2>3, TokensKept
    <3>2. ExitCount(t) => phase[t] = "count"
      BY DEF ExitCount
    <3>. QED
      BY <1>0, <2>1, <2>3, <3>1, <3>2, PosterMoves
  <2>. QED
    BY <2>2, <2>3, PosterMoves
<1>2. ASSUME num_threads' > 0, exited_threads' >= num_threads'
      PROVE  \E t \in Meeting : \/ phase'[t] \in {"unlock_post", "post"}
                                \/ phase'[t] = "out" /\ posts'[t] >= num_threads'
  <2>1. num_threads' = num_threads
    <3>1. CASE CreateCount /\ num_threads' # num_threads
      <4>1. phase[Leader] = "create" /\ exited_threads' = exited_threads
            /\ num_threads' = num_threads + 1
        BY <1>0, <3>1 DEF CreateCount
      <4>. QED
        BY <1>0, <1>2, <4>1, CountBehind
    <3>. QED
      BY <3>1, CountMoves DEF CreateClone
  <2>2. ASSUME NEW t \in Meeting, ExitCount(t), exited_threads + 1 = num_threads
        PROVE  phase'[t] = "unlock_post"
    BY <2>2, MeetingFacts DEF ExitCount, Becomes, ExitTypes
  <2>3. ASSUME exited_threads >= num_threads
        PROVE  \E t \in Meeting : \/ phase'[t] \in {"unlock_post", "post"}
                                  \/ phase'[t] = "out" /\ posts'[t] >= num_threads'
    <3>1. PICK t \in Meeting : \/ phase[t] \in {"unlock_post", "post"}
                               \/ phase[t] = "out" /\ posts[t] >= num_threads
      BY <1>2, <2>1, <2>3 DEF PostsOK
    <3>2. ~ ExitCount(t)
      BY <3>1 DEF ExitCount
    <3>. QED
      BY <2>1, <3>1, <3>2, PosterMoves
  <2>4. CASE exited_threads < num_threads
    <3>1. PICK t \in Meeting : ExitCount(t) /\ exited_threads' = exited_threads + 1
      BY <1>0, <1>2, <2>1, <2>4, SetsMove
    <3>. QED
      BY <1>0, <1>2, <2>1, <2>2, <2>4, <3>1
  <2>. QED
    BY <1>0, <2>3, <2>4
<1>. QED
  BY <1>1, <1>2 DEF PostsOK

(* The types of the counters follow from what they count.                   *)
LEMMA ExitBounds == ExitTypes /\ PhasesOK /\ CountsOK /\ PostsOK => ExitTypeOK
<1>. SUFFICES ASSUME ExitTypes, PhasesOK, CountsOK, PostsOK PROVE ExitTypeOK
  OBVIOUS
<1>1. num_threads \in 0 .. Cardinality(Joinable)
  <2>1. CASE phase[Leader] = "clone" /\ child \in Joinable
    <3>1. child \notin Born
      BY <2>1 DEF PhasesOK, Born
    <3>2. Cardinality(Born \union {child}) = Cardinality(Born) + 1
          /\ Born \union {child} \subseteq Joinable
      BY <2>1, <3>1, CountedSets, FS_AddElement
    <3>3. Cardinality(Born \union {child}) <= Cardinality(Joinable)
      BY <3>2, MeetingFacts, FS_Subset
    <3>. QED
      BY <2>1, <3>2, <3>3, CountedSets, MeetingFacts DEF CountsOK
  <2>2. CASE ~ (phase[Leader] = "clone" /\ child \in Joinable)
    BY <2>2, CountedSets, MeetingFacts DEF CountsOK
  <2>. QED
    BY <2>1, <2>2
<1>2. exited_threads \in 0 .. Cardinality(Joinable) + 1
  BY CountedSets, MeetingFacts DEF CountsOK
<1>3. mtx \in {0, 1}
  BY DEF PhasesOK
<1>4. ASSUME NEW t \in Callers PROVE posts[t] \in 0 .. Cardinality(Joinable)
  <2>1. posts[t] \in Nat
    BY <1>4 DEF ExitTypes
  <2>2. CASE t \in Meeting
    BY <1>1, <2>1, <2>2, MeetingFacts DEF PostsOK
  <2>3. CASE t \notin Meeting
    BY <1>1, <2>3, MeetingFacts DEF PhasesOK
  <2>. QED
    BY <2>2, <2>3
<1>. QED
  BY <1>1, <1>2, <1>3, <1>4 DEF ExitTypes, ExitTypeOK

(* The invariant of creation and exit, for any followers, joinable or not:  *)
(* types, one thread at a time under mtx, what num_threads and              *)
(* exited_threads count, and posts for all once the count is reached.       *)
THEOREM ExitInvariance == ExitSpec => []ExitInv
<1>. DEFINE I == ExitTypes /\ PhasesOK /\ CountsOK /\ PostsOK
<1>1. ExitTypeOK => ExitTypes
  BY MeetingFacts DEF ExitTypeOK, ExitTypes
<1>2. ExitInit => I
  BY <1>1, InitExit DEF ExitInv
<1>3. I /\ [ExitNext]_exitvars => I'
  BY ExitTypesStep, ExitPhasesStep, ExitCountsStep, ExitPostsStep
<1>4. I => ExitInv
  BY ExitBounds DEF ExitInv
<1>. QED
  BY <1>2, <1>3, <1>4, PTL DEF ExitSpec

(* When all who are to meet have come, there is a token for each that still *)
(* waits: the count then stands one above the number of threads, so one of  *)
(* those who met was the last and posted for all the others.                *)
THEOREM EnoughTokensAlways == ExitSpec => []EnoughTokens
<1>1. ExitInv => EnoughTokens
  <2>. SUFFICES ASSUME ExitInv, num_threads > 0,
                       \A t \in Meeting : phase[t] \in {"unborn", "wait", "out"}
                PROVE  Cardinality(Waiting) <= exit_sem
    BY DEF EnoughTokens
  <2>. DEFINE J == Cardinality(Joinable)
  <2>0. /\ num_threads \in Nat /\ exit_sem \in Nat /\ J \in Nat
        /\ posts \in [Callers -> 0 .. J]
    BY MeetingFacts DEF ExitInv, ExitTypeOK
  <2>1. /\ phase[Leader] \in {"wait", "out"} /\ Leader \in Meeting /\ Leader \notin Born
        /\ Exited = Born \union {Leader}
    BY MeetingFacts DEF ExitInv, PhasesOK, Exited, Born, CountedOut
  <2>2. exited_threads = num_threads + 1 /\ num_threads = Cardinality(Born)
        /\ Cardinality(Exited) = num_threads + 1
    BY <2>1, CountedSets, FS_AddElement DEF ExitInv, CountsOK
  <2>3. PICK t \in Meeting : phase[t] = "out" /\ posts[t] >= num_threads
    BY <2>0, <2>2 DEF ExitInv, PostsOK
  <2>4. posts[t] \in Nat /\ posts[t] > 0
        /\ posts[t] <= exit_sem + Cardinality(TookToken)
    BY <2>0, <2>3, MeetingFacts DEF ExitInv, PostsOK
  <2>5. /\ Waiting \union TookToken \subseteq Exited \ {t} /\ t \in Exited
        /\ Waiting \intersect TookToken = {}
    BY <2>3, <2>4 DEF Waiting, TookToken, Exited, CountedOut
  <2>6. Cardinality(Waiting \union TookToken) = Cardinality(Waiting) + Cardinality(TookToken)
    BY <2>5, CountedSets, FS_Union, FS_EmptySet
  <2>7. Cardinality(Exited \ {t}) = num_threads /\ IsFiniteSet(Exited \ {t})
    BY <2>0, <2>2, <2>5, CountedSets, FS_RemoveElement
  <2>8. Cardinality(Waiting \union TookToken) <= num_threads
    BY <2>5, <2>7, FS_Subset
  <2>. QED
    BY <2>0, <2>3, <2>4, <2>6, <2>8, CountedSets
<1>. QED
  BY <1>1, ExitInvariance, PTL
=============================================================================
