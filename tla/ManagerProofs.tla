--------------------------- MODULE ManagerProofs ---------------------------
(* Proofs about the manager, for a table of any size, any number of jobs    *)
(* and of keys pressed: no stopped job is lost from the table, the number   *)
(* of suspended jobs stays within bounds, and for the careful user the      *)
(* table is right whenever the manager is at its prompt.                    *)
EXTENDS Manager, FiniteSetTheorems, TLAPS

States == {"none", "running", "stopped", "zombie", "reaped"}

LEMMA HitState ==
  ASSUME NEW st \in States, NEW sig
  PROVE  /\ Hit(st, sig) \in States
         /\ st \notin {"running", "stopped"} => Hit(st, sig) = st
         /\ Hit(st, sig) = "stopped" => st = "stopped" \/ sig = "TSTP"
         /\ sig = "KILL" => Hit(st, sig) # "stopped"
BY DEF Hit, States

LEMMA InitInv == Init => IInv
<1>. SUFFICES ASSUME Init PROVE IInv
  OBVIOUS
<1>. USE BoundsAssumption DEF Init, Slots, Pids, Empty
<1>1. Types
  BY DEF Types
<1>2. EntriesDiffer /\ NotYetEntered /\ EndedWhenMarked /\ StoppedIsListed
  BY DEF EntriesDiffer, NotYetEntered, EndedWhenMarked, StoppedIsListed
<1>. QED
  BY <1>1, <1>2 DEF IInv

\* SIGKILL to the manager's group: the manager is gone, and nothing stopped is left.
LEMMA KillGroupInv == IInv /\ KillGroup /\ UNCHANGED <<table, job, pid>> => IInv'
<1>. SUFFICES ASSUME IInv, KillGroup, UNCHANGED <<table, job, pid>> PROVE IInv'
  OBVIOUS
<1>1. /\ pc' = "killed"
      /\ proc' \in [Pids -> States]
      /\ \A p \in Pids : proc'[p] # "stopped"
  BY DEF KillGroup, Orphaned, IInv, Types, States
<1>. QED
  BY <1>1 DEF IInv, Types, EntriesDiffer, NotYetEntered, EndedWhenMarked, StoppedIsListed, States, Suspended, table

\* The handler marks the entry of the process it signals.
LEMMA HandlerInv ==
  ASSUME NEW sig \in Keys, NEW s,
         IInv, parentSigHandler(sig, s), UNCHANGED <<job, pid>>
  PROVE  IInv'
<1>0. Types /\ EntriesDiffer /\ NotYetEntered /\ EndedWhenMarked /\ StoppedIsListed
  BY DEF IInv
<1>1. CASE currChild = None
  BY <1>0, <1>1 DEF parentSigHandler, table, IInv, Types, EntriesDiffer, NotYetEntered, EndedWhenMarked, StoppedIsListed, Suspended
<1>2. CASE currChild # None
  <2>. DEFINE c == PT[currChild].pid
              S == IF sig = "INT" THEN "KILL" ELSE "TSTP"
  <2>1. /\ PT' = [PT EXCEPT ![currChild].status = IF sig = "INT" THEN "TERMINATED" ELSE "SUSPENDED"]
        /\ currChild' = None
        /\ Kill(c, S, s)
    BY <1>2 DEF parentSigHandler
  <2>2. currChild \in Slots /\ c \in {0} \union Pids
    BY <1>0, <1>2 DEF Types
  <2>3. /\ \A i \in Slots : PT'[i].pid = PT[i].pid
        /\ \A i \in Slots \ {currChild} : PT'[i] = PT[i]
        /\ PT'[currChild].status = IF sig = "INT" THEN "TERMINATED" ELSE "SUSPENDED"
        /\ PT' \in [Slots -> [pid : {0} \union Pids, status : {"EMPTY", "FINISHED", "TERMINATED", "SUSPENDED"}]]
    BY <1>0, <2>1, <2>2 DEF Types
  <2>4. CASE c = 0 /\ S = "KILL"
    <3>1. pc' = "killed" /\ proc' \in [Pids -> States] /\ \A p \in Pids : proc'[p] # "stopped"
      BY <1>0, <2>1, <2>4 DEF Kill, KillGroup, Orphaned, Types, States
    <3>. QED
      BY <1>0, <2>1, <2>3, <3>1 DEF IInv, Types, EntriesDiffer, NotYetEntered, EndedWhenMarked, StoppedIsListed, States
  <2>5. CASE ~(c = 0 /\ S = "KILL")
    <3>1. /\ UNCHANGED pc
          /\ \/ UNCHANGED proc /\ (c = 0 \/ S = "TSTP")
             \/ c \in Pids /\ proc' = [proc EXCEPT ![c] = Hit(@, S)]
      BY <2>1, <2>2, <2>5 DEF Kill
    <3>2. /\ proc' \in [Pids -> States]
          /\ \A p \in Pids : proc[p] \notin {"running", "stopped"} => proc'[p] = proc[p]
          /\ \A p \in Pids \ {c} : proc'[p] = proc[p]
          /\ S = "KILL" => c \in Pids /\ proc'[c] # "stopped"
      BY <1>0, <2>5, <3>1, HitState DEF Types, States
    <3>3. Types' /\ EntriesDiffer' /\ NotYetEntered'
      BY <1>0, <2>1, <2>3, <3>1, <3>2 DEF Types, EntriesDiffer, NotYetEntered, States
    <3>4. EndedWhenMarked'
      <4>. SUFFICES ASSUME pc \in {"finish", "mark"} PROVE EndedWhenMarked'
        BY <3>1 DEF EndedWhenMarked
      <4>1. job \in Slots /\ PT'[job].pid = PT[job].pid /\ PT[job].pid \in {0} \union Pids
        BY <1>0, <2>3 DEF Types
      <4>. QED
        BY <1>0, <3>1, <3>2, <4>1 DEF EndedWhenMarked
    <3>5. StoppedIsListed'
      <4>. SUFFICES ASSUME NEW p \in Pids, proc'[p] = "stopped"
                    PROVE  \E i \in Slots : PT'[i].status = "SUSPENDED" /\ PT'[i].pid = p
        BY DEF StoppedIsListed, Suspended
      <4>1. CASE p = c
        BY <2>2, <2>3, <3>2, <4>1
      <4>2. CASE p # c
        <5>1. PICK i \in Slots : PT[i].status = "SUSPENDED" /\ PT[i].pid = p
          BY <1>0, <3>2, <4>2 DEF StoppedIsListed, Suspended
        <5>. QED
          BY <2>3, <4>2, <5>1
      <4>. QED
        BY <4>1, <4>2
    <3>. QED
      BY <3>3, <3>4, <3>5 DEF IInv
  <2>. QED
    BY <2>4, <2>5
<1>. QED
  BY <1>1, <1>2

LEMMA ChildInv == IInv /\ Child => IInv'
<1>. SUFFICES ASSUME IInv, Child PROVE IInv'
  OBVIOUS
<1>. USE DEF IInv, Types, EntriesDiffer, NotYetEntered, EndedWhenMarked, StoppedIsListed, Suspended, table, States
<1>1. CASE ChildFindsSlot \/ ChildExecs
  BY <1>1 DEF ChildFindsSlot, ChildExecs
<1>2. ASSUME NEW sig \in Keys, ChildHandles(sig) PROVE IInv'
  <2>1. /\ proc[pid] = "running" /\ pid \in Pids
        /\ UNCHANGED <<job, pid>>
    BY <1>2 DEF ChildHandles, Runs
  <2>2. \/ UNCHANGED <<pc, table, proc>>
        \/ KillGroup /\ UNCHANGED table
        \/ proc' = [proc EXCEPT ![pid] = "zombie"] /\ UNCHANGED <<pc, table>>
        \/ parentSigHandler("TSTP", struck \ {"TSTP"})
    BY <1>2 DEF ChildHandles
  <2>3. CASE UNCHANGED <<pc, table, proc>>
    BY <2>1, <2>3
  <2>4. CASE KillGroup /\ UNCHANGED table
    BY <2>1, <2>4, KillGroupInv
  <2>5. CASE proc' = [proc EXCEPT ![pid] = "zombie"] /\ UNCHANGED <<pc, table>>
    BY <2>1, <2>5
  <2>6. CASE parentSigHandler("TSTP", struck \ {"TSTP"})
    BY <2>1, <2>6, HandlerInv DEF Keys
  <2>. QED
    BY <2>2, <2>3, <2>4, <2>5, <2>6
<1>3. ASSUME NEW p \in Pids, JobEnds(p) PROVE IInv'
  BY <1>3 DEF JobEnds
<1>. QED
  BY <1>1, <1>2, <1>3 DEF Child

LEMMA MainInv == IInv /\ (Main \/ Command) => IInv'
<1>. SUFFICES ASSUME IInv, Main \/ Command PROVE IInv'
  OBVIOUS
<1>0. Types /\ EntriesDiffer /\ NotYetEntered /\ EndedWhenMarked /\ StoppedIsListed
  BY DEF IInv
<1>. USE DEF IInv, Types, EntriesDiffer, NotYetEntered, EndedWhenMarked, StoppedIsListed, Suspended, table, States
<1>1. CASE Exit
  BY <1>1 DEF Exit, Orphaned
<1>2. CASE Fork
  BY <1>2, BoundsAssumption DEF Fork, Pids
<1>3. CASE FindSlot
  BY <1>3 DEF FindSlot
<1>4. CASE SetGroup \/ ResetChild
  BY <1>4 DEF SetGroup, ResetChild
<1>5. CASE Enter
  <2>1. CASE currChild # None
    <3>1. /\ pc = "enter" /\ pc' = "wait" /\ currChild \in Slots /\ pid \in Pids
          /\ PT' = [PT EXCEPT ![currChild] = [pid |-> pid, status |-> "FINISHED"]]
          /\ UNCHANGED <<proc, currChild, job, pid>>
      BY <1>0, <1>5, <2>1 DEF Enter
    <3>2. /\ PT'[currChild] = [pid |-> pid, status |-> "FINISHED"]
          /\ \A i \in Slots \ {currChild} : PT'[i] = PT[i]
      BY <1>0, <3>1
    <3>3. Types' /\ EntriesDiffer' /\ NotYetEntered' /\ EndedWhenMarked'
      BY <1>0, <3>1, <3>2, BoundsAssumption DEF Pids
    <3>4. StoppedIsListed'
      BY <1>0, <2>1, <3>1, <3>2, BoundsAssumption DEF Pids
    <3>. QED
      BY <3>3, <3>4
  <2>2. CASE currChild = None
    BY <1>5, <2>2 DEF Enter, Orphaned
  <2>. QED
    BY <2>1, <2>2
<1>6. CASE Wait
  BY <1>6, ZenonT(20) DEF Wait
<1>7. CASE \E answer \in {"continue?", "kill?"} : Ask(answer)
  BY <1>7 DEF Ask
<1>8. CASE Pick("continue?", "cont") \/ Pick("kill?", "kill")
  BY <1>8 DEF Pick
<1>9. CASE SendCont
  BY <1>9, HitState DEF SendCont
<1>10. CASE WaitCont
  BY <1>10 DEF WaitCont
<1>11. CASE Finish
  <2>1. /\ job \in Slots /\ pc' = "prompt" /\ UNCHANGED <<currChild, job, pid, proc>>
        /\ PT' = [PT EXCEPT ![job].status = "FINISHED"]
    BY <1>0, <1>11 DEF Finish
  <2>2. /\ \A i \in Slots : PT'[i].pid = PT[i].pid
        /\ \A i \in Slots \ {job} : PT'[i] = PT[i]
    BY <1>0, <2>1
  <2>3. PT[job].pid # 0 => proc[PT[job].pid] # "stopped"
    BY <1>0, <1>11 DEF Finish
  <2>4. Types' /\ EntriesDiffer' /\ NotYetEntered' /\ EndedWhenMarked'
    BY <1>0, <2>1, <2>2
  <2>5. StoppedIsListed'
    BY <1>0, <2>1, <2>2, <2>3, BoundsAssumption DEF Pids
  <2>. QED
    BY <2>4, <2>5
<1>12. CASE SendKill
  <2>1. CASE KillGroup
    BY <1>12, <2>1, KillGroupInv DEF SendKill
  <2>2. CASE /\ PT[job].pid # 0 /\ pc' = "mark"
             /\ proc' = [proc EXCEPT ![PT[job].pid] = Hit(@, "KILL")]
    <3>1. /\ PT[job].pid \in Pids /\ job \in Slots
          /\ UNCHANGED <<table, job, pid>>
      BY <1>0, <1>12, <2>2 DEF SendKill
    <3>2. Hit(proc[PT[job].pid], "KILL") \in {"none", "zombie", "reaped"}
      BY <1>0, <3>1 DEF Hit
    <3>. QED
      BY <1>0, <2>2, <3>1, <3>2
  <2>. QED
    BY <1>12, <2>1, <2>2 DEF SendKill
<1>13. CASE MarkKilled
  <2>1. /\ job \in Slots /\ pc' = "prompt" /\ UNCHANGED <<currChild, job, pid, proc>>
        /\ PT' = [PT EXCEPT ![job].status = "TERMINATED"]
    BY <1>0, <1>13 DEF MarkKilled
  <2>2. /\ \A i \in Slots : PT'[i].pid = PT[i].pid
        /\ \A i \in Slots \ {job} : PT'[i] = PT[i]
    BY <1>0, <2>1
  <2>3. PT[job].pid # 0 => proc[PT[job].pid] # "stopped"
    BY <1>0, <1>13 DEF MarkKilled
  <2>4. Types' /\ EntriesDiffer' /\ NotYetEntered' /\ EndedWhenMarked'
    BY <1>0, <2>1, <2>2
  <2>5. StoppedIsListed'
    BY <1>0, <2>1, <2>2, <2>3, BoundsAssumption DEF Pids
  <2>. QED
    BY <2>4, <2>5
<1>. QED
  BY <1>1, <1>2, <1>3, <1>4, <1>5, <1>6, <1>7, <1>8, <1>9, <1>10, <1>11, <1>12, <1>13 DEF Main, Command

LEMMA NextInv == IInv /\ [Next]_vars => IInv'
<1>. SUFFICES ASSUME IInv, [Next]_vars PROVE IInv'
  OBVIOUS
<1>1. ASSUME NEW sig \in Keys, Press(sig) PROVE IInv'
  BY <1>1, HandlerInv DEF Press
<1>2. CASE UNCHANGED vars
  BY <1>2 DEF vars, table, child, user, IInv, Types, EntriesDiffer, NotYetEntered, EndedWhenMarked, StoppedIsListed, Suspended
<1>. QED
  BY <1>1, <1>2, ChildInv, MainInv DEF Next

(* The inductive invariant: a child has at most one entry, an entry is made *)
(* for a child the table does not know, and a mark is taken away only when  *)
(* the job has ended (mgr.c:46-69, 106-202).                                *)
THEOREM Invariance == Spec => []IInv
BY InitInv, NextInv, PTL DEF Spec

(* A stopped job is in the table as suspended: for a table of any size and  *)
(* keys pressed at any moment, the windows between fork and entry included  *)
(* (mgr.c:46-69).                                                           *)
THEOREM StoppedIsListedAlways == Spec => []StoppedIsListed
<1>1. IInv => StoppedIsListed
  BY DEF IInv
<1>. QED
  BY <1>1, Invariance, PTL

----------------------------------------------------------------------------
(* numSuspended stays within bounds: TypeOK                                 *)

One(b) == IF b THEN 1 ELSE 0

\* c or k has left currChild at a job that is no longer suspended.
Leftover == currChild # None /\ pc \in {"prompt", "find", "continue?", "kill?"}
\* The copy will pass ^Z on to the manager's handler, which may count once more.
Unpassed ==
  /\ "TSTP" \in struck /\ InGroup /\ copy \in {"forked", "chosen"}
  /\ pc = "find" \/ (pc = "group" /\ currChild # None)
AtWork == {"cont", "waitcont", "finish", "kill", "mark"}

CountBound ==
  /\ numSuspended + One(Leftover) + One(Unpassed) <= keys
  /\ pc \in AtWork \union {"continue?", "kill?"} => numSuspended > 0
GroupedSoon == ~ grouped => pc \in {"find", "group", "exited", "killed"}

CountInv == TypeOK /\ CountBound /\ GroupedSoon

\* What a call of the handler does to what it shares with main and the copy.
LEMMA HandlerCounts ==
  ASSUME NEW sig \in Keys, NEW s \in SUBSET Keys, Types, numSuspended \in Nat, parentSigHandler(sig, s)
  PROVE  /\ struck' \in SUBSET Keys /\ pc' \in {pc, "killed"} /\ currChild' = None
         /\ numSuspended' = numSuspended + One(sig = "TSTP" /\ currChild # None)
         /\ "TSTP" \in struck' => "TSTP" \in s \/ sig = "TSTP"
<1>1. CASE currChild = None
  BY <1>1 DEF parentSigHandler, table, One
<1>2. CASE currChild # None
  <2>1. PICK p, ks : Kill(p, ks, s) /\ (ks = "TSTP" => sig = "TSTP")
    BY <1>2 DEF parentSigHandler, Keys
  <2>2. /\ struck' \in SUBSET Keys /\ pc' \in {pc, "killed"}
        /\ "TSTP" \in struck' => "TSTP" \in s \/ sig = "TSTP"
    BY <2>1 DEF Kill, KillGroup, Keys
  <2>3. /\ currChild' = None
        /\ numSuspended' = numSuspended + One(sig = "TSTP" /\ currChild # None)
    BY <1>2 DEF parentSigHandler, One
  <2>. QED
    BY <2>2, <2>3
<1>. QED
  BY <1>1, <1>2

LEMMA CountPress ==
  ASSUME CountInv, IInv', NEW sig \in Keys, Press(sig)
  PROVE  CountInv'
<1>. DEFINE s == IF InGroup THEN struck \union {sig} ELSE struck
<1>1. /\ TypeOK /\ Types /\ numSuspended \in Nat /\ s \in SUBSET Keys /\ parentSigHandler(sig, s)
      /\ keys \in Nat /\ keys < MaxKeys /\ keys' = keys + 1
      /\ UNCHANGED <<job, pid, copy, grouped, careful>>
  BY BoundsAssumption DEF Press, CountInv, TypeOK, Keys
<1>. HIDE DEF s
<1>2. /\ struck' \in SUBSET Keys /\ pc' \in {pc, "killed"} /\ currChild' = None
      /\ numSuspended' = numSuspended + One(sig = "TSTP" /\ currChild # None)
  BY <1>1, HandlerCounts
<1>3. numSuspended' + One(Leftover') + One(Unpassed') <= keys'
  <2>1. Leftover' = FALSE
    BY <1>2 DEF Leftover
  <2>2. Unpassed' => pc = "find"
    BY <1>2 DEF Unpassed
  <2>3. pc = "find" /\ currChild # None => Leftover
    BY DEF Leftover
  <2>4. numSuspended + One(Leftover) + One(Unpassed) <= keys
    BY DEF CountInv, CountBound
  <2>. QED
    BY <1>1, <1>2, <2>1, <2>2, <2>3, <2>4 DEF One
<1>4. pc' \in AtWork \union {"continue?", "kill?"} => numSuspended' > 0
  BY <1>1, <1>2 DEF CountInv, CountBound, AtWork, One
<1>5. GroupedSoon'
  BY <1>1, <1>2 DEF CountInv, GroupedSoon
<1>6. CountBound'
  BY <1>3, <1>4 DEF CountBound
<1>7. numSuspended' <= keys' /\ numSuspended' \in Nat
  BY <1>1, <1>2, <1>3 DEF One
<1>8. TypeOK'
  BY <1>1, <1>2, <1>7, BoundsAssumption DEF TypeOK, IInv
<1>. QED
  BY <1>5, <1>6, <1>8 DEF CountInv

LEMMA CountChild ==
  ASSUME CountInv, IInv', Child
  PROVE  CountInv'
<1>. USE BoundsAssumption
<1>1. TypeOK /\ Types /\ Types' /\ CountBound /\ GroupedSoon /\ numSuspended \in Nat /\ keys \in Nat
  BY DEF CountInv, TypeOK, IInv
<1>2. CASE ChildFindsSlot
  BY <1>1, <1>2 DEF ChildFindsSlot, CountInv, TypeOK, CountBound, GroupedSoon, Leftover, Unpassed, One,
                    InGroup, IsCopy, table, user
<1>3. CASE ChildExecs
  BY <1>1, <1>3 DEF ChildExecs, CountInv, TypeOK, CountBound, GroupedSoon, Leftover, Unpassed, One,
                    InGroup, IsCopy, table, user
<1>4. ASSUME NEW p \in Pids, JobEnds(p)
      PROVE  CountInv'
  BY <1>1, <1>4 DEF JobEnds, CountInv, TypeOK, CountBound, GroupedSoon, Leftover, Unpassed, One,
                    InGroup, IsCopy, table, child, user
<1>5. ASSUME NEW sig \in Keys, ChildHandles(sig)
      PROVE  CountInv'
  <2>1. IsCopy /\ sig \in struck /\ UNCHANGED <<job, pid, grouped, keys, careful>>
    BY <1>5 DEF ChildHandles, user
  <2>2. CASE /\ struck' \in {struck, struck \ {sig}} /\ pc' \in {pc, "killed"}
             /\ copy' \in {copy, "passed"} /\ UNCHANGED table
    <3>1. /\ Leftover' => Leftover
          /\ Unpassed' => Unpassed
      BY <2>1, <2>2 DEF Leftover, Unpassed, InGroup, IsCopy, table
    <3>2. CountBound' /\ GroupedSoon'
      BY <1>1, <2>1, <2>2, <3>1 DEF CountBound, GroupedSoon, table, One, AtWork
    <3>3. TypeOK'
      BY <1>1, <2>1, <2>2 DEF TypeOK, table
    <3>. QED
      BY <3>2, <3>3 DEF CountInv
  <2>3. CASE /\ copy = "chosen" /\ copy' = "passed" /\ sig = "TSTP" /\ InGroup /\ Alive
             /\ parentSigHandler("TSTP", struck \ {"TSTP"})
    <3>1. /\ struck' \in SUBSET Keys /\ pc' \in {pc, "killed"} /\ currChild' = None
          /\ numSuspended' = numSuspended + One(currChild # None)
      BY <1>1, <2>3, HandlerCounts DEF TypeOK, Keys, One
    <3>2. currChild # None => Unpassed
      BY <1>1, <2>1, <2>3 DEF Unpassed, InGroup, GroupedSoon, Alive
    <3>3. Leftover' = FALSE /\ Unpassed' = FALSE
      BY <2>3, <3>1 DEF Leftover, Unpassed
    <3>4. CountBound' /\ GroupedSoon'
      BY <1>1, <2>1, <3>1, <3>2, <3>3 DEF CountBound, GroupedSoon, One, AtWork
    <3>5. numSuspended' \in Nat /\ numSuspended' <= keys'
      BY <1>1, <3>1, <3>3, <3>4 DEF CountBound, One
    <3>6. TypeOK'
      BY <1>1, <2>1, <2>3, <3>1, <3>5 DEF TypeOK
    <3>. QED
      BY <3>4, <3>6 DEF CountInv
  <2>. QED
    BY <1>5, <2>2, <2>3 DEF ChildHandles, KillGroup
<1>. QED
  BY <1>2, <1>3, <1>4, <1>5 DEF Child

LEMMA CountMain ==
  ASSUME CountInv, IInv', Main \/ Command
  PROVE  CountInv'
<1>. USE BoundsAssumption DEF CountInv, TypeOK, CountBound, GroupedSoon, Leftover, Unpassed, One, AtWork,
                              InGroup, IsCopy, table, child, user
<1>1. Types' /\ numSuspended \in Nat /\ keys \in Nat
  BY DEF IInv
<1>2. CASE Exit
  BY <1>1, <1>2 DEF Exit
<1>3. CASE Fork
  BY <1>1, <1>3 DEF Fork
<1>4. CASE FindSlot
  BY <1>1, <1>4 DEF FindSlot
<1>5. CASE SetGroup
  BY <1>1, <1>5 DEF SetGroup
<1>6. CASE Enter
  BY <1>1, <1>6 DEF Enter
<1>7. CASE Wait \/ WaitCont
  BY <1>1, <1>7 DEF Wait, WaitCont
<1>8. CASE ResetChild
  BY <1>1, <1>8 DEF ResetChild
<1>9. CASE Ask("continue?") \/ Ask("kill?")
  BY <1>1, <1>9 DEF Ask
<1>10. CASE Pick("continue?", "cont") \/ Pick("kill?", "kill")
  BY <1>1, <1>10 DEF Pick
<1>11. CASE SendCont
  BY <1>1, <1>11 DEF SendCont
<1>12. CASE SendKill
  BY <1>1, <1>12 DEF SendKill, KillGroup
<1>13. CASE Finish \/ MarkKilled
  BY <1>1, <1>13 DEF Finish, MarkKilled
<1>. QED
  BY <1>2, <1>3, <1>4, <1>5, <1>6, <1>7, <1>8, <1>9, <1>10, <1>11, <1>12, <1>13 DEF Main, Command

LEMMA CountInvariance == Spec => []CountInv
<1>1. Init => CountInv
  <2>. SUFFICES ASSUME Init PROVE CountInv
    OBVIOUS
  <2>1. Types
    BY InitInv DEF IInv
  <2>. QED
    BY <2>1, BoundsAssumption DEF Init, CountInv, TypeOK, CountBound, GroupedSoon, Leftover, Unpassed, One,
                                  InGroup, IsCopy, AtWork
<1>2. IInv /\ CountInv /\ [Next]_vars => CountInv'
  <2>. SUFFICES ASSUME IInv, CountInv, [Next]_vars PROVE CountInv'
    OBVIOUS
  <2>1. IInv'
    BY NextInv
  <2>2. CASE UNCHANGED vars
    BY <2>2 DEF vars, table, child, user, CountInv, TypeOK, Types, CountBound, GroupedSoon, Leftover, Unpassed,
                One, InGroup, IsCopy, AtWork
  <2>. QED
    BY <2>1, <2>2, CountPress, CountChild, CountMain DEF Next
<1>. QED
  BY <1>1, <1>2, Invariance, PTL DEF Spec

(* Types, and numSuspended is never negative and never more than the keys    *)
(* pressed, though a ^Z between fork and setpgid reaches the handler twice   *)
(* (mgr.c:46-69, 164-165, 195-196).                                          *)
THEOREM TypeOKAlways == Spec => []TypeOK
<1>1. CountInv => TypeOK
  BY DEF CountInv
<1>. QED
  BY <1>1, CountInvariance, PTL

----------------------------------------------------------------------------
(* The table is right for a careful user: TableRight                        *)

Starting == {"find", "group", "enter"}

\* A child has an entry, but for the one just forked; none has ever run beyond pid.
ChildrenEntered ==
  \A p \in Pids : IF p > pid THEN proc[p] = "none"
                  ELSE (p = pid /\ pc \in Starting) \/ \E i \in Slots : PT[i].pid = p
\* main waits for the job that runs.
RunningAwaited ==
  \A p \in Pids : proc[p] = "running" => \/ p = pid /\ pc \in Starting \union {"wait"}
                                         \/ pc = "waitcont" /\ PT[job].pid = p
\* currChild is never at a suspended job, but at the one c or k is about.
CurrentKnown ==
  /\ pc \in {"group", "enter"} => currChild # None
  /\ currChild # None /\ pc \notin AtWork => PT[currChild].status # "SUSPENDED"
  /\ currChild # None /\ pc \in AtWork => currChild = job
  /\ currChild # None /\ pc = "wait" => PT[currChild].pid # 0
EntriesFilled ==
  /\ \A i \in Suspended : PT[i].pid # 0
  /\ pc \in AtWork => PT[job].pid # 0
\* No copy that could pass a ^Z on to the manager ever gets one.
KeysInTime ==
  /\ ~ grouped => pc \in {"find", "group"}
  /\ "TSTP" \in struck => grouped
\* c and k count their job off at the end.
Counted ==
  numSuspended = IF pc \in AtWork THEN Cardinality(Suspended \ {job}) + 1 ELSE Cardinality(Suspended)

TableFacts ==
  ChildrenEntered /\ RunningAwaited /\ CurrentKnown /\ EntriesFilled /\ KeysInTime /\ Counted
TableInv == careful /\ Alive => TableFacts

LEMMA SlotsFinite ==
  ASSUME NEW S \in SUBSET Slots
  PROVE  /\ IsFiniteSet(S) /\ Cardinality(S) \in Nat
         /\ \A i \in Slots \ S : Cardinality(S \union {i}) = Cardinality(S) + 1
         /\ \A i \in S : Cardinality(S \ {i}) = Cardinality(S) - 1
<1>1. IsFiniteSet(Slots)
  BY FS_Interval, BoundsAssumption DEF Slots
<1>2. IsFiniteSet(S)
  BY <1>1, FS_Subset
<1>. QED
  BY <1>2, FS_CardinalityType, FS_AddElement, FS_RemoveElement

\* Processes end, or the copy sees to its signals, and main and the table stay.
LEMMA ProcessesOnly ==
  ASSUME TableFacts, UNCHANGED <<pc, table, job, pid>>,
         struck' \subseteq struck, grouped' = grouped \/ grouped' = TRUE,
         \A p \in Pids : /\ proc'[p] = "running" => proc[p] = "running"
                         /\ proc[p] = "none" => proc'[p] = "none"
  PROVE  TableFacts'
BY DEF TableFacts, ChildrenEntered, RunningAwaited, CurrentKnown, EntriesFilled, KeysInTime, Counted,
       Suspended, table

LEMMA TablePress ==
  ASSUME IInv, TypeOK, TableFacts, careful, Alive', NEW sig \in Keys, Press(sig)
  PROVE  TableFacts'
<1>. DEFINE s == IF InGroup THEN struck \union {sig} ELSE struck
<1>1. /\ parentSigHandler(sig, s) /\ (sig = "TSTP" => pc = "wait")
      /\ UNCHANGED <<job, pid, grouped>>
  BY DEF Press
<1>2. /\ ChildrenEntered /\ RunningAwaited /\ CurrentKnown /\ EntriesFilled /\ KeysInTime /\ Counted
      /\ Types /\ NotYetEntered /\ numSuspended \in Nat
  BY DEF TableFacts, IInv, TypeOK
<1>3. "TSTP" \in s => grouped
  BY <1>1, <1>2 DEF KeysInTime, InGroup, Keys
<1>. HIDE DEF s
<1>4. CASE currChild = None
  <2>1. struck' = s /\ UNCHANGED <<table, pc, proc>>
    BY <1>1, <1>4 DEF parentSigHandler
  <2>. QED
    BY <1>1, <1>2, <1>3, <2>1 DEF TableFacts, ChildrenEntered, RunningAwaited, CurrentKnown, EntriesFilled,
                                  KeysInTime, Counted, Suspended, table
<1>5. CASE currChild # None
  <2>. DEFINE c == PT[currChild].pid
  <2>1. currChild \in Slots /\ c \in {0} \union Pids
    BY <1>2, <1>5 DEF Types
  <2>2. CASE sig = "INT"
    <3>1. /\ PT' = [PT EXCEPT ![currChild].status = "TERMINATED"] /\ currChild' = None
          /\ numSuspended' = numSuspended /\ Kill(c, "KILL", s)
      BY <1>1, <1>5, <2>2 DEF parentSigHandler
    <3>2. c # 0 /\ struck' = s /\ pc' = pc /\ proc' = [proc EXCEPT ![c] = Hit(@, "KILL")]
      BY <3>1 DEF Kill, KillGroup, Alive
    <3>3. \A i \in Slots : PT'[i].pid = PT[i].pid
      BY <1>2, <2>1, <3>1 DEF Types
    <3>4. Suspended' = Suspended \ {currChild}
      BY <1>2, <2>1, <3>1 DEF Types, Suspended
    <3>5. \A p \in Pids : /\ proc'[p] = "running" => proc[p] = "running"
                          /\ proc[p] = "none" => proc'[p] = "none"
      BY <1>2, <2>1, <3>2 DEF Types, Hit
    <3>6. ChildrenEntered'
      BY <1>1, <1>2, <3>2, <3>3, <3>5 DEF ChildrenEntered
    <3>7. RunningAwaited'
      <4>1. pc = "waitcont" => job \in Slots
        BY <1>2 DEF Types
      <4>. QED
        BY <1>1, <1>2, <3>2, <3>3, <3>5, <4>1 DEF RunningAwaited
    <3>8. CurrentKnown'
      BY <1>2, <1>5, <3>1, <3>2 DEF CurrentKnown, NotYetEntered
    <3>9. EntriesFilled'
      BY <1>1, <1>2, <3>2, <3>3, <3>4 DEF EntriesFilled, Types, AtWork, Suspended
    <3>10. KeysInTime'
      BY <1>1, <1>2, <1>3, <3>2 DEF KeysInTime
    <3>11. Counted'
      <4>1. pc \notin AtWork => Suspended' = Suspended
        BY <1>2, <1>5, <3>4 DEF CurrentKnown, Suspended
      <4>2. pc \in AtWork => Suspended' \ {job} = Suspended \ {job}
        BY <1>2, <1>5, <3>4 DEF CurrentKnown
      <4>. QED
        BY <1>1, <1>2, <3>1, <3>2, <4>1, <4>2 DEF Counted
    <3>. QED
      BY <3>6, <3>7, <3>8, <3>9, <3>10, <3>11 DEF TableFacts
  <2>3. CASE sig = "TSTP"
    <3>1. /\ PT' = [PT EXCEPT ![currChild].status = "SUSPENDED"] /\ currChild' = None
          /\ numSuspended' = numSuspended + 1 /\ Kill(c, "TSTP", s) /\ pc = "wait"
      BY <1>1, <1>5, <2>3 DEF parentSigHandler
    <3>2. /\ c # 0 /\ pc' = pc
          /\ proc' = proc \/ proc' = [proc EXCEPT ![c] = Hit(@, "TSTP")]
      BY <1>2, <1>5, <3>1 DEF Kill, CurrentKnown
    <3>3. \A i \in Slots : PT'[i].pid = PT[i].pid
      BY <1>2, <2>1, <3>1 DEF Types
    <3>4. Suspended' = Suspended \union {currChild} /\ currChild \notin Suspended
      BY <1>2, <1>5, <2>1, <3>1 DEF Types, Suspended, CurrentKnown, AtWork
    <3>5. \A p \in Pids : /\ proc'[p] = "running" => proc[p] = "running"
                          /\ proc[p] = "none" => proc'[p] = "none"
      BY <1>2, <2>1, <3>2 DEF Types, Hit
    <3>6. ChildrenEntered'
      BY <1>1, <1>2, <3>2, <3>3, <3>5 DEF ChildrenEntered
    <3>7. RunningAwaited' /\ CurrentKnown'
      BY <1>1, <1>2, <3>1, <3>2, <3>5 DEF RunningAwaited, CurrentKnown, AtWork
    <3>8. EntriesFilled'
      BY <1>2, <3>1, <3>2, <3>3, <3>4 DEF EntriesFilled, AtWork, Suspended
    <3>9. KeysInTime'
      BY <1>1, <1>2, <3>1, <3>2 DEF KeysInTime
    <3>10. Counted'
      <4>1. Cardinality(Suspended') = Cardinality(Suspended) + 1
        BY <2>1, <3>4, SlotsFinite DEF Suspended
      <4>. QED
        BY <1>2, <3>1, <3>2, <4>1 DEF Counted, AtWork
    <3>. QED
      BY <3>6, <3>7, <3>8, <3>9, <3>10 DEF TableFacts
  <2>. QED
    BY <2>2, <2>3 DEF Keys
<1>. QED
  BY <1>4, <1>5

LEMMA TableChild ==
  ASSUME IInv, TableFacts, Alive', Child
  PROVE  TableFacts'
<1>1. Types /\ KeysInTime
  BY DEF IInv, TableFacts
<1>2. CASE ChildFindsSlot \/ ChildExecs
  BY <1>2, ProcessesOnly DEF ChildFindsSlot, ChildExecs
<1>3. ASSUME NEW sig \in Keys, ChildHandles(sig)
      PROVE  TableFacts'
  <2>1. /\ proc[pid] = "running" /\ pid \in Pids /\ sig \in struck /\ IsCopy
        /\ UNCHANGED <<job, pid, grouped>>
    BY <1>1, <1>3 DEF ChildHandles, Runs, Types
  <2>2. /\ struck' \subseteq struck /\ UNCHANGED <<pc, table>>
        /\ proc' = proc \/ proc' = [proc EXCEPT ![pid] = "zombie"]
    BY <1>1, <1>3, <2>1 DEF ChildHandles, KillGroup, Alive, KeysInTime, InGroup
  <2>3. \A p \in Pids : /\ proc'[p] = "running" => proc[p] = "running"
                        /\ proc[p] = "none" => proc'[p] = "none"
    BY <1>1, <2>1, <2>2 DEF Types
  <2>. QED
    BY <2>1, <2>2, <2>3, ProcessesOnly
<1>4. ASSUME NEW p \in Pids, JobEnds(p)
      PROVE  TableFacts'
  <2>1. \A q \in Pids : /\ proc'[q] = "running" => proc[q] = "running"
                        /\ proc[q] = "none" => proc'[q] = "none"
    BY <1>1, <1>4 DEF JobEnds, Types
  <2>. QED
    BY <1>4, <2>1, ProcessesOnly DEF JobEnds, child
<1>. QED
  BY <1>2, <1>3, <1>4 DEF Child

LEMMA TableMain ==
  ASSUME IInv, TypeOK, TableFacts, Alive', Main \/ Command
  PROVE  TableFacts'
<1>1. /\ ChildrenEntered /\ RunningAwaited /\ CurrentKnown /\ EntriesFilled /\ KeysInTime /\ Counted
      /\ Types /\ NotYetEntered /\ numSuspended \in Nat /\ pid \in {0} \union Pids
  BY DEF TableFacts, IInv, TypeOK, Types
<1>2. Suspended \in SUBSET Slots /\ \A p \in Pids : p \in Nat \ {0}
  BY BoundsAssumption DEF Suspended, Pids
<1>. USE DEF TableFacts, AtWork
<1>3. CASE Exit
  BY <1>3 DEF Exit, Alive
<1>4. CASE Fork
  <2>1. /\ pc = "prompt" /\ pc' = "find" /\ pid' = pid + 1 /\ pid' \in Pids
        /\ proc' = [proc EXCEPT ![pid + 1] = "running"] /\ struck' = {} /\ UNCHANGED <<table, job>>
    BY <1>1, <1>4, BoundsAssumption DEF Fork, Pids
  <2>2. \A p \in Pids \ {pid'} : proc'[p] = proc[p]
    BY <1>1, <2>1 DEF Types
  <2>3. ChildrenEntered'
    BY <1>1, <2>1, <2>2, BoundsAssumption DEF ChildrenEntered, Starting, table, Pids
  <2>4. RunningAwaited'
    BY <1>1, <2>1, <2>2 DEF RunningAwaited, Starting
  <2>5. CurrentKnown' /\ EntriesFilled' /\ KeysInTime' /\ Counted'
    BY <1>1, <2>1 DEF CurrentKnown, EntriesFilled, KeysInTime, Counted, Suspended, table
  <2>. QED
    BY <2>3, <2>4, <2>5
<1>5. CASE FindSlot
  <2>1. PICK i \in Slots : PT[i].pid = 0 /\ currChild' = i
    BY <1>5 DEF FindSlot
  <2>2. /\ pc = "find" /\ pc' = "group" /\ UNCHANGED <<PT, numSuspended, job, pid, proc, struck, grouped>>
    BY <1>5 DEF FindSlot, child
  <2>3. PT[i].status # "SUSPENDED"
    BY <1>1, <2>1 DEF EntriesFilled, Suspended
  <2>4. ChildrenEntered' /\ RunningAwaited' /\ KeysInTime'
    BY <1>1, <2>2 DEF ChildrenEntered, RunningAwaited, KeysInTime, Starting
  <2>5. CurrentKnown'
    BY <2>1, <2>2, <2>3, BoundsAssumption DEF CurrentKnown, None, Slots
  <2>6. EntriesFilled' /\ Counted'
    BY <1>1, <2>2 DEF EntriesFilled, Counted, Suspended
  <2>. QED
    BY <2>4, <2>5, <2>6
<1>6. CASE SetGroup
  BY <1>1, <1>6 DEF SetGroup, ChildrenEntered, RunningAwaited, CurrentKnown, EntriesFilled, KeysInTime,
                    Counted, Suspended, Starting, table
<1>7. CASE Enter
  <2>1. /\ pc = "enter" /\ pc' = "wait" /\ currChild \in Slots /\ pid \in Pids
        /\ PT' = [PT EXCEPT ![currChild] = [pid |-> pid, status |-> "FINISHED"]]
        /\ UNCHANGED <<proc, currChild, numSuspended, job, pid, grouped, struck>>
    BY <1>1, <1>7 DEF Enter, CurrentKnown, NotYetEntered, Types, child
  <2>2. /\ PT'[currChild] = [pid |-> pid, status |-> "FINISHED"]
        /\ \A i \in Slots \ {currChild} : PT'[i] = PT[i]
    BY <1>1, <2>1 DEF Types
  <2>3. PT[currChild].pid = 0 /\ PT[currChild].status # "SUSPENDED"
    BY <1>1, <2>1 DEF NotYetEntered, CurrentKnown, None, Slots
  <2>4. Suspended' = Suspended
    BY <2>2, <2>3 DEF Suspended
  <2>5. ChildrenEntered'
    BY <1>1, <1>2, <2>1, <2>2, <2>3 DEF ChildrenEntered, Starting
  <2>6. EntriesFilled'
    BY <1>1, <1>2, <2>1, <2>2, <2>4 DEF EntriesFilled
  <2>7. CurrentKnown'
    BY <1>2, <2>1, <2>2 DEF CurrentKnown
  <2>8. RunningAwaited' /\ KeysInTime' /\ Counted'
    BY <1>1, <2>1, <2>4 DEF RunningAwaited, KeysInTime, Counted, Starting
  <2>. QED
    BY <2>5, <2>6, <2>7, <2>8
<1>8. CASE Wait
  <2>1. /\ pc = "wait" /\ pc' = "reset" /\ proc[pid] \in {"stopped", "zombie"}
        /\ proc' \in {proc, [proc EXCEPT ![pid] = "reaped"]} /\ UNCHANGED <<table, job, pid, child>>
    BY <1>1, <1>8 DEF Wait, Types
  <2>2. \A p \in Pids : proc'[p] # "running" /\ (proc[p] = "none" => proc'[p] = "none")
    BY <1>1, <2>1 DEF RunningAwaited, Types
  <2>. QED
    BY <1>1, <2>1, <2>2 DEF ChildrenEntered, RunningAwaited, CurrentKnown, EntriesFilled, KeysInTime,
                            Counted, Suspended, Starting, table, child
<1>9. CASE ResetChild
  BY <1>1, <1>9 DEF ResetChild, ChildrenEntered, RunningAwaited, CurrentKnown, EntriesFilled, KeysInTime,
                    Counted, Suspended, Starting, child
<1>10. CASE Ask("continue?") \/ Ask("kill?")
  BY <1>1, <1>10 DEF Ask, ChildrenEntered, RunningAwaited, CurrentKnown, EntriesFilled, KeysInTime,
                     Counted, Suspended, Starting, table, child
<1>11. CASE Pick("continue?", "cont") \/ Pick("kill?", "kill")
  <2>1. PICK i \in Slots :
          /\ pc \in {"continue?", "kill?"} /\ UNCHANGED <<PT, numSuspended, pid, proc, child>>
          /\ \/ /\ PT[i].status = "SUSPENDED" /\ job' = i /\ currChild' = i /\ pc' \in {"cont", "kill"}
             \/ pc' = "prompt" /\ UNCHANGED <<job, currChild>>
    BY <1>11 DEF Pick
  <2>2. ChildrenEntered' /\ RunningAwaited' /\ KeysInTime'
    BY <1>1, <2>1 DEF ChildrenEntered, RunningAwaited, KeysInTime, Starting, child
  <2>3. CurrentKnown' /\ EntriesFilled'
    BY <1>1, <2>1 DEF CurrentKnown, EntriesFilled, Suspended
  <2>4. Counted'
    <3>1. i \in Suspended => Cardinality(Suspended \ {i}) + 1 = Cardinality(Suspended)
      BY <1>2, SlotsFinite
    <3>. QED
      BY <1>1, <2>1, <3>1 DEF Counted, Suspended
  <2>. QED
    BY <2>2, <2>3, <2>4
<1>12. CASE SendCont
  <2>1. /\ pc = "cont" /\ pc' = "waitcont" /\ job \in Slots /\ PT[job].pid \in Pids
        /\ proc' = [proc EXCEPT ![PT[job].pid] = Hit(@, "CONT")] /\ UNCHANGED <<table, job, pid, child>>
    BY <1>1, <1>12 DEF SendCont, EntriesFilled, Types
  <2>2. /\ \A p \in Pids \ {PT[job].pid} : proc'[p] = proc[p]
        /\ proc[PT[job].pid] = "none" => proc'[PT[job].pid] = "none"
    BY <1>1, <2>1 DEF Types, Hit
  <2>3. ChildrenEntered' /\ RunningAwaited'
    BY <1>1, <2>1, <2>2 DEF ChildrenEntered, RunningAwaited, Starting, table
  <2>. QED
    BY <1>1, <2>1, <2>3 DEF CurrentKnown, EntriesFilled, KeysInTime, Counted, Suspended, table, child
<1>13. CASE WaitCont
  <2>1. /\ pc = "waitcont" /\ pc' = "finish" /\ job \in Slots /\ PT[job].pid \in Pids
        /\ proc[PT[job].pid] \in {"zombie", "reaped"}
        /\ proc' = [proc EXCEPT ![PT[job].pid] = "reaped"] /\ UNCHANGED <<table, job, pid, child>>
    BY <1>1, <1>13 DEF WaitCont, EntriesFilled, Types
  <2>2. \A p \in Pids : proc'[p] # "running" /\ (proc[p] = "none" => proc'[p] = "none")
    BY <1>1, <2>1 DEF RunningAwaited, Types, Starting
  <2>. QED
    BY <1>1, <2>1, <2>2 DEF ChildrenEntered, RunningAwaited, CurrentKnown, EntriesFilled, KeysInTime,
                            Counted, Suspended, Starting, table, child
<1>14. CASE SendKill
  <2>1. /\ pc = "kill" /\ pc' = "mark" /\ job \in Slots /\ PT[job].pid \in Pids
        /\ proc' = [proc EXCEPT ![PT[job].pid] = Hit(@, "KILL")] /\ UNCHANGED <<table, job, pid, child>>
    BY <1>1, <1>14 DEF SendKill, KillGroup, Alive, EntriesFilled, Types
  <2>2. \A p \in Pids : proc'[p] # "running" /\ (proc[p] = "none" => proc'[p] = "none")
    BY <1>1, <2>1 DEF RunningAwaited, Types, Starting, Hit
  <2>. QED
    BY <1>1, <2>1, <2>2 DEF ChildrenEntered, RunningAwaited, CurrentKnown, EntriesFilled, KeysInTime,
                            Counted, Suspended, Starting, table, child
<1>15. CASE Finish \/ MarkKilled
  <2>1. PICK status \in {"FINISHED", "TERMINATED"} :
          /\ pc \in {"finish", "mark"} /\ pc' = "prompt" /\ job \in Slots
          /\ PT' = [PT EXCEPT ![job].status = status] /\ numSuspended' = numSuspended - 1
          /\ UNCHANGED <<currChild, job, pid, proc, child>>
    BY <1>1, <1>15 DEF Finish, MarkKilled, Types
  <2>2. /\ \A i \in Slots : PT'[i].pid = PT[i].pid
        /\ PT'[job].status # "SUSPENDED"
        /\ Suspended' = Suspended \ {job}
    BY <1>1, <2>1 DEF Types, Suspended
  <2>3. ChildrenEntered' /\ RunningAwaited' /\ KeysInTime'
    BY <1>1, <2>1, <2>2 DEF ChildrenEntered, RunningAwaited, KeysInTime, Starting, child
  <2>4. CurrentKnown' /\ EntriesFilled'
    BY <1>1, <1>2, <2>1, <2>2 DEF CurrentKnown, EntriesFilled
  <2>5. Counted'
    <3>1. Cardinality(Suspended \ {job}) \in Nat
      BY <1>2, SlotsFinite
    <3>. QED
      BY <1>1, <2>1, <2>2, <3>1 DEF Counted
  <2>. QED
    BY <2>3, <2>4, <2>5
<1>. QED
  BY <1>3, <1>4, <1>5, <1>6, <1>7, <1>8, <1>9, <1>10, <1>11, <1>12, <1>13, <1>14, <1>15 DEF Main, Command

LEMMA TableInvariance == Spec => []TableInv
<1>1. Init => TableInv
  <2>. SUFFICES ASSUME Init PROVE TableFacts
    BY DEF TableInv
  <2>1. Suspended = {}
    BY DEF Init, Suspended, Empty
  <2>2. Counted
    BY <2>1, FS_EmptySet DEF Init, Counted, AtWork
  <2>. QED
    BY <2>1, <2>2, BoundsAssumption DEF Init, TableFacts, ChildrenEntered, RunningAwaited, CurrentKnown,
                                        EntriesFilled, KeysInTime, AtWork, Pids
<1>2. IInv /\ CountInv /\ TableInv /\ [Next]_vars => TableInv'
  <2>. SUFFICES ASSUME IInv, CountInv, TableInv, [Next]_vars, careful', Alive' PROVE TableFacts'
    BY DEF TableInv
  <2>1. CASE UNCHANGED vars
    BY <2>1 DEF vars, table, child, user, TableInv, Alive, TableFacts, ChildrenEntered, RunningAwaited,
                CurrentKnown, EntriesFilled, KeysInTime, Counted, Suspended
  <2>2. CASE Next
    <3>1. careful /\ Alive
      <4>1. careful' = careful
        BY <2>2 DEF Next, Press, Child, ChildFindsSlot, ChildHandles, ChildExecs, JobEnds, Command, Exit, Fork,
           Ask, Main, FindSlot, SetGroup, Enter, Wait, ResetChild, Pick, SendCont, WaitCont, Finish, SendKill,
           MarkKilled, user
      <4>2. pc \in {"exited", "killed"} => pc' = pc
        BY <2>2 DEF Next, Press, Child, ChildFindsSlot, ChildHandles, ChildExecs, JobEnds, Command, Exit, Fork,
           Ask, Main, FindSlot, SetGroup, Enter, Wait, ResetChild, Pick, SendCont, WaitCont, Finish, SendKill,
           MarkKilled, Alive
      <4>. QED
        BY <4>1, <4>2 DEF Alive
    <3>2. TableFacts /\ TypeOK
      BY <3>1 DEF TableInv, CountInv
    <3>. QED
      BY <2>2, <3>1, <3>2, TablePress, TableChild, TableMain DEF Next
  <2>. QED
    BY <2>1, <2>2
<1>. QED
  BY <1>1, <1>2, Invariance, CountInvariance, PTL DEF Spec

(* At the prompt no job runs, each child not yet reaped has an entry, and    *)
(* numSuspended counts the suspended entries, for a table of any size, any   *)
(* number of jobs and ^C at any moment, if ^Z is pressed only while main     *)
(* waits for a new job (mgr.c:42, 106-202).                                  *)
THEOREM TableRightAlways == Spec => []TableRight
<1>1. IInv /\ TableInv => TableRight
  <2>. SUFFICES ASSUME IInv, TableInv, pc = "prompt", careful
                PROVE  /\ \A p \in Pids : proc[p] # "running"
                       /\ \A p \in Pids : proc[p] \in {"stopped", "zombie"} => \E i \in Slots : PT[i].pid = p
                       /\ numSuspended = Cardinality(Suspended)
    BY DEF TableRight
  <2>1. ChildrenEntered /\ RunningAwaited /\ Counted
    BY DEF TableInv, Alive, TableFacts
  <2>. QED
    BY <2>1 DEF ChildrenEntered, RunningAwaited, Counted, Starting, AtWork
<1>. QED
  BY <1>1, Invariance, TableInvariance, PTL
=============================================================================
