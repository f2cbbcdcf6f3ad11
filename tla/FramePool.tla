------------------------------- MODULE FramePool -------------------------------
(***************************************************************************)
(* What the frame bookkeeping of A8 promises, without page tables: the f   *)
(* frames are divided between a pool of free frames and the processes that *)
(* hold them.  Frames leave the pool for one process at a time and come    *)
(* back only when that process gives up everything it holds, so a frame    *)
(* never passes from one process to another (page replacement is local).   *)
(***************************************************************************)
EXTENDS Integers

CONSTANTS Proc,    \* the processes
          Frame    \* the frames of physical memory

VARIABLES pool,    \* the free frames
          held     \* held[p]: the frames process p holds

vars == <<pool, held>>

TypeOK == /\ pool \subseteq Frame
          /\ held \in [Proc -> SUBSET Frame]

Init == /\ pool = Frame
        /\ held = [p \in Proc |-> {}]

(* Process p takes the frames fs out of the pool. *)
Acquire(p, fs) == /\ fs # {}
                  /\ fs \subseteq pool
                  /\ pool' = pool \ fs
                  /\ held' = [held EXCEPT ![p] = @ \cup fs]

(* Process p returns everything it holds. *)
Release(p) == /\ held[p] # {}
              /\ pool' = pool \cup held[p]
              /\ held' = [held EXCEPT ![p] = {}]

Next == \E p \in Proc : \/ \E fs \in SUBSET Frame : Acquire(p, fs)
                        \/ Release(p)

Spec == Init /\ [][Next]_vars

--------------------------------------------------------------------------------
(* Every frame is in exactly one place: the pool or one process (what master.c *)
(* and mmu.c keep in SM2 and in the frame fields of SM1).                      *)
Partition ==
  /\ \A p \in Proc : pool \cap held[p] = {}
  /\ \A p, q \in Proc : p # q => held[p] \cap held[q] = {}
  /\ \A f \in Frame : f \in pool \/ \E p \in Proc : f \in held[p]
================================================================================
