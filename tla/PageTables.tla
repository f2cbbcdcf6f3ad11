------------------------------ MODULE PageTables ------------------------------
(***************************************************************************)
(* The memory shared by master.c and mmu.c of A8: the page tables SM1, the *)
(* free frame list SM2 and the MMU's timestamp `count'.                    *)
(*                                                                         *)
(* master.c first sums the m_i (phase "sum") and hands out frames in       *)
(* proportion (phase "allocate"), one action per loop iteration; after the *)
(* fork only mmu.c writes this memory, one request at a time, so in phase  *)
(* "serve" the whole handling of one message is one action.  Requests are  *)
(* unconstrained: any process may ask for any page at any time, so what    *)
(* holds here holds whatever processes and scheduler do.                   *)
(***************************************************************************)
EXTENDS Integers, FiniteSets, Sequences

CONSTANTS K,        \* number of processes (k)
          M,        \* pages in a virtual address space (m)
          F,        \* frames of physical memory (f)
          MaxCount  \* bound on the MMU's timestamp, which the code never stops

ASSUME SizeAssumption == /\ K \in Nat \ {0}
                         /\ M \in Nat \ {0}
                         /\ F \in Nat
                         /\ MaxCount \in Nat

Proc  == 0 .. K - 1
Page  == 0 .. M - 1
Frame == 0 .. F - 1

NoFrame == -1   \* PT[j].frame of a page that is not in memory
EndMark == -1   \* SM2[f], which ends the scan of the free frame list

VARIABLES
  phase,           \* "sum", "allocate" (master.c) or "serve" (mmu.c)
  next,            \* the loop variable i of master's loops
  m_i,             \* m_i[p]: number of pages process p may use
  cumulative_m_i,  \* cumulative_m_i[i]: the sum before iteration i of its loop
  frame_num,       \* the first frame not yet handed out by master
  frame,           \* frame[p][g]: SM1[p].PT[g].frame
  lru_ctr,         \* lru_ctr[p][g]: SM1[p].PT[g].lru_ctr
  SM2,             \* the free frame list: 1 free, 0 occupied, EndMark at F
  count            \* the MMU's timestamp

setupVars == <<next, m_i, cumulative_m_i, frame_num>>
vars == <<phase, next, m_i, cumulative_m_i, frame_num, frame, lru_ctr, SM2, count>>

TypeOK ==
  /\ phase \in {"sum", "allocate", "serve"}
  /\ next \in 0 .. K
  /\ m_i \in [Proc -> 1 .. M]
  /\ cumulative_m_i \in [0 .. K -> Nat]
  /\ frame_num \in 0 .. F
  /\ frame \in [Proc -> [Page -> Frame \cup {NoFrame}]]
  /\ lru_ctr \in [Proc -> [Page -> Nat]]
  /\ SM2 \in [0 .. F -> {0, 1, EndMark}]
  /\ count \in Nat

--------------------------------------------------------------------------------
(* master.c *)

Init == /\ phase = "sum"
        /\ next = 0
        /\ m_i \in [Proc -> 1 .. M]
        /\ cumulative_m_i = [i \in 0 .. K |-> 0]
        /\ frame_num = 0
        /\ frame = [p \in Proc |-> [g \in Page |-> NoFrame]]
        /\ lru_ctr = [p \in Proc |-> [g \in Page |-> 0]]
        /\ SM2 = [f \in 0 .. F |-> IF f = F THEN EndMark ELSE 1]
        /\ count = 0

(* One iteration of the loop that computes the sum of the m_i. *)
AddDemand ==
  /\ phase = "sum"
  /\ next < K
  /\ cumulative_m_i' = [cumulative_m_i EXCEPT ![next + 1] = cumulative_m_i[next] + m_i[next]]
  /\ next' = next + 1
  /\ UNCHANGED <<phase, m_i, frame_num, frame, lru_ctr, SM2, count>>

StartAllocation ==
  /\ phase = "sum"
  /\ next = K
  /\ phase' = "allocate"
  /\ next' = 0
  /\ UNCHANGED <<m_i, cumulative_m_i, frame_num, frame, lru_ctr, SM2, count>>

(* page_frames, process p's share; the inner loop also stops at m_i. *)
Share(p) == (m_i[p] * F) \div cumulative_m_i[K]
Allotted(p) == IF Share(p) < m_i[p] THEN Share(p) ELSE m_i[p]

(* One iteration of the loop that allots consecutive frames to a process. *)
AllotFrames ==
  /\ phase = "allocate"
  /\ next < K
  /\ LET n == Allotted(next) IN
       /\ frame' = [frame EXCEPT ![next] =
                      [g \in Page |-> IF g < n THEN frame_num + g ELSE frame[next][g]]]
       /\ SM2' = [f \in 0 .. F |->
                    IF frame_num <= f /\ f < frame_num + n THEN 0 ELSE SM2[f]]
       /\ frame_num' = frame_num + n
  /\ next' = next + 1
  /\ UNCHANGED <<phase, m_i, cumulative_m_i, lru_ctr, count>>

ForkMMU ==
  /\ phase = "allocate"
  /\ next = K
  /\ phase' = "serve"
  /\ UNCHANGED <<setupVars, frame, lru_ctr, SM2, count>>

--------------------------------------------------------------------------------
(* mmu.c *)

(* The pages in memory, as the MMU's loops over 0 .. m_i - 1 find them. *)
Resident(p) == {g \in Page : g < m_i[p] /\ frame[p][g] # NoFrame}
Held(p)     == {frame[p][g] : g \in Resident(p)}

(* Every message received advances the timestamp, which is the lru_ctr given. *)
Tick == /\ phase = "serve"
        /\ count < MaxCount
        /\ count' = count + 1
        /\ UNCHANGED <<phase, setupVars>>

(* Wrong variant of ReleaseAll: the free frame list is forgotten. *)
ReleaseAllLeaking(p) ==
  /\ frame' = [frame EXCEPT ![p] =
                 [g \in Page |-> IF g \in Resident(p) THEN NoFrame ELSE frame[p][g]]]
  /\ UNCHANGED <<SM2, lru_ctr>>

(* The loop that frees all frames of process p. *)
ReleaseAll(p) ==
  /\ SM2' = [f \in 0 .. F |-> IF f \in Held(p) THEN 1 ELSE SM2[f]]
  /\ frame' = [frame EXCEPT ![p] =
                 [g \in Page |-> IF g \in Resident(p) THEN NoFrame ELSE frame[p][g]]]
  /\ lru_ctr' = [lru_ctr EXCEPT ![p] =
                   [g \in Page |-> IF g \in Resident(p) THEN 0 ELSE lru_ctr[p][g]]]

(* Page number -9: the process has completed its reference string. *)
Complete(p) == Tick /\ ReleaseAll(p)

(* The pages a process may ask for. *)
IsLegal(p, g) == g < m_i[p]

(* A page the process does not have: it is to be terminated. *)
InvalidReference(p, g) == /\ ~ IsLegal(p, g)
                          /\ Tick
                          /\ ReleaseAll(p)

(* Wrong variant of Hit: the use is not recorded. *)
HitUntimed(p, g) == /\ IsLegal(p, g)
                    /\ frame[p][g] # NoFrame
                    /\ Tick
                    /\ UNCHANGED <<frame, lru_ctr, SM2>>

(* The page is in memory: its frame number is the answer. *)
Hit(p, g) == /\ IsLegal(p, g)
             /\ frame[p][g] # NoFrame
             /\ Tick
             /\ lru_ctr' = [lru_ctr EXCEPT ![p][g] = count']
             /\ UNCHANGED <<frame, SM2>>

PageFault(p, g) == /\ IsLegal(p, g)
                   /\ frame[p][g] = NoFrame
                   /\ Tick

(* The scan of SM2 stops at f: the first free frame, or the end mark. *)
ScanStopsAt(f) == /\ SM2[f] # 0
                  /\ \A e \in 0 .. f - 1 : SM2[e] = 0

(* Wrong variant of LoadIntoFreeFrame: the frame stays marked free. *)
LoadLeavingFrameFree(p, g) ==
  \E f \in 0 .. F :
    /\ ScanStopsAt(f)
    /\ SM2[f] = 1
    /\ PageFault(p, g)
    /\ frame' = [frame EXCEPT ![p][g] = f]
    /\ lru_ctr' = [lru_ctr EXCEPT ![p][g] = count']
    /\ UNCHANGED SM2

(* The handler loads the page into the first free frame. *)
LoadIntoFreeFrame(p, g) ==
  \E f \in 0 .. F :
    /\ ScanStopsAt(f)
    /\ SM2[f] = 1
    /\ PageFault(p, g)
    /\ frame' = [frame EXCEPT ![p][g] = f]
    /\ lru_ctr' = [lru_ctr EXCEPT ![p][g] = count']
    /\ SM2' = [SM2 EXCEPT ![f] = 0]

NoFreeFrame == \E f \in 0 .. F : ScanStopsAt(f) /\ SM2[f] = EndMark

(* The victim: least lru_ctr, the lowest page where several are equal. *)
IsVictim(p, v) ==
  /\ v \in Resident(p)
  /\ \A g \in Resident(p) : \/ lru_ctr[p][v] < lru_ctr[p][g]
                            \/ lru_ctr[p][v] = lru_ctr[p][g] /\ v <= g

(* Wrong variant of ReplaceLocally: the victim may belong to any process. *)
ReplaceGlobally(p, g) ==
  \E q \in Proc, v \in Page :
    /\ NoFreeFrame
    /\ IsVictim(q, v)
    /\ PageFault(p, g)
    /\ frame' = [frame EXCEPT ![p][g] = frame[q][v], ![q][v] = NoFrame]
    /\ lru_ctr' = [lru_ctr EXCEPT ![p][g] = count']
    /\ UNCHANGED SM2

(* No frame is free: the page takes the frame of a page of the same process. *)
ReplaceLocally(p, g) ==
  \E v \in Page :
    /\ NoFreeFrame
    /\ IsVictim(p, v)
    /\ PageFault(p, g)
    /\ frame' = [frame EXCEPT ![p] = [@ EXCEPT ![g] = frame[p][v], ![v] = NoFrame]]
    /\ lru_ctr' = [lru_ctr EXCEPT ![p][g] = count']
    /\ UNCHANGED SM2

(* No frame is free and the process holds none: nothing is loaded. *)
NothingToReplace(p, g) == /\ NoFreeFrame
                          /\ Resident(p) = {}
                          /\ PageFault(p, g)
                          /\ UNCHANGED <<frame, lru_ctr, SM2>>

Request(p, g) == \/ InvalidReference(p, g)
                 \/ Hit(p, g)
                 \/ LoadIntoFreeFrame(p, g)
                 \/ ReplaceLocally(p, g)
                 \/ NothingToReplace(p, g)

Next == \/ AddDemand
        \/ StartAllocation
        \/ AllotFrames
        \/ ForkMMU
        \/ \E p \in Proc : Complete(p) \/ \E g \in Page : Request(p, g)

Spec == Init /\ [][Next]_vars

--------------------------------------------------------------------------------
(* Properties *)

(* No frame is mapped by two pages, of the same process or of different ones: *)
(* a loaded page is never overwritten through another entry of the tables.    *)
FramesExclusive ==
  \A p, q \in Proc : \A g, h \in Page :
    frame[p][g] # NoFrame /\ frame[p][g] = frame[q][h] => p = q /\ g = h

(* The free frame list is exact: an entry is 1 if and only if no page maps the *)
(* frame, so none is leaked and none is given away while in use; and the end   *)
(* mark that stops the scan is still there.                                    *)
FreeListExact ==
  /\ \A f \in Frame : SM2[f] = 1 <=> ~ \E p \in Proc, g \in Page : frame[p][g] = f
  /\ SM2[F] = EndMark

(* Only pages a process has (below m_i) are ever in memory, so the loops of the *)
(* MMU that stop at m_i reach every frame the process holds.                    *)
OnlyLegalPages ==
  \A p \in Proc : \A g \in Page : frame[p][g] # NoFrame => g < m_i[p]

(* What master's two loops keep while they run: the frames handed out so far are *)
(* those below frame_num, in proportion to the demand summed so far, so that      *)
(* frame_num cannot pass f (SM2[frame_num] = 0 would overwrite the end mark).     *)
Summed == IF phase = "sum" THEN next ELSE K

SetupInv ==
  /\ cumulative_m_i[0] = 0
  /\ \A i \in Proc : (phase = "sum" => i < next)
                     => cumulative_m_i[i + 1] = cumulative_m_i[i] + m_i[i]
  /\ cumulative_m_i[Summed] >= Summed
  /\ \A i \in 0 .. Summed : cumulative_m_i[i] <= cumulative_m_i[Summed]
  /\ phase = "sum" => frame_num = 0
  /\ phase = "allocate" => frame_num * cumulative_m_i[K] <= F * cumulative_m_i[next]
  /\ phase # "serve" =>
       /\ \A p \in Proc : \A g \in Page :
            frame[p][g] # NoFrame => p < next /\ phase = "allocate" /\ frame[p][g] < frame_num
       /\ \A f \in Frame : SM2[f] = 1 <=> f >= frame_num

(* The inductive invariant of Spec. *)
IInv == TypeOK /\ SetupInv /\ FramesExclusive /\ FreeListExact /\ OnlyLegalPages

(* Seen as a pool and the frames each process holds, the tables do what        *)
(* FramePool allows: frames leave the pool for one process and come back from   *)
(* it all together; replacement never takes a frame from another process.       *)
FreeFrames == {f \in Frame : SM2[f] = 1}
HeldBy     == [p \in Proc |-> Held(p)]

Pool == INSTANCE FramePool WITH pool <- FreeFrames, held <- HeldBy

FramePoolSpec == Pool!Spec

(* The order in which the MMU would choose the pages of p as victims. *)
Before(c, g, h) == c[g] < c[h] \/ (c[g] = c[h] /\ g < h)

Sorted(S, c) == CHOOSE s \in [1 .. Cardinality(S) -> S] :
                  \A i, j \in DOMAIN s : i < j => Before(c, s[i], s[j])

EvictionOrder(p) == Sorted(Resident(p), lru_ctr[p])

Lru == INSTANCE LocalLru WITH serving  <- phase = "serve",
                              nfree    <- Cardinality(FreeFrames),
                              resident <- [p \in Proc |-> EvictionOrder(p)]

(* The counters order the pages of a process by their last use: what master hands *)
(* out, and every operation of the MMU, does to the order of victims what a        *)
(* least-recently-used list of the process's own pages would undergo.              *)
OperationsAreLru ==
  [][/\ AllotFrames => Lru!Allot(next, Allotted(next))
     /\ \A p \in Proc :
          /\ Complete(p) => Lru!ReleasePages(p)
          /\ \A g \in Page :
               /\ InvalidReference(p, g) => Lru!ReleasePages(p)
               /\ Hit(p, g)              => Lru!Touch(p, g)
               /\ LoadIntoFreeFrame(p, g) => Lru!LoadFree(p, g)
               /\ ReplaceLocally(p, g)    => Lru!Evict(p, g)
               /\ NothingToReplace(p, g)  => Lru!LoadNothing(p, g)]_vars
================================================================================
