-------------------------------- MODULE LocalLru --------------------------------
(***************************************************************************)
(* Page replacement of A8 without timestamps, frame numbers or the free    *)
(* frame list: for every process the pages it has in memory, least         *)
(* recently used first, and the number of free frames.  The operations of  *)
(* PageTables implement these one by one; DemandPaging is built on them.   *)
(***************************************************************************)
EXTENDS Integers, Sequences, SequencesExt

CONSTANTS K,        \* number of processes
          M,        \* pages in a virtual address space
          F         \* number of frames

Proc == 0 .. K - 1
Page == 0 .. M - 1

VARIABLES serving,  \* the initial allocation is over
          nfree,    \* number of free frames
          resident  \* resident[p]: pages of p in memory, the next victim first

memory  == <<nfree, resident>>
lruVars == <<serving, nfree, resident>>

InMemory(p, g) == Contains(resident[p], g)

LruInit == /\ serving = FALSE
           /\ nfree = F
           /\ resident = [p \in Proc |-> <<>>]

(* At start-up process p gets frames for its pages 0 .. n - 1. *)
Allot(p, n) == /\ resident[p] = <<>>
               /\ n <= nfree
               /\ resident' = [resident EXCEPT ![p] = [j \in 1 .. n |-> j - 1]]
               /\ nfree' = nfree - n

(* Page g of p is used and becomes its most recently used page. *)
Touch(p, g) == \E i \in DOMAIN resident[p] :
                 /\ resident[p][i] = g
                 /\ resident' = [resident EXCEPT ![p] = Append(RemoveAt(@, i), g)]
                 /\ UNCHANGED nfree

(* Wrong variant of LoadFree: the new page counts as the least recently used. *)
LoadFreeUntimed(p, g) == /\ ~ InMemory(p, g)
                         /\ nfree > 0
                         /\ resident' = [resident EXCEPT ![p] = <<g>> \o @]
                         /\ nfree' = nfree - 1

LoadFree(p, g) == /\ ~ InMemory(p, g)
                  /\ nfree > 0
                  /\ resident' = [resident EXCEPT ![p] = Append(@, g)]
                  /\ nfree' = nfree - 1

(* Without a free frame the least recently used page of p gives way. *)
Evict(p, g) == /\ ~ InMemory(p, g)
               /\ nfree = 0
               /\ resident[p] # <<>>
               /\ resident' = [resident EXCEPT ![p] = Append(Tail(@), g)]
               /\ UNCHANGED nfree

(* A process that holds no frame gets none when none is free. *)
LoadNothing(p, g) == /\ resident[p] = <<>>
                     /\ nfree = 0
                     /\ UNCHANGED memory

HandleFault(p, g) == LoadFree(p, g) \/ Evict(p, g) \/ LoadNothing(p, g)

ReleasePages(p) == /\ nfree' = nfree + Len(resident[p])
                   /\ resident' = [resident EXCEPT ![p] = <<>>]
================================================================================
