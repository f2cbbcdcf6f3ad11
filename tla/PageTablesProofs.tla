---------------------------- MODULE PageTablesProofs ----------------------------
(***************************************************************************)
(* Proofs about PageTables, for every number of processes, pages and       *)
(* frames and every bound on the timestamp.                                *)
(***************************************************************************)
EXTENDS PageTables, FiniteSetTheorems, SequenceTheorems, WellFoundedInduction, TLAPS

USE DEF Proc, Page, Frame, NoFrame, EndMark

--------------------------------------------------------------------------------
(* Arithmetic of the proportional allocation *)

(* An integer quotient times its divisor does not exceed the dividend (the      *)
(* share of a process is such a quotient).                                      *)
LEMMA QuotientBound ==
  ASSUME NEW a \in Nat, NEW b \in Nat \ {0}
  PROVE  (a \div b) \in Nat /\ (a \div b) * b <= a
  BY SMTT(30)

(* If n frames serve the demand c and q more serve the demand d, then n + q      *)
(* serve c + d: the step of master's allocation loop.                           *)
LEMMA ShareStep ==
  ASSUME NEW S \in Nat, NEW n \in Nat, NEW q \in Nat, NEW c \in Nat, NEW d \in Nat, NEW f \in Nat,
         n * S <= f * c, q * S <= d * f
  PROVE  (n + q) * S <= f * (c + d)
  BY SMTT(30)

(* Frames handed out in proportion to part of the demand are no more than f.    *)
LEMMA ShareTotal ==
  ASSUME NEW S \in Nat \ {0}, NEW n \in Nat, NEW c \in Nat, NEW f \in Nat,
         n * S <= f * c, c <= S
  PROVE  n <= f
  BY SMTT(30)

(* Fewer frames need fewer demands. *)
LEMMA SmallerShare ==
  ASSUME NEW S \in Nat, NEW n \in Nat, NEW q \in Nat, NEW d \in Nat, q <= n, n * S <= d
  PROVE  q * S <= d
  BY SMTT(30)

--------------------------------------------------------------------------------
(* An entry of a page table is a frame or NoFrame. *)
LEMMA FrameRange ==
  ASSUME TypeOK, NEW p \in Proc, NEW g \in Page
  PROVE  frame[p][g] \in Frame \/ frame[p][g] = NoFrame
<1>1. frame \in [Proc -> [Page -> Frame \cup {NoFrame}]]
  BY DEF TypeOK
<1>2. frame[p] \in [Page -> Frame \cup {NoFrame}]
  BY <1>1
<1> QED
  BY <1>2

(* The invariant holds at the start.                                           *)
LEMMA InitIInv == Init => IInv
<1> SUFFICES ASSUME Init PROVE IInv
  OBVIOUS
<1> USE SizeAssumption DEF Init
<1>1. TypeOK
  BY DEF TypeOK
<1>2. SetupInv
  BY DEF SetupInv, Summed
<1>3. FramesExclusive /\ FreeListExact /\ OnlyLegalPages
  BY DEF FramesExclusive, FreeListExact, OnlyLegalPages
<1> QED
  BY <1>1, <1>2, <1>3 DEF IInv

(* The frames a process is allotted exist: the heart of master's second loop. *)
LEMMA AllotmentFits ==
  ASSUME IInv, phase = "allocate", next < K
  PROVE  /\ next \in Proc
         /\ Allotted(next) \in Nat
         /\ Allotted(next) <= m_i[next]
         /\ (frame_num + Allotted(next)) * cumulative_m_i[K] <= F * cumulative_m_i[next + 1]
         /\ frame_num + Allotted(next) <= F
<1> USE SizeAssumption
<1> DEFINE S == cumulative_m_i[K]
           q == Allotted(next)
<1>1. next \in Proc /\ m_i[next] \in Nat /\ S \in Nat \ {0} /\ F \in Nat /\ frame_num \in Nat
  <2>1. TypeOK /\ Summed = K /\ cumulative_m_i[K] >= K
    BY DEF IInv, SetupInv, Summed
  <2> QED
    BY <2>1 DEF TypeOK
<1>2. cumulative_m_i[next] \in Nat /\ cumulative_m_i[next + 1] \in Nat
  <2>1. next \in 0 .. K /\ next + 1 \in 0 .. K
    BY <1>1
  <2> QED
    BY <2>1 DEF IInv, TypeOK
<1>3. m_i[next] * F \in Nat
  BY <1>1
<1>4. Share(next) \in Nat /\ Share(next) * S <= m_i[next] * F
  BY <1>1, <1>3, QuotientBound DEF Share
<1>5. q \in Nat /\ q <= Share(next) /\ q <= m_i[next]
  BY <1>1, <1>4 DEF Allotted
<1>6. q * S <= m_i[next] * F
  BY <1>1, <1>3, <1>4, <1>5, SmallerShare
<1>7. cumulative_m_i[next + 1] = cumulative_m_i[next] + m_i[next]
  BY <1>1 DEF IInv, SetupInv
<1>8. frame_num * S <= F * cumulative_m_i[next]
  BY DEF IInv, SetupInv
<1>9. (frame_num + q) * S <= F * cumulative_m_i[next + 1]
  <2> HIDE DEF S, q
  <2> QED
    BY <1>1, <1>2, <1>5, <1>6, <1>7, <1>8, ShareStep
<1>10. cumulative_m_i[next + 1] <= S
  BY <1>1 DEF IInv, SetupInv, Summed
<1>11. frame_num + q <= F
  <2> HIDE DEF S, q
  <2>1. frame_num + q \in Nat
    BY <1>1, <1>5
  <2> QED
    BY <2>1, <1>1, <1>2, <1>9, <1>10, ShareTotal
<1> QED
  BY <1>1, <1>5, <1>9, <1>11

--------------------------------------------------------------------------------
(* The steps of master.c *)

(* One step of master's loop that sums the demands keeps it,                   *)
LEMMA AddDemandIInv == IInv /\ AddDemand => IInv'
<1> SUFFICES ASSUME IInv, AddDemand PROVE IInv'
  OBVIOUS
<1> USE SizeAssumption DEF IInv, AddDemand
<1>1. /\ next \in Proc /\ next \in 0 .. K /\ next + 1 \in 0 .. K
      /\ m_i[next] \in 1 .. M /\ cumulative_m_i[next] \in Nat
  BY DEF TypeOK
<1>2. cumulative_m_i[next] + m_i[next] \in Nat
  BY <1>1
<1>3. TypeOK'
  BY <1>1, <1>2 DEF TypeOK
<1>4. SetupInv'
  <2>1. cumulative_m_i'[next + 1] = cumulative_m_i[next] + m_i[next]
    BY <1>1 DEF TypeOK
  <2>2. \A i \in 0 .. next : cumulative_m_i'[i] = cumulative_m_i[i] /\ cumulative_m_i[i] \in Nat
    <3> TAKE i \in 0 .. next
    <3>1. i \in 0 .. K /\ i # next + 1
      BY <1>1
    <3> QED
      BY <3>1 DEF TypeOK
  <2>3. cumulative_m_i'[0] = 0
    BY <2>2, <1>1 DEF SetupInv
  <2>4. \A i \in Proc : i < next + 1 => cumulative_m_i'[i + 1] = cumulative_m_i'[i] + m_i[i]
    <3> TAKE i \in Proc
    <3>1. CASE i = next
      BY <3>1, <2>1, <2>2, <1>1
    <3>2. CASE i < next
      <4>1. i + 1 \in 0 .. next /\ i \in 0 .. next
        BY <3>2, <1>1
      <4>2. cumulative_m_i[i + 1] = cumulative_m_i[i] + m_i[i]
        BY <3>2 DEF SetupInv
      <4> QED
        BY <4>1, <4>2, <2>2
    <3> QED
      BY <3>1, <3>2, <1>1
  <2>5. cumulative_m_i'[next + 1] >= next + 1
    BY <2>1, <1>1 DEF SetupInv, Summed
  <2>6. \A i \in 0 .. next + 1 : cumulative_m_i'[i] <= cumulative_m_i'[next + 1]
    <3> TAKE i \in 0 .. next + 1
    <3>1. CASE i = next + 1
      BY <3>1, <2>1, <1>2
    <3>2. CASE i \in 0 .. next
      <4>1. cumulative_m_i[i] <= cumulative_m_i[next]
        BY <3>2 DEF SetupInv, Summed
      <4> QED
        BY <4>1, <3>2, <2>1, <2>2, <1>1
    <3> QED
      BY <3>1, <3>2, <1>1
  <2>7. /\ frame_num' = 0
        /\ \A p \in Proc : \A g \in Page : frame'[p][g] = NoFrame
        /\ \A f \in Frame : SM2'[f] = 1 <=> f >= frame_num'
    BY DEF SetupInv
  <2> QED
    BY <2>3, <2>4, <2>5, <2>6, <2>7 DEF SetupInv, Summed
<1>5. FramesExclusive' /\ FreeListExact' /\ OnlyLegalPages'
  BY DEF FramesExclusive, FreeListExact, OnlyLegalPages
<1> QED
  BY <1>3, <1>4, <1>5

(* so does leaving that loop,                                                  *)
LEMMA StartAllocationIInv == IInv /\ StartAllocation => IInv'
<1> SUFFICES ASSUME IInv, StartAllocation PROVE IInv'
  OBVIOUS
<1> USE SizeAssumption DEF IInv, StartAllocation
<1>1. TypeOK'
  <2>1. 0 \in 0 .. K /\ next' = 0 /\ phase' = "allocate"
        /\ UNCHANGED <<m_i, cumulative_m_i, frame_num, frame, lru_ctr, SM2, count>>
    OBVIOUS
  <2> HIDE DEF StartAllocation, Proc, Page, Frame
  <2> QED
    BY <2>1 DEF TypeOK
<1>2. SetupInv'
  BY DEF SetupInv, Summed, TypeOK
<1>3. FramesExclusive' /\ FreeListExact' /\ OnlyLegalPages'
  BY DEF FramesExclusive, FreeListExact, OnlyLegalPages
<1> QED
  BY <1>1, <1>2, <1>3

(* one step of the loop that hands out the shares,                             *)
LEMMA AllotFramesIInv == IInv /\ AllotFrames => IInv'
<1> SUFFICES ASSUME IInv, AllotFrames PROVE IInv'
  OBVIOUS
<1> USE SizeAssumption
<1> DEFINE n == Allotted(next)
<1>1. /\ next \in Proc /\ n \in Nat /\ n <= m_i[next]
      /\ (frame_num + n) * cumulative_m_i[K] <= F * cumulative_m_i[next + 1]
      /\ frame_num + n <= F
  BY AllotmentFits DEF AllotFrames
<1>2. /\ phase = "allocate" /\ phase' = "allocate"
      /\ next' = next + 1
      /\ frame' = [frame EXCEPT ![next] =
                     [g \in Page |-> IF g < n THEN frame_num + g ELSE frame[next][g]]]
      /\ SM2' = [f \in 0 .. F |-> IF frame_num <= f /\ f < frame_num + n THEN 0 ELSE SM2[f]]
      /\ frame_num' = frame_num + n
      /\ UNCHANGED <<m_i, cumulative_m_i, lru_ctr, count>>
  BY DEF AllotFrames
<1>0. TypeOK /\ SetupInv /\ FramesExclusive /\ FreeListExact /\ OnlyLegalPages
  BY DEF IInv
<1>3. m_i[next] \in 1 .. M /\ frame_num \in Nat
  BY <1>0, <1>1 DEF TypeOK
<1> HIDE DEF n
<1>4. \A p \in Proc : \A g \in Page :
        frame'[p][g] = IF p = next /\ g < n THEN frame_num + g ELSE frame[p][g]
  BY <1>0, <1>2, <1>3 DEF TypeOK
<1>5. \A p \in Proc : \A g \in Page :
        frame[p][g] # NoFrame => p < next /\ frame[p][g] < frame_num /\ frame[p][g] \in Frame
  <2> TAKE p \in Proc
  <2> TAKE g \in Page
  <2>1. frame[p][g] \in Frame \cup {NoFrame}
    BY <1>0, FrameRange
  <2>2. frame[p][g] # NoFrame => p < next /\ frame[p][g] < frame_num
    BY <1>0, <1>2 DEF SetupInv
  <2> QED
    BY <2>1, <2>2
<1>6. \A g \in Page : g < n => frame_num + g \in Frame
  BY <1>1, <1>3
<1>7. TypeOK'
  <2>1. frame' \in [Proc -> [Page -> Frame \cup {NoFrame}]]
    BY <1>0, <1>1, <1>2, <1>3, <1>6 DEF TypeOK
  <2>2. SM2' \in [0 .. F -> {0, 1, EndMark}]
    BY <1>0, <1>2, <1>3 DEF TypeOK
  <2>3. next' \in 0 .. K /\ frame_num' \in 0 .. F
    BY <1>1, <1>2, <1>3
  <2> QED
    BY <2>1, <2>2, <2>3, <1>0, <1>2 DEF TypeOK
<1>8. SetupInv'
  <2>1. \A p \in Proc : \A g \in Page :
          frame'[p][g] # NoFrame => p < next' /\ frame'[p][g] < frame_num'
    BY <1>1, <1>2, <1>3, <1>4, <1>5
  <2>2. \A f \in Frame : SM2'[f] = 1 <=> f >= frame_num'
    BY <1>0, <1>1, <1>2, <1>3 DEF SetupInv
  <2>3. frame_num' * cumulative_m_i'[K] <= F * cumulative_m_i'[next']
    BY <1>1, <1>2
  <2> QED
    BY <2>1, <2>2, <2>3, <1>0, <1>2 DEF SetupInv, Summed
<1>9. FramesExclusive'
  <2> SUFFICES ASSUME NEW p \in Proc, NEW q \in Proc, NEW g \in Page, NEW h \in Page,
                      frame'[p][g] # NoFrame, frame'[p][g] = frame'[q][h]
               PROVE  p = q /\ g = h
    BY DEF FramesExclusive
  <2>1. CASE (p = next /\ g < n) /\ (q = next /\ h < n)
    BY <2>1, <1>3, <1>4
  <2>2. CASE ~ (p = next /\ g < n) /\ ~ (q = next /\ h < n)
    BY <2>2, <1>0, <1>4 DEF FramesExclusive
  <2>3. CASE (p = next /\ g < n) # (q = next /\ h < n)
    BY <2>3, <1>3, <1>4, <1>5
  <2> QED
    BY <2>1, <2>2, <2>3
<1>10. FreeListExact'
  <2> SUFFICES ASSUME NEW f \in Frame
               PROVE  SM2'[f] = 1 <=> ~ \E p \in Proc, g \in Page : frame'[p][g] = f
    <3>1. SM2[F] = EndMark
      BY <1>0 DEF FreeListExact
    <3>2. SM2'[F] = EndMark
      BY <3>1, <1>1, <1>2, <1>3
    <3> QED
      BY <3>2 DEF FreeListExact
  <2>1. CASE f < frame_num
    <3>1. \E p \in Proc, g \in Page : frame[p][g] = f
      <4>1. SM2[f] # 1
        BY <2>1, <1>0, <1>2, <1>3 DEF SetupInv
      <4> QED
        BY <4>1, <1>0 DEF FreeListExact
    <3>2. PICK p \in Proc, g \in Page : frame[p][g] = f
      BY <3>1
    <3>3. frame'[p][g] = f
      BY <3>2, <1>4, <1>5
    <3>4. SM2'[f] # 1
      BY <2>1, <1>0, <1>1, <1>2, <1>3 DEF SetupInv
    <3> QED
      BY <3>3, <3>4
  <2>2. CASE frame_num <= f /\ f < frame_num + n
    <3>1. f - frame_num \in Page /\ f - frame_num < n
      BY <2>2, <1>1, <1>3
    <3>2. frame'[next][f - frame_num] = f
      BY <3>1, <1>1, <1>3, <1>4
    <3>3. SM2'[f] = 0
      BY <2>2, <1>2
    <3> QED
      BY <1>1, <3>1, <3>2, <3>3
  <2>3. CASE f >= frame_num + n
    <3>1. SM2'[f] = 1
      BY <2>3, <1>0, <1>1, <1>2, <1>3 DEF SetupInv
    <3>2. \A p \in Proc : \A g \in Page : frame'[p][g] # f
      BY <2>3, <1>1, <1>3, <1>4, <1>5
    <3> QED
      BY <3>1, <3>2
  <2> QED
    BY <2>1, <2>2, <2>3, <1>1, <1>3
<1>11. OnlyLegalPages'
  BY <1>0, <1>1, <1>2, <1>3, <1>4 DEF OnlyLegalPages
<1> QED
  BY <1>7, <1>8, <1>9, <1>10, <1>11 DEF IInv

(* and the start of the MMU.                                                   *)
LEMMA ForkMMUIInv == IInv /\ ForkMMU => IInv'
<1> SUFFICES ASSUME IInv, ForkMMU PROVE IInv'
  OBVIOUS
<1> USE SizeAssumption DEF IInv, ForkMMU, setupVars
<1>1. TypeOK' /\ SetupInv'
  BY DEF TypeOK, SetupInv, Summed
<1>2. FramesExclusive' /\ FreeListExact' /\ OnlyLegalPages'
  BY DEF FramesExclusive, FreeListExact, OnlyLegalPages
<1> QED
  BY <1>1, <1>2

--------------------------------------------------------------------------------
(* The steps of mmu.c *)

(* What every message does, whatever its page: the facts about start-up stay. *)
LEMMA TickSetupInv ==
  ASSUME TypeOK, SetupInv, Tick
  PROVE  /\ SetupInv'
         /\ phase' = "serve" /\ count' \in Nat
         /\ UNCHANGED <<next, m_i, cumulative_m_i, frame_num>>
  BY DEF TypeOK, SetupInv, Summed, Tick, setupVars

(* Releasing the frames of a process keeps the tables and the list in step. *)
LEMMA ReleaseIInv ==
  ASSUME IInv, NEW p \in Proc, Tick, ReleaseAll(p)
  PROVE  IInv'
<1> USE SizeAssumption
<1>0. TypeOK /\ SetupInv /\ FramesExclusive /\ FreeListExact /\ OnlyLegalPages
  BY DEF IInv
<1>1. /\ SetupInv' /\ phase' = "serve" /\ count' \in Nat
      /\ UNCHANGED <<next, m_i, cumulative_m_i, frame_num>>
  BY <1>0, TickSetupInv
<1>2. \A g \in Page : g \in Resident(p) <=> frame[p][g] # NoFrame
  BY <1>0 DEF OnlyLegalPages, Resident
<1>3. \A q \in Proc : \A g \in Page :
        frame'[q][g] = IF q = p THEN NoFrame ELSE frame[q][g]
  BY <1>0, <1>2 DEF TypeOK, ReleaseAll
<1>4. \A f \in 0 .. F : SM2'[f] = IF f \in Held(p) THEN 1 ELSE SM2[f]
  BY DEF ReleaseAll
<1>5. Held(p) \subseteq Frame
  BY <1>2, <1>0, FrameRange DEF Held, Resident
<1>6. TypeOK'
  <2>1. frame' \in [Proc -> [Page -> Frame \cup {NoFrame}]]
    BY <1>0 DEF TypeOK, ReleaseAll
  <2>2. lru_ctr' \in [Proc -> [Page -> Nat]]
    BY <1>0 DEF TypeOK, ReleaseAll
  <2>3. SM2' \in [0 .. F -> {0, 1, EndMark}]
    BY <1>0 DEF TypeOK, ReleaseAll
  <2> QED
    BY <2>1, <2>2, <2>3, <1>0, <1>1 DEF TypeOK
<1>7. FramesExclusive'
  BY <1>0, <1>3 DEF FramesExclusive
<1>8. FreeListExact'
  <2>1. SM2'[F] = EndMark
    <3>1. F \notin Held(p) /\ F \in 0 .. F
      BY <1>5
    <3> QED
      BY <3>1, <1>4, <1>0 DEF FreeListExact
  <2>2. ASSUME NEW f \in Frame
        PROVE  SM2'[f] = 1 <=> ~ \E q \in Proc, g \in Page : frame'[q][g] = f
    <3>1. f \in 0 .. F /\ f # NoFrame
      OBVIOUS
    <3>2. CASE f \in Held(p)
      <4>1. PICK g \in Page : frame[p][g] = f
        BY <3>2 DEF Held, Resident
      <4>2. \A q \in Proc : \A h \in Page : frame[q][h] = f => q = p
        BY <4>1, <3>1, <1>0 DEF FramesExclusive
      <4> QED
        BY <4>2, <3>1, <3>2, <1>3, <1>4
    <3>3. CASE f \notin Held(p)
      <4>1. \A g \in Page : frame[p][g] # f
        BY <3>3, <3>1, <1>2 DEF Held
      <4>2. SM2'[f] = SM2[f]
        BY <3>1, <3>3, <1>4
      <4> QED
        BY <4>1, <4>2, <3>1, <1>3, <1>0 DEF FreeListExact
    <3> QED
      BY <3>2, <3>3
  <2> QED
    BY <2>1, <2>2 DEF FreeListExact
<1>9. OnlyLegalPages'
  BY <1>0, <1>1, <1>3 DEF OnlyLegalPages
<1> QED
  BY <1>1, <1>6, <1>7, <1>8, <1>9 DEF IInv

(* A hit keeps it: only a counter changes.                                     *)
LEMMA HitIInv ==
  ASSUME IInv, NEW p \in Proc, NEW g \in Page, Hit(p, g)
  PROVE  IInv'
<1>0. TypeOK /\ SetupInv /\ FramesExclusive /\ FreeListExact /\ OnlyLegalPages
  BY DEF IInv
<1>1. SetupInv' /\ phase' = "serve" /\ count' \in Nat
      /\ UNCHANGED <<next, m_i, cumulative_m_i, frame_num>>
  BY <1>0, TickSetupInv DEF Hit
<1>2. TypeOK'
  BY <1>0, <1>1 DEF TypeOK, Hit
<1>3. FramesExclusive' /\ FreeListExact' /\ OnlyLegalPages'
  BY <1>0, <1>1 DEF FramesExclusive, FreeListExact, OnlyLegalPages, Hit
<1> QED
  BY <1>1, <1>2, <1>3 DEF IInv

(* Loading a page takes a frame off the list that nobody maps.                 *)
LEMMA LoadIntoFreeFrameIInv ==
  ASSUME IInv, NEW p \in Proc, NEW g \in Page, LoadIntoFreeFrame(p, g)
  PROVE  IInv'
<1> USE SizeAssumption
<1>0. TypeOK /\ SetupInv /\ FramesExclusive /\ FreeListExact /\ OnlyLegalPages
  BY DEF IInv
<1>1. PICK f \in 0 .. F : /\ SM2[f] = 1
                          /\ g < m_i[p] /\ frame[p][g] = NoFrame
                          /\ Tick
                          /\ frame' = [frame EXCEPT ![p][g] = f]
                          /\ lru_ctr' = [lru_ctr EXCEPT ![p][g] = count']
                          /\ SM2' = [SM2 EXCEPT ![f] = 0]
  BY DEF LoadIntoFreeFrame, PageFault, IsLegal
<1>2. /\ SetupInv' /\ phase' = "serve" /\ count' \in Nat
      /\ UNCHANGED <<next, m_i, cumulative_m_i, frame_num>>
  BY <1>0, <1>1, TickSetupInv
<1>3. f \in Frame
  BY <1>0, <1>1 DEF FreeListExact
<1>4. \A q \in Proc : \A h \in Page : frame[q][h] # f
  BY <1>0, <1>1, <1>3 DEF FreeListExact
<1>5. \A q \in Proc : \A h \in Page :
        frame'[q][h] = IF q = p /\ h = g THEN f ELSE frame[q][h]
  BY <1>0, <1>1 DEF TypeOK
<1>6. \A e \in 0 .. F : SM2'[e] = IF e = f THEN 0 ELSE SM2[e]
  BY <1>0, <1>1 DEF TypeOK
<1>7. TypeOK'
  <2>1. frame' \in [Proc -> [Page -> Frame \cup {NoFrame}]]
    BY <1>0, <1>1, <1>3 DEF TypeOK
  <2>2. lru_ctr' \in [Proc -> [Page -> Nat]]
    BY <1>0, <1>1, <1>2 DEF TypeOK
  <2>3. SM2' \in [0 .. F -> {0, 1, EndMark}]
    BY <1>0, <1>1 DEF TypeOK
  <2> QED
    BY <2>1, <2>2, <2>3, <1>0, <1>2 DEF TypeOK
<1>8. FramesExclusive'
  BY <1>0, <1>3, <1>4, <1>5 DEF FramesExclusive
<1>9. FreeListExact'
  <2>1. SM2'[F] = EndMark
    BY <1>0, <1>3, <1>6 DEF FreeListExact
  <2>2. ASSUME NEW e \in Frame
        PROVE  SM2'[e] = 1 <=> ~ \E q \in Proc, h \in Page : frame'[q][h] = e
    <3>1. e \in 0 .. F /\ e # NoFrame
      OBVIOUS
    <3>2. CASE e = f
      BY <3>1, <3>2, <1>5, <1>6
    <3>3. CASE e # f
      <4>1. SM2'[e] = SM2[e]
        BY <3>1, <3>3, <1>6
      <4>2. \A q \in Proc : \A h \in Page : frame'[q][h] = e <=> frame[q][h] = e
        BY <3>1, <3>3, <1>1, <1>5
      <4> QED
        BY <4>1, <4>2, <1>0 DEF FreeListExact
    <3> QED
      BY <3>2, <3>3
  <2> QED
    BY <2>1, <2>2 DEF FreeListExact
<1>10. OnlyLegalPages'
  BY <1>0, <1>1, <1>2, <1>5 DEF OnlyLegalPages
<1> QED
  BY <1>2, <1>7, <1>8, <1>9, <1>10 DEF IInv

(* Replacement passes a frame from a page of the process to another.           *)
LEMMA ReplaceLocallyIInv ==
  ASSUME IInv, NEW p \in Proc, NEW g \in Page, ReplaceLocally(p, g)
  PROVE  IInv'
<1> USE SizeAssumption
<1>0. TypeOK /\ SetupInv /\ FramesExclusive /\ FreeListExact /\ OnlyLegalPages
  BY DEF IInv
<1>1. PICK v \in Page :
        /\ v < m_i[p] /\ frame[p][v] # NoFrame
        /\ g < m_i[p] /\ frame[p][g] = NoFrame
        /\ Tick
        /\ frame' = [frame EXCEPT ![p] = [@ EXCEPT ![g] = frame[p][v], ![v] = NoFrame]]
        /\ lru_ctr' = [lru_ctr EXCEPT ![p][g] = count']
        /\ SM2' = SM2
  BY DEF ReplaceLocally, PageFault, IsLegal, IsVictim, Resident
<1>2. /\ SetupInv' /\ phase' = "serve" /\ count' \in Nat
      /\ UNCHANGED <<next, m_i, cumulative_m_i, frame_num>>
  BY <1>0, <1>1, TickSetupInv
<1>3. v # g
  BY <1>1
<1>4. \A q \in Proc : \A h \in Page :
        frame'[q][h] = IF q = p /\ h = g THEN frame[p][v]
                       ELSE IF q = p /\ h = v THEN NoFrame ELSE frame[q][h]
  BY <1>0, <1>1, <1>3 DEF TypeOK
<1>5. TypeOK'
  <2>1. frame[p][v] \in Frame \cup {NoFrame}
    BY <1>0, FrameRange
  <2>2. frame' \in [Proc -> [Page -> Frame \cup {NoFrame}]]
    BY <2>1, <1>0, <1>1 DEF TypeOK
  <2>3. lru_ctr' \in [Proc -> [Page -> Nat]]
    BY <1>0, <1>1, <1>2 DEF TypeOK
  <2> QED
    BY <2>2, <2>3, <1>0, <1>1, <1>2 DEF TypeOK
<1>6. FramesExclusive'
  BY <1>0, <1>1, <1>4 DEF FramesExclusive
<1>7. FreeListExact'
  <2>1. ASSUME NEW f \in Frame
        PROVE  (\E q \in Proc, h \in Page : frame'[q][h] = f)
               <=> (\E q \in Proc, h \in Page : frame[q][h] = f)
    <3>1. f # NoFrame
      OBVIOUS
    <3>2. ASSUME NEW q \in Proc, NEW h \in Page, frame'[q][h] = f
          PROVE  \E r \in Proc, i \in Page : frame[r][i] = f
      BY <3>1, <3>2, <1>4
    <3>3. ASSUME NEW q \in Proc, NEW h \in Page, frame[q][h] = f
          PROVE  \E r \in Proc, i \in Page : frame'[r][i] = f
      <4>1. CASE q = p /\ h = v
        BY <4>1, <3>3, <1>4
      <4>2. CASE ~ (q = p /\ h = v)
        BY <4>2, <3>1, <3>3, <1>1, <1>4
      <4> QED
        BY <4>1, <4>2
    <3> QED
      BY <3>2, <3>3
  <2> QED
    BY <2>1, <1>0, <1>1 DEF FreeListExact
<1>8. OnlyLegalPages'
  BY <1>0, <1>1, <1>2, <1>4 DEF OnlyLegalPages
<1> QED
  BY <1>2, <1>5, <1>6, <1>7, <1>8 DEF IInv

(* A fault without a frame to use leaves the tables alone.                     *)
LEMMA NothingToReplaceIInv ==
  ASSUME IInv, NEW p \in Proc, NEW g \in Page, NothingToReplace(p, g)
  PROVE  IInv'
<1>0. TypeOK /\ SetupInv /\ FramesExclusive /\ FreeListExact /\ OnlyLegalPages
  BY DEF IInv
<1>1. SetupInv' /\ phase' = "serve" /\ count' \in Nat
      /\ UNCHANGED <<next, m_i, cumulative_m_i, frame_num, frame, lru_ctr, SM2>>
  BY <1>0, TickSetupInv DEF NothingToReplace, PageFault
<1> QED
  BY <1>0, <1>1
     DEF IInv, TypeOK, FramesExclusive, FreeListExact, OnlyLegalPages

--------------------------------------------------------------------------------
(* The invariant of the page tables holds in every state, whatever requests the  *)
(* MMU gets: the initial allocation stays below f, no frame is mapped twice, the  *)
(* free frame list is exact and only legal pages are in memory.                   *)
THEOREM Invariance == Spec => []IInv
<1>1. Init => IInv
  BY InitIInv
<1>2. IInv /\ [Next]_vars => IInv'
  <2> SUFFICES ASSUME IInv, [Next]_vars PROVE IInv'
    OBVIOUS
  <2>1. CASE AddDemand
    BY <2>1, AddDemandIInv
  <2>2. CASE StartAllocation
    BY <2>2, StartAllocationIInv
  <2>3. CASE AllotFrames
    BY <2>3, AllotFramesIInv
  <2>4. CASE ForkMMU
    BY <2>4, ForkMMUIInv
  <2>5. ASSUME NEW p \in Proc, Complete(p) PROVE IInv'
    BY <2>5, ReleaseIInv DEF Complete
  <2>6. ASSUME NEW p \in Proc, NEW g \in Page, Request(p, g) PROVE IInv'
    <3>1. CASE InvalidReference(p, g)
      BY <3>1, ReleaseIInv DEF InvalidReference
    <3>2. CASE Hit(p, g)
      BY <3>2, HitIInv
    <3>3. CASE LoadIntoFreeFrame(p, g)
      BY <3>3, LoadIntoFreeFrameIInv
    <3>4. CASE ReplaceLocally(p, g)
      BY <3>4, ReplaceLocallyIInv
    <3>5. CASE NothingToReplace(p, g)
      BY <3>5, NothingToReplaceIInv
    <3> QED
      BY <2>6, <3>1, <3>2, <3>3, <3>4, <3>5 DEF Request
  <2>7. CASE UNCHANGED vars
    BY <2>7 DEF vars, IInv, TypeOK, SetupInv, Summed, FramesExclusive, FreeListExact, OnlyLegalPages
  <2> QED
    BY <2>1, <2>2, <2>3, <2>4, <2>5, <2>6, <2>7 DEF Next
<1> QED
  BY <1>1, <1>2, PTL DEF Spec

(* No frame of memory is ever mapped by two page table entries. *)
THEOREM FramesExclusiveAlways == Spec => []FramesExclusive
<1>1. IInv => FramesExclusive
  BY DEF IInv
<1> QED
  BY <1>1, Invariance, PTL

(* SM2 always tells exactly which frames are in use, and keeps its end mark. *)
THEOREM FreeListExactAlways == Spec => []FreeListExact
<1>1. IInv => FreeListExact
  BY DEF IInv
<1> QED
  BY <1>1, Invariance, PTL

--------------------------------------------------------------------------------
(* Refinement of FramePool *)

(* The sets of frames that the processes hold, seen from the table entries. *)
HeldIsRange == HeldBy = [p \in Proc |-> {f \in Frame : \E g \in Page : frame[p][g] = f}]

(* They are what the entries of the pages a process has say.                   *)
LEMMA HeldFrames == IInv => HeldIsRange
<1> SUFFICES ASSUME IInv, NEW p \in Proc
             PROVE  Held(p) = {f \in Frame : \E g \in Page : frame[p][g] = f}
  BY DEF HeldIsRange, HeldBy
<1>0. TypeOK /\ OnlyLegalPages
  BY DEF IInv
<1>1. ASSUME NEW f, f \in Held(p)
      PROVE  f \in Frame /\ \E g \in Page : frame[p][g] = f
  BY <1>0, <1>1, FrameRange DEF Held, Resident
<1>2. ASSUME NEW f \in Frame, NEW g \in Page, frame[p][g] = f
      PROVE  f \in Held(p)
  <2>1. frame[p][g] # NoFrame
    BY <1>2
  <2>2. g \in Resident(p)
    BY <2>1, <1>0 DEF OnlyLegalPages, Resident
  <2> QED
    BY <2>2, <1>2 DEF Held
<1> QED
  BY <1>1, <1>2

(* If neither the free frames nor any process's frames change, neither does the  *)
(* pool.                                                                         *)
LEMMA PoolStutter ==
  ASSUME IInv, IInv', SM2' = SM2,
         \A p \in Proc : \A f \in Frame : (\E g \in Page : frame'[p][g] = f)
                                          <=> (\E g \in Page : frame[p][g] = f)
  PROVE  UNCHANGED Pool!vars
<1>1. HeldIsRange /\ HeldIsRange'
  BY HeldFrames, PTL
<1>2. HeldBy' = HeldBy
  BY <1>1 DEF HeldIsRange
<1> QED
  BY <1>2 DEF Pool!vars, FreeFrames

(* A message that ends a process releases all its frames, if it has any. *)
LEMMA ReleaseRefines ==
  ASSUME IInv, IInv', NEW p \in Proc, ReleaseAll(p)
  PROVE  [Pool!Next]_(Pool!vars)
<1>0. TypeOK /\ FreeListExact /\ OnlyLegalPages
  BY DEF IInv
<1>1. \A q \in Proc : \A g \in Page :
        frame'[q][g] = IF q = p THEN NoFrame ELSE frame[q][g]
  <2>1. \A g \in Page : g \in Resident(p) <=> frame[p][g] # NoFrame
    BY <1>0 DEF OnlyLegalPages, Resident
  <2> QED
    BY <2>1, <1>0 DEF TypeOK, ReleaseAll
<1>3. HeldIsRange /\ HeldIsRange'
  BY HeldFrames, PTL
<1>4. \A q \in Proc : HeldBy'[q] = IF q = p THEN {} ELSE HeldBy[q]
  BY <1>1, <1>3 DEF HeldIsRange
<1>5. FreeFrames' = FreeFrames \cup HeldBy[p]
  <2>1. Frame \subseteq 0 .. F
    BY SizeAssumption
  <2>2. HeldBy[p] = Held(p) /\ Held(p) \subseteq Frame
    BY <1>3 DEF HeldIsRange, HeldBy
  <2> QED
    BY <2>1, <2>2 DEF ReleaseAll, FreeFrames
<1>6. CASE HeldBy[p] # {}
  <2>1. HeldBy' = [HeldBy EXCEPT ![p] = {}]
    BY <1>4 DEF HeldBy
  <2>2. Pool!Release(p)
    BY <2>1, <1>5, <1>6 DEF Pool!Release
  <2> QED
    BY <2>2 DEF Pool!Next
<1>7. CASE HeldBy[p] = {}
  <2>1. HeldBy' = HeldBy
    BY <1>4, <1>7 DEF HeldBy
  <2>2. FreeFrames' = FreeFrames
    BY <1>5, <1>7
  <2> QED
    BY <2>1, <2>2 DEF Pool!vars
<1> QED
  BY <1>6, <1>7

(* Loading a page into a free frame takes that frame from the pool. *)
LEMMA LoadRefines ==
  ASSUME IInv, IInv', NEW p \in Proc, NEW g \in Page, LoadIntoFreeFrame(p, g)
  PROVE  Pool!Next
<1>0. TypeOK /\ FreeListExact
  BY DEF IInv
<1>1. PICK f \in 0 .. F : /\ SM2[f] = 1
                          /\ frame[p][g] = NoFrame
                          /\ frame' = [frame EXCEPT ![p][g] = f]
                          /\ SM2' = [SM2 EXCEPT ![f] = 0]
  BY DEF LoadIntoFreeFrame, PageFault
<1>2. f \in Frame
  BY <1>0, <1>1, SizeAssumption DEF FreeListExact
<1>3. \A q \in Proc : \A h \in Page :
        frame'[q][h] = IF q = p /\ h = g THEN f ELSE frame[q][h]
  BY <1>0, <1>1 DEF TypeOK
<1>5. HeldIsRange /\ HeldIsRange'
  BY HeldFrames, PTL
<1>6. \A q \in Proc : HeldBy'[q] = IF q = p THEN HeldBy[q] \cup {f} ELSE HeldBy[q]
  <2>1. \A e \in Frame : e # NoFrame
    OBVIOUS
  <2> QED
    BY <2>1, <1>1, <1>2, <1>3, <1>5 DEF HeldIsRange
<1>7. FreeFrames' = FreeFrames \ {f}
  <2>1. Frame \subseteq 0 .. F
    BY SizeAssumption
  <2> QED
    BY <2>1, <1>0, <1>1 DEF TypeOK, FreeFrames
<1>8. HeldBy' = [HeldBy EXCEPT ![p] = @ \cup {f}]
  BY <1>6 DEF HeldBy
<1>9. Pool!Acquire(p, {f})
  BY <1>1, <1>2, <1>7, <1>8 DEF Pool!Acquire, FreeFrames
<1> QED
  BY <1>2, <1>9 DEF Pool!Next

(* Master's allotment takes consecutive frames from the pool, or none. *)
LEMMA AllotRefines ==
  ASSUME IInv, IInv', AllotFrames
  PROVE  [Pool!Next]_(Pool!vars)
<1> USE SizeAssumption
<1> DEFINE n == Allotted(next)
           fs == {f \in Frame : frame_num <= f /\ f < frame_num + n}
<1>0. TypeOK /\ SetupInv
  BY DEF IInv
<1>1. next \in Proc /\ n \in Nat /\ n <= m_i[next] /\ frame_num + n <= F
  BY AllotmentFits DEF AllotFrames
<1>2. /\ phase = "allocate"
      /\ frame' = [frame EXCEPT ![next] =
                     [g \in Page |-> IF g < n THEN frame_num + g ELSE frame[next][g]]]
      /\ SM2' = [f \in 0 .. F |-> IF frame_num <= f /\ f < frame_num + n THEN 0 ELSE SM2[f]]
  BY DEF AllotFrames
<1>3. m_i[next] \in 1 .. M /\ frame_num \in Nat
  BY <1>0, <1>1 DEF TypeOK
<1> HIDE DEF n
<1>4. \A p \in Proc : \A g \in Page :
        frame'[p][g] = IF p = next /\ g < n THEN frame_num + g ELSE frame[p][g]
  BY <1>0, <1>2 DEF TypeOK
<1>5. \A g \in Page : frame[next][g] = NoFrame
  BY <1>0, <1>1, <1>2 DEF SetupInv
<1>7. HeldIsRange /\ HeldIsRange'
  BY HeldFrames, PTL
<1>8. HeldBy[next] = {}
  BY <1>1, <1>5, <1>7 DEF HeldIsRange
<1>9. HeldBy'[next] = fs
  <2>1. ASSUME NEW f \in HeldBy'[next]
        PROVE  f \in fs
    BY <2>1, <1>1, <1>3, <1>4, <1>5, <1>7 DEF HeldIsRange
  <2>2. ASSUME NEW f \in fs
        PROVE  f \in HeldBy'[next]
    <3>1. f - frame_num \in Page /\ f - frame_num < n
      BY <1>1, <1>3
    <3>2. frame'[next][f - frame_num] = f
      BY <3>1, <1>1, <1>3, <1>4
    <3> QED
      BY <3>1, <3>2, <1>1, <1>7 DEF HeldIsRange
  <2> QED
    BY <2>1, <2>2
<1>10. \A q \in Proc : q # next => HeldBy'[q] = HeldBy[q]
  BY <1>4, <1>7 DEF HeldIsRange
<1>11. fs \subseteq FreeFrames
  BY <1>0, <1>2, <1>3 DEF SetupInv, FreeFrames
<1>12. FreeFrames' = FreeFrames \ fs
  BY <1>2 DEF FreeFrames
<1> HIDE DEF fs
<1>13. CASE fs # {}
  <2>1. HeldBy' = [HeldBy EXCEPT ![next] = @ \cup fs]
    BY <1>1, <1>8, <1>9, <1>10 DEF HeldBy
  <2>2. Pool!Acquire(next, fs)
    BY <2>1, <1>11, <1>12, <1>13 DEF Pool!Acquire
  <2>3. fs \in SUBSET Frame
    BY DEF fs
  <2>4. Pool!Next
    BY <2>2, <2>3, <1>1, Zenon DEF Pool!Next
  <2> QED
    BY <2>4
<1>14. CASE fs = {}
  <2>1. HeldBy' = HeldBy
    BY <1>8, <1>9, <1>10, <1>14 DEF HeldBy
  <2>2. FreeFrames' = FreeFrames
    BY <1>12, <1>14
  <2> QED
    BY <2>1, <2>2 DEF Pool!vars
<1> QED
  BY <1>13, <1>14

(* A local replacement moves a frame between pages of one process. *)
LEMMA ReplaceRefines ==
  ASSUME IInv, IInv', NEW p \in Proc, NEW g \in Page, ReplaceLocally(p, g)
  PROVE  UNCHANGED Pool!vars
<1>0. TypeOK
  BY DEF IInv
<1>1. PICK v \in Page :
        /\ frame[p][v] # NoFrame
        /\ frame[p][g] = NoFrame
        /\ frame' = [frame EXCEPT ![p] = [@ EXCEPT ![g] = frame[p][v], ![v] = NoFrame]]
        /\ SM2' = SM2
  BY DEF ReplaceLocally, PageFault, IsVictim, Resident
<1>2. \A q \in Proc : \A h \in Page :
        frame'[q][h] = IF q = p /\ h = g THEN frame[p][v]
                       ELSE IF q = p /\ h = v THEN NoFrame ELSE frame[q][h]
  BY <1>0, <1>1 DEF TypeOK
<1>3. ASSUME NEW q \in Proc, NEW f \in Frame
      PROVE  (\E h \in Page : frame'[q][h] = f) <=> (\E h \in Page : frame[q][h] = f)
  <2>1. f # NoFrame
    OBVIOUS
  <2>2. ASSUME NEW h \in Page, frame'[q][h] = f PROVE \E i \in Page : frame[q][i] = f
    BY <2>1, <2>2, <1>2
  <2>3. ASSUME NEW h \in Page, frame[q][h] = f PROVE \E i \in Page : frame'[q][i] = f
    <3>1. CASE q = p /\ h = v
      BY <3>1, <2>3, <1>2
    <3>2. CASE ~ (q = p /\ h = v)
      BY <3>2, <2>1, <2>3, <1>1, <1>2
    <3> QED
      BY <3>1, <3>2
  <2> QED
    BY <2>2, <2>3
<1> QED
  BY <1>1, <1>3, PoolStutter

(* The page tables and the free frame list of the code do only what FramePool    *)
(* allows: no frame ever passes from one process to another.                     *)
THEOREM Refinement == Spec => FramePoolSpec
<1>1. Init => Pool!Init
  <2> SUFFICES ASSUME Init PROVE Pool!Init
    OBVIOUS
  <2>1. FreeFrames = Frame
    BY SizeAssumption DEF Init, FreeFrames
  <2>2. HeldBy = [p \in Proc |-> {}]
    BY DEF Init, HeldBy, Held, Resident
  <2> QED
    BY <2>1, <2>2 DEF Pool!Init
<1>2. IInv /\ IInv' /\ [Next]_vars => [Pool!Next]_(Pool!vars)
  <2> SUFFICES ASSUME IInv, IInv', [Next]_vars PROVE [Pool!Next]_(Pool!vars)
    OBVIOUS
  <2>1. CASE AddDemand \/ StartAllocation \/ ForkMMU \/ UNCHANGED vars
    <3>1. SM2' = SM2 /\ frame' = frame
      BY <2>1 DEF AddDemand, StartAllocation, ForkMMU, vars
    <3> QED
      BY <3>1, PoolStutter
  <2>2. CASE AllotFrames
    BY <2>2, AllotRefines
  <2>3. ASSUME NEW p \in Proc, Complete(p) PROVE [Pool!Next]_(Pool!vars)
    BY <2>3, ReleaseRefines DEF Complete
  <2>4. ASSUME NEW p \in Proc, NEW g \in Page, Request(p, g) PROVE [Pool!Next]_(Pool!vars)
    <3>1. CASE InvalidReference(p, g)
      BY <3>1, ReleaseRefines DEF InvalidReference
    <3>2. CASE Hit(p, g) \/ NothingToReplace(p, g)
      <4>1. SM2' = SM2 /\ frame' = frame
        BY <3>2 DEF Hit, NothingToReplace
      <4> QED
        BY <4>1, PoolStutter
    <3>3. CASE LoadIntoFreeFrame(p, g)
      BY <3>3, LoadRefines
    <3>4. CASE ReplaceLocally(p, g)
      BY <3>4, ReplaceRefines
    <3> QED
      BY <2>4, <3>1, <3>2, <3>3, <3>4 DEF Request
  <2> QED
    BY <2>1, <2>2, <2>3, <2>4 DEF Next
<1> QED
  BY <1>1, <1>2, Invariance, PTL DEF Spec, FramePoolSpec, Pool!Spec

--------------------------------------------------------------------------------
(* What FramePool promises                                                       *)

(* Every step of FramePool keeps its types and the partition of the frames.    *)
LEMMA PoolStep ==
  ASSUME Pool!TypeOK, Pool!Partition, [Pool!Next]_(Pool!vars)
  PROVE  (Pool!TypeOK)' /\ (Pool!Partition)'
<1>. USE DEF Pool!TypeOK, Pool!Partition
<1>1. ASSUME NEW p \in Proc, NEW fs \in SUBSET Frame, Pool!Acquire(p, fs)
      PROVE  (Pool!TypeOK)' /\ (Pool!Partition)'
  <2>1. \A q \in Proc : HeldBy'[q] = IF q = p THEN HeldBy[q] \cup fs ELSE HeldBy[q]
    BY <1>1 DEF Pool!Acquire
  <2>2. fs \subseteq FreeFrames /\ FreeFrames' = FreeFrames \ fs /\ HeldBy' \in [Proc -> SUBSET Frame]
    BY <1>1 DEF Pool!Acquire
  <2>. QED
    BY <2>1, <2>2
<1>2. ASSUME NEW p \in Proc, Pool!Release(p)
      PROVE  (Pool!TypeOK)' /\ (Pool!Partition)'
  <2>1. \A q \in Proc : HeldBy'[q] = IF q = p THEN {} ELSE HeldBy[q]
    BY <1>2 DEF Pool!Release
  <2>2. FreeFrames' = FreeFrames \cup HeldBy[p] /\ HeldBy' \in [Proc -> SUBSET Frame]
    BY <1>2 DEF Pool!Release
  <2>. QED
    BY <2>1, <2>2
<1>3. CASE UNCHANGED Pool!vars
  BY <1>3 DEF Pool!vars
<1>. QED
  BY <1>1, <1>2, <1>3 DEF Pool!Next

(* Every frame is always in exactly one place, the free frame list or the pages   *)
(* of one process: FramePool promises it, and the tables of the code implement     *)
(* FramePool.                                                                      *)
THEOREM PartitionAlways == Spec => []Pool!Partition
<1>1. Pool!Init => Pool!TypeOK /\ Pool!Partition
  BY DEF Pool!Init, Pool!TypeOK, Pool!Partition
<1>2. FramePoolSpec => []Pool!Partition
  BY <1>1, PoolStep, PTL DEF FramePoolSpec, Pool!Spec
<1>. QED
  BY <1>2, Refinement, PTL

--------------------------------------------------------------------------------
(* Pages in the order of their counters *)

(* A nonempty set of numbers has a least one. *)
LEMMA LeastNumber ==
  ASSUME NEW ns \in SUBSET Nat, ns # {}
  PROVE  \E k \in ns : \A j \in ns : k <= j
<1>1. PICK k \in ns : \A j \in ns : ~(<<j, k>> \in OpToRel(<, Nat))
  BY NatLessThanWellFounded, WFMin, Zenon
<1>2. ASSUME NEW j \in ns PROVE k <= j
  <2>1. ~(j < k)
    <3>. SUFFICES ASSUME j < k PROVE <<j, k>> \in OpToRel(<, Nat)
      BY <1>1
    <3>. DEFINE p == <<j, k>>
    <3>1. p \in Nat \X Nat /\ p[1] < p[2]
      OBVIOUS
    <3>. QED
      BY <3>1, Zenon DEF OpToRel
  <2>. QED
    BY <2>1
<1>. QED
  BY <1>2

(* s lists the elements of S, each once, by their counters c. *)
Lists(s, S, c) ==
  /\ s \in Seq(S)
  /\ \A g \in S : \E i \in DOMAIN s : s[i] = g
  /\ \A i, j \in DOMAIN s : i < j => Before(c, s[i], s[j])

(* Counters and page numbers order the pages. *)
LEMMA BeforeOrders ==
  ASSUME NEW S \in SUBSET Nat, NEW c, \A g \in S : c[g] \in Nat
  PROVE  /\ \A g \in S : ~ Before(c, g, g)
         /\ \A g, h \in S : g # h => Before(c, g, h) \/ Before(c, h, g)
         /\ \A g, h \in S : ~ (Before(c, g, h) /\ Before(c, h, g))
         /\ \A g, h, e \in S : Before(c, g, h) /\ Before(c, h, e) => Before(c, g, e)
<1>1. \A g \in S : g \in Nat /\ c[g] \in Nat
  OBVIOUS
<1> QED
  BY <1>1 DEF Before

(* Two lists of the same pages by the same counters agree as far as both go. *)
LEMMA ListsAgree ==
  ASSUME NEW S \in SUBSET Nat, NEW c, \A g \in S : c[g] \in Nat,
         NEW s, NEW t, Lists(s, S, c), Lists(t, S, c)
  PROVE  \A i \in DOMAIN s : i \in DOMAIN t => s[i] = t[i]
<1> DEFINE D == {i \in Nat : i \in DOMAIN s /\ i \in DOMAIN t /\ s[i] # t[i]}
<1>1. /\ s \in Seq(S) /\ t \in Seq(S)
      /\ \A g \in S : (\E i \in DOMAIN s : s[i] = g) /\ (\E i \in DOMAIN t : t[i] = g)
      /\ \A i, j \in DOMAIN s : i < j => Before(c, s[i], s[j])
      /\ \A i, j \in DOMAIN t : i < j => Before(c, t[i], t[j])
  BY DEF Lists
<1>2. /\ DOMAIN s = 1 .. Len(s) /\ DOMAIN t = 1 .. Len(t) /\ Len(s) \in Nat /\ Len(t) \in Nat
      /\ \A i \in DOMAIN s : s[i] \in S
      /\ \A i \in DOMAIN t : t[i] \in S
  BY <1>1
<1>3. ASSUME D # {} PROVE FALSE
  <2>1. PICK k \in D : \A i \in D : k <= i
    <3>1. D \in SUBSET Nat
      OBVIOUS
    <3> HIDE DEF D
    <3> QED
      BY <1>3, <3>1, LeastNumber
  <2>2. k \in Nat /\ k \in DOMAIN s /\ k \in DOMAIN t /\ s[k] # t[k] /\ s[k] \in S /\ t[k] \in S
    BY <1>2
  <2>3. ASSUME NEW i \in Nat, i < k PROVE i \in DOMAIN s => i \in DOMAIN t /\ s[i] = t[i]
    <3>1. i \notin D
      <4> HIDE DEF D
      <4> QED
        BY <2>1, <2>2, <2>3
    <3>2. i \in DOMAIN s => i \in DOMAIN t
      BY <1>2, <2>2, <2>3
    <3> QED
      BY <3>1, <3>2
  <2>4. Before(c, s[k], t[k])
    <3>1. PICK j \in DOMAIN s : s[j] = t[k]
      BY <1>1, <2>2
    <3>2. j # k /\ j \in Nat
      BY <1>2, <2>2, <3>1
    <3>3. ~ (j < k)
      <4> SUFFICES ASSUME j < k PROVE FALSE
        OBVIOUS
      <4>1. j \in DOMAIN t /\ t[j] = t[k]
        BY <2>3, <3>1, <3>2
      <4>2. Before(c, t[j], t[k])
        BY <1>1, <2>2, <4>1
      <4> QED
        BY <2>2, <4>1, <4>2, BeforeOrders
    <3>4. k < j
      BY <2>2, <3>2, <3>3
    <3> QED
      BY <1>1, <2>2, <3>1, <3>4
  <2>5. Before(c, t[k], s[k])
    <3>1. PICK j \in DOMAIN t : t[j] = s[k]
      BY <1>1, <2>2
    <3>2. j # k /\ j \in Nat
      BY <1>2, <2>2, <3>1
    <3>3. ~ (j < k)
      <4> SUFFICES ASSUME j < k PROVE FALSE
        OBVIOUS
      <4>0. j \in DOMAIN s
        BY <1>2, <2>2, <3>1, <3>2
      <4>1. s[j] = s[k]
        BY <2>3, <3>1, <3>2, <4>0
      <4>2. Before(c, s[j], s[k])
        BY <1>1, <2>2, <4>0
      <4> QED
        BY <2>2, <4>1, <4>2, BeforeOrders
    <3>4. k < j
      BY <2>2, <3>2, <3>3
    <3> QED
      BY <1>1, <2>2, <3>1, <3>4
  <2> QED
    BY <2>2, <2>4, <2>5, BeforeOrders
<1>4. ASSUME NEW i \in DOMAIN s, i \in DOMAIN t PROVE s[i] = t[i]
  <2>1. i \in Nat /\ i \notin D
    BY <1>2, <1>3
  <2> QED
    BY <1>4, <2>1
<1> QED
  BY <1>4

(* There is only one such list. *)
LEMMA ListsOnce ==
  ASSUME NEW S \in SUBSET Nat, NEW c, \A g \in S : c[g] \in Nat,
         NEW s, NEW t, Lists(s, S, c), Lists(t, S, c)
  PROVE  s = t
<1>1. ASSUME NEW a, NEW b, Lists(a, S, c), Lists(b, S, c), Len(a) < Len(b) PROVE FALSE
  <2>1. /\ a \in Seq(S) /\ b \in Seq(S)
        /\ \A g \in S : \E i \in DOMAIN a : a[i] = g
        /\ \A i, j \in DOMAIN b : i < j => Before(c, b[i], b[j])
    BY <1>1 DEF Lists
  <2>2. /\ DOMAIN a = 1 .. Len(a) /\ DOMAIN b = 1 .. Len(b) /\ Len(a) \in Nat /\ Len(b) \in Nat
        /\ \A i \in DOMAIN b : b[i] \in S
    BY <2>1
  <2> DEFINE n == Len(a) + 1
  <2>3. n \in DOMAIN b /\ b[n] \in S
    BY <1>1, <2>2
  <2>4. PICK i \in DOMAIN a : a[i] = b[n]
    BY <2>1, <2>3
  <2>5. i \in DOMAIN b /\ i < n
    BY <1>1, <2>2
  <2>6. b[i] = a[i]
    BY <1>1, <2>5, ListsAgree
  <2>7. Before(c, b[i], b[n])
    BY <2>1, <2>3, <2>5
  <2> QED
    BY <2>3, <2>4, <2>6, <2>7, BeforeOrders
<1>2. s \in Seq(S) /\ t \in Seq(S)
  BY DEF Lists
<1>3. Len(s) = Len(t)
  <2>1. ~ (Len(s) < Len(t)) /\ ~ (Len(t) < Len(s))
    BY <1>1
  <2> QED
    BY <1>2, <2>1
<1>4. \A i \in DOMAIN s : s[i] = t[i]
  <2>1. DOMAIN s = DOMAIN t
    BY <1>2, <1>3
  <2> QED
    BY <2>1, ListsAgree
<1> QED
  BY <1>2, <1>3, <1>4

(* There is such a list: a page's place is the number of pages before it. *)
LEMMA ListExists ==
  ASSUME NEW S \in SUBSET Nat, IsFiniteSet(S), NEW c, \A g \in S : c[g] \in Nat
  PROVE  \E s \in [1 .. Cardinality(S) -> S] :
           \A i, j \in DOMAIN s : i < j => Before(c, s[i], s[j])
<1> DEFINE n == Cardinality(S)
           Under(g) == {h \in S : Before(c, h, g)}
           r == [g \in S |-> Cardinality(Under(g)) + 1]
<1>1. n \in Nat
  BY FS_CardinalityType
<1>2. ASSUME NEW g \in S PROVE /\ IsFiniteSet(Under(g)) /\ Cardinality(Under(g)) \in Nat
                               /\ Cardinality(Under(g)) < n
  <2>1. Under(g) \in SUBSET S /\ g \notin Under(g)
    BY BeforeOrders
  <2> HIDE DEF Under
  <2>2. IsFiniteSet(Under(g)) /\ Cardinality(Under(g)) <= n /\ Cardinality(Under(g)) # n
    BY <1>2, <2>1, FS_Subset
  <2>3. Cardinality(Under(g)) \in Nat
    BY <2>2, FS_CardinalityType
  <2> QED
    BY <1>1, <2>2, <2>3
<1>3. ASSUME NEW g \in S, NEW h \in S, Before(c, g, h)
      PROVE  Cardinality(Under(g)) < Cardinality(Under(h))
  <2>1. Under(g) \in SUBSET Under(h)
    BY <1>3, BeforeOrders
  <2>2. g \in Under(h) /\ g \notin Under(g)
    BY <1>3, BeforeOrders
  <2> HIDE DEF Under
  <2>3. Cardinality(Under(g)) <= Cardinality(Under(h)) /\ Cardinality(Under(g)) # Cardinality(Under(h))
    BY <1>2, <2>1, <2>2, FS_Subset
  <2> QED
    BY <1>2, <2>3
<1> HIDE DEF Under
<1>4. r \in [S -> 1 .. n]
  BY <1>1, <1>2
<1>5. \A g, h \in S : r[g] < r[h] <=> Before(c, g, h)
  <2>1. \A g, h \in S : Before(c, g, h) => r[g] < r[h]
    BY <1>2, <1>3
  <2>2. \A g, h \in S : g # h => Before(c, g, h) \/ Before(c, h, g)
    BY BeforeOrders
  <2>3. \A g \in S : r[g] \in Nat
    BY <1>1, <1>4
  <2> HIDE DEF r
  <2> QED
    BY <2>1, <2>2, <2>3
<1>6. \A g, h \in S : r[g] = r[h] => g = h
  <2>1. \A g, h \in S : g # h => Before(c, g, h) \/ Before(c, h, g)
    BY BeforeOrders
  <2>2. \A g \in S : r[g] \in Nat
    BY <1>1, <1>4
  <2> HIDE DEF r
  <2> QED
    BY <1>5, <2>1, <2>2
<1> HIDE DEF r
<1>7. \A i \in 1 .. n : \E g \in S : r[g] = i
  <2>1. r \in Injection(S, 1 .. n)
    BY <1>4, <1>6 DEF Injection, IsInjective
  <2>2. IsFiniteSet(1 .. n) /\ Cardinality(1 .. n) = n
    BY <1>1, FS_Interval
  <2> HIDE DEF n
  <2>3. r \in Surjection(S, 1 .. n)
    BY <2>1, <2>2, FS_Injection DEF n
  <2> QED
    BY <2>3 DEF Surjection
<1> DEFINE s == [i \in 1 .. n |-> CHOOSE g \in S : r[g] = i]
<1>8. \A i \in 1 .. n : s[i] \in S /\ r[s[i]] = i
  BY <1>7
<1>9. s \in [1 .. n -> S]
  <2> HIDE DEF n
  <2>1. \A i \in 1 .. n : s[i] \in S
    BY <1>8
  <2> QED
    BY <2>1
<1>10. DOMAIN s = 1 .. n
  OBVIOUS
<1> HIDE DEF s, n
<1>11. \A i, j \in DOMAIN s : i < j => Before(c, s[i], s[j])
  BY <1>5, <1>8, <1>10
<1> QED
  BY <1>9, <1>11 DEF n

(* The one list is what Sorted chooses. *)
LEMMA SortedLists ==
  ASSUME NEW S \in SUBSET Nat, IsFiniteSet(S), NEW c, \A g \in S : c[g] \in Nat
  PROVE  Lists(Sorted(S, c), S, c) /\ Len(Sorted(S, c)) = Cardinality(S)
<1> DEFINE s == Sorted(S, c)
           n == Cardinality(S)
<1>1. s \in [1 .. n -> S] /\ \A i, j \in DOMAIN s : i < j => Before(c, s[i], s[j])
  BY ListExists, Zenon DEF Sorted
<1>2. n \in Nat
  BY FS_CardinalityType
<1> HIDE DEF s, n
<1>3. s \in Seq(S) /\ Len(s) = n /\ DOMAIN s = 1 .. n
  BY <1>1, <1>2
<1>4. \A i, j \in 1 .. n : s[i] = s[j] => i = j
  <2>1. \A i, j \in 1 .. n : i < j => s[i] # s[j]
    BY <1>1, <1>3, BeforeOrders
  <2> QED
    BY <1>2, <2>1
<1>5. \A g \in S : \E i \in 1 .. n : s[i] = g
  <2>1. s \in Injection(1 .. n, S)
    BY <1>1, <1>4 DEF Injection, IsInjective
  <2>2. Cardinality(1 .. n) = n
    BY <1>2, FS_Interval
  <2>3. s \in Surjection(1 .. n, S)
    BY <2>1, <2>2, FS_Injection DEF n
  <2> QED
    BY <2>3 DEF Surjection
<1> QED
  BY <1>1, <1>3, <1>5 DEF Lists, s, n

(* A page used after all others comes last. *)
LEMMA ListAppend ==
  ASSUME NEW S, NEW c, NEW s, Lists(s, S, c), NEW g, g \notin S, NEW d,
         \A h \in S : d[h] = c[h] /\ d[h] < d[g]
  PROVE  Lists(Append(s, g), S \cup {g}, d)
<1> DEFINE t == Append(s, g)
           n == Len(s)
<1>1. /\ s \in Seq(S) /\ n \in Nat /\ DOMAIN s = 1 .. n
      /\ \A h \in S : \E i \in 1 .. n : s[i] = h
      /\ \A i, j \in 1 .. n : i < j => Before(c, s[i], s[j])
      /\ \A i \in 1 .. n : s[i] \in S
  BY DEF Lists
<1>2. /\ t \in Seq(S \cup {g}) /\ DOMAIN t = 1 .. n + 1 /\ t[n + 1] = g
      /\ \A i \in 1 .. n : t[i] = s[i]
  <2>1. s \in Seq(S \cup {g})
    <3>1. s \in [1 .. n -> S \cup {g}]
      BY <1>1
    <3> QED
      BY <1>1, <3>1
  <2> QED
    BY <1>1, <2>1
<1> HIDE DEF t, n
<1>3. \A h \in S \cup {g} : \E i \in DOMAIN t : t[i] = h
  <2>1. \A h \in S : \E i \in DOMAIN t : t[i] = h
    <3> TAKE h \in S
    <3>1. PICK i \in 1 .. n : s[i] = h
      BY <1>1
    <3>2. i \in DOMAIN t /\ t[i] = h
      BY <1>1, <1>2, <3>1
    <3> QED
      BY <3>2
  <2>2. n + 1 \in DOMAIN t
    BY <1>1, <1>2
  <2> QED
    BY <1>2, <2>1, <2>2
<1>4. ASSUME NEW i \in DOMAIN t, NEW j \in DOMAIN t, i < j PROVE Before(d, t[i], t[j])
  <2>1. i \in 1 .. n /\ t[i] = s[i] /\ s[i] \in S
    BY <1>1, <1>2, <1>4
  <2>2. CASE j = n + 1
    BY <1>2, <2>1, <2>2 DEF Before
  <2>3. CASE j # n + 1
    <3>1. j \in 1 .. n /\ t[j] = s[j] /\ s[j] \in S
      BY <1>1, <1>2, <2>3
    <3>2. Before(c, s[i], s[j])
      BY <1>1, <1>4, <2>1, <3>1
    <3>3. d[s[i]] = c[s[i]] /\ d[s[j]] = c[s[j]]
      BY <2>1, <3>1
    <3> QED
      BY <2>1, <3>1, <3>2, <3>3 DEF Before
  <2> QED
    BY <2>2, <2>3
<1> QED
  BY <1>2, <1>3, <1>4 DEF Lists, t

(* A list stays one without one of its pages. *)
LEMMA ListRemove ==
  ASSUME NEW S \in SUBSET Nat, NEW c, \A g \in S : c[g] \in Nat,
         NEW s, Lists(s, S, c), NEW i \in DOMAIN s
  PROVE  Lists(Lru!RemoveAt(s, i), S \ {s[i]}, c)
<1> DEFINE t == Lru!RemoveAt(s, i)
           n == Len(s)
           T == S \ {s[i]}
           old(j) == IF j < i THEN j ELSE j + 1
<1>1. /\ s \in Seq(S) /\ n \in Nat /\ DOMAIN s = 1 .. n /\ i \in 1 .. n
      /\ \A h \in S : \E j \in 1 .. n : s[j] = h
      /\ \A j, k \in 1 .. n : j < k => Before(c, s[j], s[k])
      /\ \A j \in 1 .. n : s[j] \in S
  BY DEF Lists
<1>2. /\ t \in Seq(S) /\ Len(t) = n - 1 /\ DOMAIN t = 1 .. n - 1
      /\ \A j \in 1 .. n - 1 : t[j] = s[old(j)]
  <2> DEFINE a == SubSeq(s, 1, i - 1)
             b == SubSeq(s, i + 1, n)
  <2>1. /\ a \in Seq(S) /\ Len(a) = i - 1 /\ \A j \in 1 .. i - 1 : a[j] = s[j]
    BY <1>1
  <2>2. /\ b \in Seq(S) /\ Len(b) = n - i /\ \A j \in 1 .. n - i : b[j] = s[i + j]
    BY <1>1
  <2>3. t = a \o b
    BY DEF Lru!RemoveAt
  <2> HIDE DEF a, b, t
  <2>4. /\ t \in Seq(S) /\ Len(t) = n - 1
        /\ \A j \in 1 .. n - 1 : t[j] = IF j <= i - 1 THEN a[j] ELSE b[j - (i - 1)]
    <3>0. a \in Seq(S) /\ b \in Seq(S)
      BY <2>1, <2>2
    <3>1. t \in Seq(S) /\ Len(t) = Len(a) + Len(b)
      BY <2>3, <3>0, ConcatProperties
    <3>2. \A j \in 1 .. Len(a) + Len(b) : t[j] = IF j <= Len(a) THEN a[j] ELSE b[j - Len(a)]
      BY <2>3, <3>0, ConcatProperties, Zenon
    <3>3. Len(a) + Len(b) = n - 1
      BY <1>1, <2>1, <2>2
    <3> QED
      BY <2>1, <3>1, <3>2, <3>3
  <2>5. DOMAIN t = 1 .. n - 1
    BY <2>4
  <2>6. ASSUME NEW j \in 1 .. n - 1 PROVE t[j] = s[old(j)]
    <3>1. CASE j < i
      BY <1>1, <2>1, <2>4, <3>1
    <3>2. CASE ~ (j < i)
      <4>1. j - (i - 1) \in 1 .. n - i /\ i + (j - (i - 1)) = j + 1 /\ ~ (j <= i - 1)
        BY <1>1, <3>2
      <4> QED
        BY <2>2, <2>4, <3>2, <4>1
    <3> QED
      BY <3>1, <3>2
  <2> QED
    BY <2>4, <2>5, <2>6
<1>3. \A j, k \in 1 .. n : s[j] = s[k] => j = k
  <2>1. \A j, k \in 1 .. n : j < k => s[j] # s[k]
    BY <1>1, BeforeOrders
  <2> QED
    BY <1>1, <2>1
<1> HIDE DEF t, n
<1>4. \A j \in 1 .. n - 1 : old(j) \in 1 .. n /\ old(j) # i
  BY <1>1
<1>5. \A j \in 1 .. n - 1 : t[j] \in T
  BY <1>1, <1>2, <1>3, <1>4
<1>6. t \in Seq(T)
  <2>1. t \in [1 .. n - 1 -> T]
    BY <1>2, <1>5
  <2> QED
    BY <1>1, <1>2, <2>1
<1>7. \A h \in T : \E j \in DOMAIN t : t[j] = h
  <2> TAKE h \in T
  <2>1. PICK k \in 1 .. n : s[k] = h
    BY <1>1
  <2>2. k # i
    BY <2>1
  <2> DEFINE j == IF k < i THEN k ELSE k - 1
  <2>3. j \in 1 .. n - 1 /\ old(j) = k
    BY <1>1, <2>2
  <2>4. t[j] = h
    BY <1>2, <2>1, <2>3
  <2> QED
    BY <1>2, <2>3, <2>4
<1>8. ASSUME NEW j \in DOMAIN t, NEW k \in DOMAIN t, j < k PROVE Before(c, t[j], t[k])
  <2>1. old(j) \in 1 .. n /\ old(k) \in 1 .. n /\ old(j) < old(k)
    BY <1>1, <1>2, <1>8
  <2>2. Before(c, s[old(j)], s[old(k)])
    BY <1>1, <2>1
  <2> QED
    BY <1>2, <2>2
<1> QED
  BY <1>6, <1>7, <1>8 DEF Lists, t

(* The first page of a list is the victim; it is removed by Tail. *)
LEMMA ListTail ==
  ASSUME NEW S, NEW c, NEW s, Lists(s, S, c), s # << >>
  PROVE  Tail(s) = Lru!RemoveAt(s, 1) /\ 1 \in DOMAIN s
<1>1. s \in Seq(S) /\ Len(s) \in Nat \ {0}
  BY DEF Lists
<1>2. SubSeq(s, 1, 1 - 1) = << >>
  BY <1>1
<1>3. SubSeq(s, 1 + 1, Len(s)) = Tail(s) /\ Tail(s) \in Seq(S)
  BY <1>1
<1>4. << >> \o Tail(s) = Tail(s)
  BY <1>3
<1>5. 1 \in DOMAIN s
  BY <1>1
<1> QED
  BY <1>2, <1>3, <1>4, <1>5, Zenon DEF Lru!RemoveAt

(* An empty list. *)
LEMMA ListEmpty == \A c : Lists(<< >>, {}, c)
BY DEF Lists

(* At first the pages are listed by their numbers. *)
LEMMA ListFirst ==
  ASSUME NEW n \in Nat, NEW c, \A g \in 0 .. n - 1 : c[g] = 0
  PROVE  Lists([j \in 1 .. n |-> j - 1], 0 .. n - 1, c)
<1> DEFINE s == [j \in 1 .. n |-> j - 1]
<1>1. s \in [1 .. n -> 0 .. n - 1]
  OBVIOUS
<1>2. s \in Seq(0 .. n - 1) /\ DOMAIN s = 1 .. n /\ \A i \in 1 .. n : s[i] = i - 1
  BY <1>1
<1> HIDE DEF s
<1>3. \A g \in 0 .. n - 1 : \E i \in DOMAIN s : s[i] = g
  <2> TAKE g \in 0 .. n - 1
  <2>1. g + 1 \in DOMAIN s /\ s[g + 1] = g
    BY <1>2
  <2> QED
    BY <2>1
<1>4. \A i, j \in DOMAIN s : i < j => Before(c, s[i], s[j])
  <2> SUFFICES ASSUME NEW i \in DOMAIN s, NEW j \in DOMAIN s, i < j PROVE Before(c, s[i], s[j])
    OBVIOUS
  <2>1. s[i] = i - 1 /\ s[j] = j - 1 /\ s[i] \in 0 .. n - 1 /\ s[j] \in 0 .. n - 1
    BY <1>2
  <2>2. c[s[i]] = 0 /\ c[s[j]] = 0
    BY <2>1
  <2>3. s[i] < s[j]
    BY <1>2, <2>1
  <2> QED
    BY <2>2, <2>3 DEF Before
<1> QED
  BY <1>2, <1>3, <1>4 DEF Lists, s

--------------------------------------------------------------------------------
(* The counters and the end mark *)

(* What TypeOK says of the tables of one process. *)
LEMMA TableFacts ==
  ASSUME TypeOK, NEW p \in Proc
  PROVE  /\ DOMAIN frame = Proc /\ DOMAIN lru_ctr = Proc
         /\ frame[p] \in [Page -> Frame \cup {NoFrame}] /\ lru_ctr[p] \in [Page -> Nat]
         /\ m_i[p] \in 1 .. M
<1>1. /\ frame \in [Proc -> [Page -> Frame \cup {NoFrame}]] /\ lru_ctr \in [Proc -> [Page -> Nat]]
      /\ m_i \in [Proc -> 1 .. M]
  BY DEF TypeOK
<1> HIDE DEF Proc, Page, Frame, NoFrame
<1> QED
  BY <1>1

(* No counter is ahead of the timestamp, and all are 0 until the MMU serves; the *)
(* free frame list has one end mark.                                              *)
LruInv ==
  /\ \A p \in Proc : \A g \in Page : lru_ctr[p][g] <= count
  /\ phase # "serve" => \A p \in Proc : \A g \in Page : lru_ctr[p][g] = 0
  /\ \A f \in Frame : SM2[f] # EndMark

(* So it is at the start, *)
LEMMA InitLruInv == Init => LruInv
BY SizeAssumption DEF Init, LruInv

(* One counter is set to the timestamp. *)
LEMMA CounterSet ==
  ASSUME IInv, LruInv, Tick, NEW p \in Proc, NEW g \in Page,
         lru_ctr' = [lru_ctr EXCEPT ![p][g] = count'],
         \A f \in Frame : SM2'[f] # EndMark
  PROVE  LruInv'
<1>1. TypeOK /\ phase' = "serve" /\ count \in Nat /\ count' = count + 1
  BY DEF IInv, TypeOK, Tick
<1>2. \A q \in Proc : \A h \in Page :
        /\ lru_ctr[q][h] \in Nat /\ lru_ctr[q][h] <= count
        /\ lru_ctr'[q][h] = IF q = p /\ h = g THEN count' ELSE lru_ctr[q][h]
  <2> HIDE DEF Proc, Page
  <2> SUFFICES ASSUME NEW q \in Proc, NEW h \in Page
               PROVE  /\ lru_ctr[q][h] \in Nat /\ lru_ctr[q][h] <= count
                      /\ lru_ctr'[q][h] = IF q = p /\ h = g THEN count' ELSE lru_ctr[q][h]
    OBVIOUS
  <2>1. lru_ctr[q] \in [Page -> Nat] /\ DOMAIN lru_ctr = Proc
    BY <1>1, TableFacts
  <2> QED
    BY <2>1 DEF LruInv
<1> QED
  BY <1>1, <1>2 DEF LruInv

(* and after every step. *)
LEMMA NextLruInv == IInv /\ LruInv /\ [Next]_vars => LruInv'
<1> SUFFICES ASSUME IInv, LruInv, [Next]_vars PROVE LruInv'
  OBVIOUS
<1>0. TypeOK /\ count \in Nat
  BY DEF IInv, TypeOK
<1>1. CASE AddDemand \/ StartAllocation \/ ForkMMU \/ UNCHANGED vars
  BY <1>1 DEF AddDemand, StartAllocation, ForkMMU, vars, LruInv
<1>2. CASE AllotFrames
  <2>1. /\ phase # "serve" /\ UNCHANGED <<phase, lru_ctr, count>>
        /\ \A f \in Frame : SM2'[f] = 0 \/ SM2'[f] = SM2[f]
    BY <1>2, SizeAssumption DEF AllotFrames
  <2> QED
    BY <2>1 DEF LruInv
<1>3. ASSUME NEW p \in Proc, Tick, ReleaseAll(p) PROVE LruInv'
  <2>1. phase' = "serve" /\ count' = count + 1
    BY <1>3 DEF Tick
  <2>2. \A f \in Frame : SM2'[f] = 1 \/ SM2'[f] = SM2[f]
    BY <1>3, SizeAssumption DEF ReleaseAll
  <2>3. \A q \in Proc : \A h \in Page :
          /\ lru_ctr[q][h] \in Nat /\ lru_ctr[q][h] <= count
          /\ lru_ctr'[q][h] = 0 \/ lru_ctr'[q][h] = lru_ctr[q][h]
    <3>1. lru_ctr' = [lru_ctr EXCEPT ![p] =
                        [g \in Page |-> IF g \in Resident(p) THEN 0 ELSE lru_ctr[p][g]]]
      BY <1>3 DEF ReleaseAll
    <3> HIDE DEF Proc, Page
    <3> SUFFICES ASSUME NEW q \in Proc, NEW h \in Page
                 PROVE  /\ lru_ctr[q][h] \in Nat /\ lru_ctr[q][h] <= count
                        /\ lru_ctr'[q][h] = 0 \/ lru_ctr'[q][h] = lru_ctr[q][h]
      OBVIOUS
    <3>2. lru_ctr[q] \in [Page -> Nat] /\ DOMAIN lru_ctr = Proc
      BY <1>0, TableFacts
    <3> QED
      BY <3>1, <3>2 DEF LruInv
  <2>4. \A q \in Proc : \A h \in Page : lru_ctr'[q][h] <= count'
    <3> HIDE DEF Proc, Page
    <3> QED
      BY <1>0, <2>1, <2>3
  <2>5. \A f \in Frame : SM2'[f] # EndMark
    BY <2>2 DEF LruInv
  <2> QED
    BY <2>1, <2>4, <2>5 DEF LruInv
<1>4. ASSUME NEW p \in Proc, NEW g \in Page, Hit(p, g) \/ ReplaceLocally(p, g) PROVE LruInv'
  <2>1. Tick /\ SM2' = SM2 /\ lru_ctr' = [lru_ctr EXCEPT ![p][g] = count']
    BY <1>4 DEF Hit, ReplaceLocally, PageFault
  <2> QED
    BY <2>1, CounterSet DEF LruInv
<1>5. ASSUME NEW p \in Proc, NEW g \in Page, LoadIntoFreeFrame(p, g) PROVE LruInv'
  <2>1. PICK f \in 0 .. F : SM2' = [SM2 EXCEPT ![f] = 0]
    BY <1>5 DEF LoadIntoFreeFrame
  <2>2. Tick /\ lru_ctr' = [lru_ctr EXCEPT ![p][g] = count']
    BY <1>5 DEF LoadIntoFreeFrame, PageFault
  <2>3. \A e \in Frame : SM2'[e] = 0 \/ SM2'[e] = SM2[e]
    <3>1. DOMAIN SM2 = 0 .. F
      BY <1>0 DEF TypeOK
    <3> QED
      BY <2>1, <3>1, SizeAssumption
  <2>4. \A e \in Frame : SM2'[e] # EndMark
    BY <2>3 DEF LruInv
  <2> QED
    BY <2>2, <2>4, CounterSet
<1>6. ASSUME NEW p \in Proc, NEW g \in Page, NothingToReplace(p, g) PROVE LruInv'
  <2>1. phase' = "serve" /\ count' = count + 1 /\ UNCHANGED <<lru_ctr, SM2>>
    BY <1>6 DEF NothingToReplace, PageFault, Tick
  <2>2. \A q \in Proc : \A h \in Page :
          /\ lru_ctr[q][h] \in Nat /\ lru_ctr[q][h] <= count
          /\ lru_ctr'[q][h] = lru_ctr[q][h]
    BY <1>0, <2>1, TableFacts DEF LruInv
  <2>3. \A q \in Proc : \A h \in Page : lru_ctr'[q][h] <= count'
    BY <1>0, <2>1, <2>2
  <2> QED
    BY <2>1, <2>3 DEF LruInv
<1> QED
  BY <1>1, <1>2, <1>3, <1>4, <1>5, <1>6 DEF Next, Complete, Request, InvalidReference

(* No counter runs ahead in any state. *)
LEMMA LruInvAlways == Spec => []LruInv
BY InitLruInv, NextLruInv, Invariance, PTL DEF Spec

--------------------------------------------------------------------------------
(* The operations of LocalLru *)

(* The resident pages are numbers, finitely many, and their counters too. *)
LEMMA ResidentFacts ==
  ASSUME TypeOK, NEW p \in Proc
  PROVE  /\ Resident(p) \in SUBSET Nat /\ IsFiniteSet(Resident(p))
         /\ \A g \in Resident(p) : g \in Page /\ lru_ctr[p][g] \in Nat
<1>1. Resident(p) \subseteq Page /\ Page \subseteq Nat /\ IsFiniteSet(Page)
  BY SizeAssumption, FS_Interval DEF Resident
<1>2. \A g \in Page : lru_ctr[p][g] \in Nat
  BY DEF TypeOK
<1> QED
  BY <1>1, <1>2, FS_Subset

(* The order of eviction is a list of the resident pages by their counters, and  *)
(* any such list is the order of eviction.                                        *)
EvictionListed ==
  \A p \in Proc :
    /\ Lists(EvictionOrder(p), Resident(p), lru_ctr[p])
    /\ Len(EvictionOrder(p)) = Cardinality(Resident(p))
    /\ \A s : Lists(s, Resident(p), lru_ctr[p]) => s = EvictionOrder(p)

(* It is, whenever the types are right.                                        *)
LEMMA EvictionIsListed == TypeOK => EvictionListed
<1> SUFFICES ASSUME TypeOK, NEW p \in Proc
             PROVE  /\ Lists(EvictionOrder(p), Resident(p), lru_ctr[p])
                    /\ Len(EvictionOrder(p)) = Cardinality(Resident(p))
                    /\ \A s : Lists(s, Resident(p), lru_ctr[p]) => s = EvictionOrder(p)
  BY DEF EvictionListed
<1> DEFINE S == Resident(p)
           c == lru_ctr[p]
<1>1. S \in SUBSET Nat /\ IsFiniteSet(S) /\ \A g \in S : c[g] \in Nat
  BY ResidentFacts
<1>2. EvictionOrder(p) = Sorted(S, c)
  BY DEF EvictionOrder
<1> HIDE DEF S, c
<1>3. Lists(Sorted(S, c), S, c) /\ Len(Sorted(S, c)) = Cardinality(S)
  BY <1>1, SortedLists
<1>4. \A s : Lists(s, S, c) => s = Sorted(S, c)
  BY <1>1, <1>3, ListsOnce
<1> QED
  BY <1>2, <1>3, <1>4 DEF S, c

(* Frames are finitely many. *)
LEMMA FreeFinite == IsFiniteSet(FreeFrames) /\ IsFiniteSet(FreeFrames')
<1>1. IsFiniteSet(Frame)
  BY SizeAssumption, FS_Interval
<1>2. FreeFrames \subseteq Frame /\ FreeFrames' \subseteq Frame
  BY DEF FreeFrames
<1> QED
  BY <1>1, <1>2, FS_Subset

orders == [p \in Proc |-> EvictionOrder(p)]

(* A step that concerns one process leaves the order of the others alone. *)
LEMMA OthersKept ==
  ASSUME NEW p \in Proc, m_i' = m_i,
         \A q \in Proc : q # p => frame'[q] = frame[q] /\ lru_ctr'[q] = lru_ctr[q]
  PROVE  orders' = [orders EXCEPT ![p] = EvictionOrder(p)']
<1>1. \A q \in Proc : q # p => EvictionOrder(q)' = EvictionOrder(q)
  BY DEF EvictionOrder, Resident
<1> QED
  BY <1>1 DEF orders

(* The list of the pages of p, as it is before the step. *)
LEMMA ListNow ==
  ASSUME TypeOK, NEW p \in Proc
  PROVE  /\ Lists(EvictionOrder(p), Resident(p), lru_ctr[p])
         /\ Len(EvictionOrder(p)) = Cardinality(Resident(p))
         /\ EvictionOrder(p) \in Seq(Page)
         /\ \A g \in Page : g \in Resident(p) <=> Lru!InMemory(p, g)
         /\ Resident(p) = {} <=> EvictionOrder(p) = << >>
<1> DEFINE s == EvictionOrder(p)
           S == Resident(p)
<1>1. Lists(s, S, lru_ctr[p]) /\ Len(s) = Cardinality(S)
  BY EvictionIsListed DEF EvictionListed
<1>2. S \subseteq Page /\ IsFiniteSet(S)
  BY ResidentFacts
<1>3. /\ s \in Seq(S) /\ DOMAIN s = 1 .. Len(s) /\ Len(s) \in Nat
      /\ \A g \in S : \E i \in 1 .. Len(s) : s[i] = g
      /\ \A i \in 1 .. Len(s) : s[i] \in S
  BY <1>1 DEF Lists
<1> HIDE DEF s, S
<1>4. s \in Seq(Page)
  <2> HIDE DEF Page
  <2>1. s \in [1 .. Len(s) -> Page]
    BY <1>2, <1>3
  <2> QED
    BY <1>3, <2>1
<1>5. \A g \in Page : g \in S <=> \E i \in 1 .. Len(s) : s[i] = g
  BY <1>3
<1>6. S = {} <=> s = << >>
  <2>1. S = {} => Len(s) = 0
    BY <1>1, FS_EmptySet
  <2>2. s = << >> => \A g : g \notin S
    BY <1>3
  <2> QED
    BY <1>3, <2>1, <2>2
<1> QED
  BY <1>1, <1>4, <1>5, <1>6 DEF Lru!InMemory, Lru!Contains, s, S

(* The list after the step. *)
LEMMA ListThen ==
  ASSUME TypeOK', NEW p \in Proc, NEW s, Lists(s, Resident(p)', lru_ctr'[p])
  PROVE  EvictionOrder(p)' = s
<1>1. EvictionListed'
  BY EvictionIsListed, PTL
<1> QED
  BY <1>1 DEF EvictionListed

(* All frames of the process are freed and its list is emptied. *)
LEMMA ReleaseIsLru ==
  ASSUME IInv, IInv', NEW p \in Proc, Tick, ReleaseAll(p)
  PROVE  Lru!ReleasePages(p)
<1>0. TypeOK /\ TypeOK' /\ FramesExclusive /\ FreeListExact /\ m_i' = m_i
  BY DEF IInv, Tick, setupVars
<1>1. \A q \in Proc : q # p => frame'[q] = frame[q] /\ lru_ctr'[q] = lru_ctr[q]
  BY <1>0, TableFacts DEF ReleaseAll
<1>2. frame'[p] = [g \in Page |-> IF g \in Resident(p) THEN NoFrame ELSE frame[p][g]]
  BY <1>0, TableFacts DEF ReleaseAll
<1>3. Resident(p)' = {}
  BY <1>0, <1>2 DEF Resident
<1>4. EvictionOrder(p)' = << >>
  BY <1>0, <1>3, ListEmpty, ListThen
<1>5. orders' = [orders EXCEPT ![p] = << >>]
  BY <1>0, <1>1, <1>4, OthersKept
<1>6. IsFiniteSet(Resident(p))
  BY <1>0, ResidentFacts
<1>7. IsFiniteSet(Held(p)) /\ Cardinality(Held(p)) = Cardinality(Resident(p))
  <2> DEFINE h == [g \in Resident(p) |-> frame[p][g]]
  <2>1. h \in Surjection(Resident(p), Held(p))
    BY DEF Surjection, Held
  <2>2. h \in Injection(Resident(p), Held(p))
    <3>1. h \in [Resident(p) -> Held(p)]
      BY DEF Held
    <3>2. \A g, e \in Resident(p) : h[g] = h[e] => g = e
      BY <1>0 DEF FramesExclusive, Resident
    <3> HIDE DEF h
    <3> QED
      BY <3>1, <3>2 DEF Injection, IsInjective
  <2> HIDE DEF h
  <2> QED
    BY <1>6, <2>1, <2>2, FS_Surjection
<1>8. Held(p) \subseteq Frame /\ Held(p) \cap FreeFrames = {}
  <2>1. \A g \in Resident(p) : g \in Page /\ frame[p][g] \in Frame
    BY <1>0, FrameRange DEF Resident
  <2> QED
    BY <1>0, <2>1 DEF Held, FreeFrames, FreeListExact
<1>9. FreeFrames' = FreeFrames \cup Held(p)
  <2>1. Frame \subseteq 0 .. F
    BY SizeAssumption
  <2> QED
    BY <1>8, <2>1 DEF ReleaseAll, FreeFrames
<1>10. Cardinality(FreeFrames') = Cardinality(FreeFrames) + Cardinality(Resident(p))
  <2>1. Cardinality(FreeFrames \cap Held(p)) = 0
    BY <1>8, FS_EmptySet
  <2>2. Cardinality(FreeFrames) \in Nat /\ Cardinality(Held(p)) \in Nat
    BY <1>7, FreeFinite, FS_CardinalityType
  <2>3. Cardinality(FreeFrames \cup Held(p))
          = Cardinality(FreeFrames) + Cardinality(Held(p)) - Cardinality(FreeFrames \cap Held(p))
    BY <1>7, FreeFinite, FS_Union
  <2> QED
    BY <1>7, <1>9, <2>1, <2>2, <2>3
<1>11. Len(EvictionOrder(p)) = Cardinality(Resident(p))
  BY <1>0, ListNow
<1> QED
  BY <1>5, <1>10, <1>11 DEF Lru!ReleasePages, orders

(* A hit moves the page to the end. *)
LEMMA HitIsLru ==
  ASSUME IInv, IInv', LruInv, NEW p \in Proc, NEW g \in Page, Hit(p, g)
  PROVE  Lru!Touch(p, g)
<1>0. TypeOK /\ TypeOK' /\ m_i' = m_i /\ count \in Nat /\ count' = count + 1
  BY DEF IInv, Hit, Tick, setupVars, TypeOK
<1>1. /\ IsLegal(p, g) /\ frame[p][g] # NoFrame /\ frame' = frame /\ SM2' = SM2
      /\ lru_ctr' = [lru_ctr EXCEPT ![p][g] = count']
  BY DEF Hit
<1> DEFINE s == EvictionOrder(p)
           S == Resident(p)
           c == lru_ctr[p]
           d == lru_ctr'[p]
<1>2. /\ \A q \in Proc : q # p => frame'[q] = frame[q] /\ lru_ctr'[q] = lru_ctr[q]
      /\ \A h \in Page : d[h] = IF h = g THEN count' ELSE c[h]
  BY <1>0, <1>1, TableFacts
<1>3. Lists(s, S, c) /\ S \in SUBSET Nat /\ \A h \in S : h \in Page /\ c[h] \in Nat /\ c[h] <= count
  BY <1>0, ListNow, ResidentFacts DEF LruInv
<1>4. g \in S /\ Resident(p)' = S
  BY <1>0, <1>1 DEF Resident, IsLegal
<1> HIDE DEF s, S, c, d
<1>5. PICK i \in DOMAIN s : s[i] = g
  BY <1>3, <1>4 DEF Lists
<1> DEFINE t == Lru!RemoveAt(s, i)
<1>6. Lists(t, S \ {g}, c)
  BY <1>3, <1>5, ListRemove
<1> HIDE DEF t
<1>7. \A h \in S \ {g} : d[h] = c[h] /\ d[h] < d[g]
  <2> HIDE DEF Page
  <2> TAKE h \in S \ {g}
  <2>1. d[g] = count'
    BY <1>2
  <2>2. h \in Page /\ c[h] \in Nat /\ c[h] <= count
    BY <1>3
  <2>3. d[h] = c[h]
    BY <1>2, <2>2
  <2> QED
    BY <1>0, <2>1, <2>2, <2>3
<1>8. Lists(Append(t, g), (S \ {g}) \cup {g}, d)
  BY <1>6, <1>7, ListAppend
<1>9. (S \ {g}) \cup {g} = S
  BY <1>4
<1>10. EvictionOrder(p)' = Append(t, g)
  BY <1>0, <1>4, <1>8, <1>9, ListThen DEF d
<1>11. orders' = [orders EXCEPT ![p] = Append(Lru!RemoveAt(@, i), g)]
  <2>1. orders[p] = s
    BY DEF orders, s
  <2> QED
    BY <1>0, <1>2, <1>10, <2>1, OthersKept DEF t
<1>12. FreeFrames' = FreeFrames
  BY <1>1 DEF FreeFrames
<1> QED
  BY <1>5, <1>11, <1>12 DEF Lru!Touch, orders, s

(* A page that was not in memory is put last. *)
LEMMA LoadedLast ==
  ASSUME TypeOK, TypeOK', LruInv, NEW p \in Proc, NEW g \in Page, Tick,
         NEW T \in SUBSET (Resident(p) \ {g}), NEW t, Lists(t, T, lru_ctr[p]),
         Resident(p)' = T \cup {g}, lru_ctr' = [lru_ctr EXCEPT ![p][g] = count'],
         \A q \in Proc : q # p => frame'[q] = frame[q]
  PROVE  orders' = [orders EXCEPT ![p] = Append(t, g)]
<1> DEFINE c == lru_ctr[p]
           d == lru_ctr'[p]
<1>1. m_i' = m_i /\ count \in Nat /\ count' = count + 1
  BY DEF Tick, setupVars, TypeOK
<1>2. /\ \A q \in Proc : q # p => lru_ctr'[q] = lru_ctr[q]
      /\ \A h \in Page : d[h] = IF h = g THEN count' ELSE c[h]
  BY TableFacts
<1>3. \A h \in T : h \in Page /\ h # g /\ c[h] \in Nat /\ c[h] <= count
  BY ResidentFacts DEF LruInv
<1> HIDE DEF c, d
<1>4. \A h \in T : d[h] = c[h] /\ d[h] < d[g]
  BY <1>1, <1>2, <1>3
<1>5. Lists(Append(t, g), T \cup {g}, d)
  BY <1>3, <1>4, ListAppend DEF c
<1>6. EvictionOrder(p)' = Append(t, g)
  BY <1>5, ListThen DEF d
<1> QED
  BY <1>1, <1>2, <1>6, OthersKept

(* A page loaded into a free frame is put last. *)
LEMMA LoadIsLru ==
  ASSUME IInv, IInv', LruInv, NEW p \in Proc, NEW g \in Page, LoadIntoFreeFrame(p, g)
  PROVE  Lru!LoadFree(p, g)
<1>0. TypeOK /\ TypeOK' /\ FreeListExact
  BY DEF IInv
<1>1. PICK f \in 0 .. F :
        /\ SM2[f] = 1 /\ IsLegal(p, g) /\ frame[p][g] = NoFrame /\ Tick
        /\ frame' = [frame EXCEPT ![p][g] = f]
        /\ lru_ctr' = [lru_ctr EXCEPT ![p][g] = count']
        /\ SM2' = [SM2 EXCEPT ![f] = 0]
  BY DEF LoadIntoFreeFrame, PageFault
<1>2. f \in Frame
  BY <1>0, <1>1, SizeAssumption DEF FreeListExact
<1>3. /\ \A q \in Proc : q # p => frame'[q] = frame[q]
      /\ \A h \in Page : frame'[p][h] = IF h = g THEN f ELSE frame[p][h]
  BY <1>0, <1>1, TableFacts
<1> DEFINE S == Resident(p)
<1>4. g \notin S /\ Resident(p)' = S \cup {g}
  <2>1. m_i' = m_i /\ f # NoFrame
    BY <1>1, <1>2 DEF Tick, setupVars
  <2> QED
    BY <1>1, <1>3, <2>1 DEF Resident, IsLegal
<1>5. /\ Lists(EvictionOrder(p), S, lru_ctr[p]) /\ S \in SUBSET (S \ {g})
      /\ ~ Lru!InMemory(p, g)
  BY <1>0, <1>4, ListNow
<1> HIDE DEF S
<1>6. orders' = [orders EXCEPT ![p] = Append(EvictionOrder(p), g)]
  BY <1>0, <1>1, <1>3, <1>4, <1>5, LoadedLast DEF S
<1>7. orders' = [orders EXCEPT ![p] = Append(@, g)]
  <2>1. orders[p] = EvictionOrder(p)
    BY DEF orders
  <2> QED
    BY <1>6, <2>1
<1>8. FreeFrames' = FreeFrames \ {f} /\ f \in FreeFrames
  <2>1. Frame \subseteq 0 .. F
    BY SizeAssumption
  <2> QED
    BY <1>0, <1>1, <1>2, <2>1 DEF FreeFrames, TypeOK
<1>9. /\ Cardinality(FreeFrames') = Cardinality(FreeFrames) - 1
      /\ Cardinality(FreeFrames) \in Nat /\ Cardinality(FreeFrames) # 0
  BY <1>8, FreeFinite, FS_RemoveElement, FS_CardinalityType, FS_EmptySet
<1>10. Cardinality(FreeFrames) > 0
  BY <1>9
<1> QED
  BY <1>5, <1>7, <1>9, <1>10 DEF Lru!LoadFree, orders, Lru!InMemory

(* Without a free frame the scan stops at the one end mark. *)
LEMMA NoneFree ==
  ASSUME LruInv, NoFreeFrame
  PROVE  FreeFrames = {} /\ Cardinality(FreeFrames) = 0
<1>1. PICK f \in 0 .. F : SM2[f] = EndMark /\ \A e \in 0 .. f - 1 : SM2[e] = 0
  BY DEF NoFreeFrame, ScanStopsAt
<1>2. f = F
  BY <1>1, SizeAssumption DEF LruInv
<1>3. \A e \in Frame : SM2[e] = 0
  BY <1>1, <1>2
<1>4. FreeFrames = {}
  BY <1>3 DEF FreeFrames
<1> QED
  BY <1>4, FS_EmptySet

(* The victim is the first of the list. *)
LEMMA VictimFirst ==
  ASSUME TypeOK, NEW p \in Proc, NEW v \in Page, IsVictim(p, v)
  PROVE  EvictionOrder(p) # << >> /\ EvictionOrder(p)[1] = v
<1> DEFINE s == EvictionOrder(p)
           S == Resident(p)
           c == lru_ctr[p]
<1>1. /\ v \in S /\ \A g \in S : c[v] < c[g] \/ (c[v] = c[g] /\ v <= g)
      /\ S \in SUBSET Nat /\ \A g \in S : c[g] \in Nat
  BY ResidentFacts DEF IsVictim
<1>2. Lists(s, S, c)
  BY ListNow
<1> HIDE DEF s, S, c
<1>3. PICK i \in DOMAIN s : s[i] = v
  BY <1>1, <1>2 DEF Lists
<1>4. s \in Seq(S) /\ i \in 1 .. Len(s) /\ Len(s) \in Nat /\ 1 \in DOMAIN s /\ s[1] \in S
  BY <1>2, <1>3 DEF Lists
<1>5. s[1] = v
  <2> SUFFICES ASSUME s[1] # v PROVE FALSE
    OBVIOUS
  <2>1. i # 1 /\ 1 < i
    BY <1>3, <1>4
  <2>2. Before(c, s[1], v)
    BY <1>2, <1>3, <1>4, <2>1 DEF Lists
  <2>3. Before(c, v, s[1])
    <3>1. c[v] < c[s[1]] \/ (c[v] = c[s[1]] /\ v <= s[1])
      BY <1>1, <1>4
    <3>2. v \in Nat /\ s[1] \in Nat
      BY <1>1, <1>4
    <3>3. v < s[1] \/ ~ (v <= s[1])
      BY <3>2
    <3> QED
      BY <3>1, <3>3 DEF Before
  <2> QED
    BY <1>1, <1>4, <2>2, <2>3, BeforeOrders
<1> QED
  BY <1>4, <1>5 DEF s

(* A page loaded in the place of another is put last, and the first gives way. *)
LEMMA ReplaceIsLru ==
  ASSUME IInv, IInv', LruInv, NEW p \in Proc, NEW g \in Page, ReplaceLocally(p, g)
  PROVE  Lru!Evict(p, g)
<1>0. TypeOK /\ TypeOK'
  BY DEF IInv
<1>1. PICK v \in Page :
        /\ NoFreeFrame /\ IsVictim(p, v) /\ IsLegal(p, g) /\ frame[p][g] = NoFrame /\ Tick
        /\ frame' = [frame EXCEPT ![p] = [@ EXCEPT ![g] = frame[p][v], ![v] = NoFrame]]
        /\ lru_ctr' = [lru_ctr EXCEPT ![p][g] = count']
        /\ SM2' = SM2
  BY DEF ReplaceLocally, PageFault
<1> DEFINE S == Resident(p)
           T == S \ {v}
           s == EvictionOrder(p)
<1>2. v \in S /\ frame[p][v] # NoFrame /\ v # g /\ g \notin S
  BY <1>1 DEF IsVictim, Resident
<1>3. /\ \A q \in Proc : q # p => frame'[q] = frame[q]
      /\ \A h \in Page : frame'[p][h] = IF h = v THEN NoFrame
                                        ELSE IF h = g THEN frame[p][v] ELSE frame[p][h]
  BY <1>0, <1>1, TableFacts
<1>4. Resident(p)' = T \cup {g} /\ T \in SUBSET (S \ {g})
  <2>1. m_i' = m_i
    BY <1>1 DEF Tick, setupVars
  <2>2. frame'[p][g] # NoFrame /\ frame'[p][v] = NoFrame /\ g < m_i[p] /\ g \in Page
    BY <1>1, <1>2, <1>3 DEF IsLegal
  <2>3. \A h \in Page : h \notin {g, v} => frame'[p][h] = frame[p][h]
    BY <1>3
  <2> HIDE DEF Page, NoFrame
  <2> QED
    BY <1>2, <2>1, <2>2, <2>3 DEF Resident
<1>5. s # << >> /\ s[1] = v
  BY <1>0, <1>1, VictimFirst
<1>6. /\ Lists(s, S, lru_ctr[p]) /\ S \in SUBSET Nat /\ \A h \in S : lru_ctr[p][h] \in Nat
      /\ ~ Lru!InMemory(p, g)
  BY <1>0, <1>2, ListNow, ResidentFacts
<1> HIDE DEF S, s
<1>7. Lists(Tail(s), T, lru_ctr[p])
  <2>1. Tail(s) = Lru!RemoveAt(s, 1) /\ 1 \in DOMAIN s
    BY <1>5, <1>6, ListTail
  <2> QED
    BY <1>5, <1>6, <2>1, ListRemove
<1> HIDE DEF T
<1>8. orders' = [orders EXCEPT ![p] = Append(Tail(s), g)]
  BY <1>0, <1>1, <1>3, <1>4, <1>7, LoadedLast DEF S
<1>9. orders[p] = s
  BY DEF orders, s
<1>10. orders' = [orders EXCEPT ![p] = Append(Tail(@), g)] /\ orders[p] # << >>
  BY <1>5, <1>8, <1>9
<1>11. Cardinality(FreeFrames) = 0 /\ FreeFrames' = FreeFrames
  BY <1>1, NoneFree DEF FreeFrames
<1> QED
  BY <1>6, <1>10, <1>11 DEF Lru!Evict, orders, Lru!InMemory

(* With neither a free frame nor a page of its own a process gets nothing. *)
LEMMA NothingIsLru ==
  ASSUME IInv, LruInv, NEW p \in Proc, NEW g \in Page, NothingToReplace(p, g)
  PROVE  Lru!LoadNothing(p, g)
<1>1. /\ NoFreeFrame /\ Resident(p) = {} /\ UNCHANGED <<frame, lru_ctr, SM2, m_i>>
  BY DEF NothingToReplace, PageFault, Tick, setupVars
<1>2. EvictionOrder(p) = << >>
  BY <1>1, ListNow DEF IInv
<1>3. orders' = orders
  <2>1. \A q \in Proc : EvictionOrder(q)' = EvictionOrder(q)
    BY <1>1 DEF EvictionOrder, Resident
  <2> QED
    BY <2>1 DEF orders
<1>4. FreeFrames' = FreeFrames /\ Cardinality(FreeFrames) = 0
  BY <1>1, NoneFree DEF FreeFrames
<1> QED
  BY <1>2, <1>3, <1>4 DEF Lru!LoadNothing, Lru!memory, orders

(* Master hands out the frames of a process's first pages. *)
LEMMA AllotIsLru ==
  ASSUME IInv, IInv', LruInv, AllotFrames
  PROVE  Lru!Allot(next, Allotted(next))
<1> DEFINE n == Allotted(next)
<1>0. TypeOK /\ TypeOK' /\ SetupInv /\ SetupInv'
  BY DEF IInv
<1>1. next \in Proc /\ n \in Nat /\ n <= m_i[next] /\ frame_num + n <= F
  BY AllotmentFits DEF AllotFrames
<1>2. /\ phase = "allocate" /\ phase' = "allocate" /\ m_i' = m_i /\ lru_ctr' = lru_ctr
      /\ frame' = [frame EXCEPT ![next] =
                     [g \in Page |-> IF g < n THEN frame_num + g ELSE frame[next][g]]]
      /\ frame_num' = frame_num + n
  BY DEF AllotFrames
<1>3. frame_num \in Nat /\ m_i[next] \in 1 .. M
  BY <1>0, <1>1, TableFacts DEF TypeOK
<1> HIDE DEF n
<1>4. \A g \in Page : frame[next][g] = NoFrame
  <2> TAKE g \in Page
  <2>1. frame[next][g] # NoFrame => next < next
    BY <1>0, <1>1, <1>2 DEF SetupInv
  <2> QED
    BY <1>1, <2>1
<1>5. Resident(next) = {}
  BY <1>4 DEF Resident
<1>6. EvictionOrder(next) = << >>
  BY <1>0, <1>1, <1>5, ListNow
<1>7. /\ \A q \in Proc : q # next => frame'[q] = frame[q] /\ lru_ctr'[q] = lru_ctr[q]
      /\ \A g \in Page : frame'[next][g] = IF g < n THEN frame_num + g ELSE NoFrame
  BY <1>0, <1>1, <1>2, <1>4, TableFacts
<1> DEFINE p == next
           R == {g \in Page : g < m_i'[p] /\ frame'[p][g] # NoFrame}
           t == [j \in 1 .. n |-> j - 1]
<1>8. R = 0 .. n - 1 /\ 0 .. n - 1 \subseteq Page
  <2>1. m_i'[p] = m_i[next] /\ M \in Nat /\ n <= M /\ m_i[next] \in Nat
    BY <1>1, <1>2, <1>3, SizeAssumption
  <2>2. \A g \in 0 .. n - 1 : g \in Page /\ g < m_i[next]
    BY <1>1, <2>1
  <2>3. \A g \in Page : g < n => g \in 0 .. n - 1 /\ frame_num + g # NoFrame
    BY <1>1, <1>3, <2>1
  <2>4. \A g \in 0 .. n - 1 : g < n
    BY <1>1
  <2> HIDE DEF Page, p, NoFrame
  <2>5. R \subseteq 0 .. n - 1
    BY <1>7, <2>3 DEF p
  <2>6. 0 .. n - 1 \subseteq R
    BY <1>7, <2>1, <2>2, <2>3, <2>4 DEF p
  <2> QED
    BY <2>2, <2>5, <2>6
<1>9. Lists(t, 0 .. n - 1, lru_ctr'[p])
  <2>1. \A g \in Page : lru_ctr'[p][g] = 0
    BY <1>1, <1>2 DEF LruInv
  <2>2. \A g \in 0 .. n - 1 : lru_ctr'[p][g] = 0
    <3> HIDE DEF Page
    <3> QED
      BY <1>8, <2>1
  <2> QED
    BY <1>1, <2>2, ListFirst
<1> HIDE DEF t
<1>10. \A q \in Proc : q = p => EvictionOrder(q)' = t
  <2> SUFFICES ASSUME NEW q \in Proc, q = p PROVE EvictionOrder(q)' = t
    OBVIOUS
  <2>1. Resident(q)' = R
    BY DEF Resident
  <2> QED
    BY <1>0, <1>8, <1>9, <2>1, ListThen
<1>11. orders' = [orders EXCEPT ![p] = t]
  <2>1. \A q \in Proc : q = p => orders' = [orders EXCEPT ![q] = EvictionOrder(q)']
    BY <1>2, <1>7, OthersKept
  <2> QED
    BY <1>1, <1>10, <2>1
<1>12. FreeFrames = frame_num .. F - 1 /\ FreeFrames' = frame_num + n .. F - 1
  <2>1. \A f \in Frame : SM2[f] = 1 <=> f >= frame_num
    BY <1>0, <1>2 DEF SetupInv
  <2>2. \A f \in Frame : SM2'[f] = 1 <=> f >= frame_num + n
    BY <1>0, <1>2 DEF SetupInv
  <2> QED
    BY <1>1, <1>3, <2>1, <2>2, SizeAssumption DEF FreeFrames
<1>13. /\ Cardinality(FreeFrames) = F - frame_num
       /\ Cardinality(FreeFrames') = F - (frame_num + n)
  <2>1. frame_num \in Int /\ frame_num + n \in Int /\ F - 1 \in Int /\ F \in Nat
    BY <1>1, <1>3, SizeAssumption
  <2>2. \A a \in Int : a <= F => Cardinality(a .. F - 1) = F - a
    <3> SUFFICES ASSUME NEW a \in Int, a <= F PROVE Cardinality(a .. F - 1) = F - a
      OBVIOUS
    <3>1. Cardinality(a .. F - 1) = IF a > F - 1 THEN 0 ELSE F - 1 - a + 1
      BY <2>1, FS_Interval
    <3> QED
      BY <2>1, <3>1
  <2> QED
    BY <1>1, <1>3, <1>12, <2>1, <2>2
<1>14. /\ n <= Cardinality(FreeFrames)
       /\ Cardinality(FreeFrames') = Cardinality(FreeFrames) - n
  BY <1>1, <1>3, <1>13, SizeAssumption
<1>15. orders[next] = << >>
  BY <1>1, <1>6 DEF orders
<1> QED
  BY <1>11, <1>14, <1>15 DEF Lru!Allot, orders, n, t

(* The counters order the pages of a process by their last use: whatever master   *)
(* and the MMU do to the tables they do to the lists of LocalLru.                 *)
THEOREM OperationsAreLruAlways == Spec => OperationsAreLru
<1> DEFINE Operations ==
      /\ AllotFrames => Lru!Allot(next, Allotted(next))
      /\ \A p \in Proc :
           /\ Complete(p) => Lru!ReleasePages(p)
           /\ \A g \in Page :
                /\ InvalidReference(p, g) => Lru!ReleasePages(p)
                /\ Hit(p, g)              => Lru!Touch(p, g)
                /\ LoadIntoFreeFrame(p, g) => Lru!LoadFree(p, g)
                /\ ReplaceLocally(p, g)    => Lru!Evict(p, g)
                /\ NothingToReplace(p, g)  => Lru!LoadNothing(p, g)
<1>1. IInv /\ IInv' /\ LruInv => Operations
  <2> SUFFICES ASSUME IInv, IInv', LruInv PROVE Operations
    OBVIOUS
  <2>1. AllotFrames => Lru!Allot(next, Allotted(next))
    BY AllotIsLru
  <2>2. ASSUME NEW p \in Proc PROVE Complete(p) => Lru!ReleasePages(p)
    BY ReleaseIsLru DEF Complete
  <2>3. ASSUME NEW p \in Proc, NEW g \in Page
        PROVE  /\ InvalidReference(p, g) => Lru!ReleasePages(p)
               /\ Hit(p, g)              => Lru!Touch(p, g)
               /\ LoadIntoFreeFrame(p, g) => Lru!LoadFree(p, g)
               /\ ReplaceLocally(p, g)    => Lru!Evict(p, g)
               /\ NothingToReplace(p, g)  => Lru!LoadNothing(p, g)
    <3>1. InvalidReference(p, g) => Lru!ReleasePages(p)
      BY ReleaseIsLru DEF InvalidReference
    <3> QED
      BY <3>1, HitIsLru, LoadIsLru, ReplaceIsLru, NothingIsLru
  <2> QED
    BY <2>1, <2>2, <2>3
<1>2. IInv /\ IInv' /\ LruInv => [Operations]_vars
  BY <1>1
<1> QED
  BY <1>2, Invariance, LruInvAlways, PTL DEF Spec, OperationsAreLru
================================================================================
