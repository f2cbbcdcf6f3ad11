--------------------------- MODULE DemandPagingProofs ---------------------------
(***************************************************************************)
(* Proofs about DemandPaging, for any number of processes, pages and       *)
(* frames and reference strings of any length.                             *)
(***************************************************************************)
EXTENDS DemandPaging, FiniteSetTheorems, SequenceTheorems, TLAPS

--------------------------------------------------------------------------------
(* Counting the elements of a sequence that are in a set *)

LEMMA IntervalSize ==
  ASSUME NEW n \in Nat
  PROVE  IsFiniteSet(1 .. n) /\ Cardinality(1 .. n) = n
<1>1. /\ IsFiniteSet(1 .. n)
      /\ Cardinality(1 .. n) = IF 1 > n THEN 0 ELSE n - 1 + 1
  BY FS_Interval
<1>. QED
  BY <1>1

LEMMA CountBounds ==
  ASSUME NEW R, NEW s \in Seq(R), NEW S
  PROVE  /\ IsFiniteSet({i \in DOMAIN s : s[i] \in S})
         /\ Count(s, S) \in Nat /\ Count(s, S) <= Len(s)
         /\ s = <<>> => Count(s, S) = 0
         /\ (\E i \in DOMAIN s : s[i] \in S) => Count(s, S) > 0
         /\ (\A i \in DOMAIN s : s[i] \in S) => Count(s, S) = Len(s)
<1>. DEFINE D == {i \in DOMAIN s : s[i] \in S}
<1>1. DOMAIN s = 1 .. Len(s) /\ Len(s) \in Nat
  OBVIOUS
<1>2. IsFiniteSet(1 .. Len(s)) /\ Cardinality(1 .. Len(s)) = Len(s)
  BY <1>1, IntervalSize
<1>3. D \in SUBSET (1 .. Len(s))
  BY <1>1
<1>4. IsFiniteSet(D) /\ Cardinality(D) <= Len(s)
  BY <1>2, <1>3, FS_Subset
<1>5. Cardinality(D) \in Nat
  BY <1>4, FS_CardinalityType
<1>6. s = <<>> => D = {}
  OBVIOUS
<1>7. (\A i \in DOMAIN s : s[i] \in S) => D = 1 .. Len(s)
  BY <1>1
<1>8. Count(s, S) = Cardinality(D)
  BY DEF Count
<1>9. (\E i \in DOMAIN s : s[i] \in S) => D # {}
  OBVIOUS
<1>. HIDE DEF D
<1>10. /\ s = <<>> => Count(s, S) = 0
       /\ (\E i \in DOMAIN s : s[i] \in S) => Count(s, S) > 0
  BY <1>4, <1>5, <1>6, <1>8, <1>9, FS_EmptySet
<1>11. (\A i \in DOMAIN s : s[i] \in S) => Count(s, S) = Len(s)
  BY <1>2, <1>7, <1>8
<1>. QED
  BY <1>4, <1>5, <1>8, <1>10, <1>11 DEF D

LEMMA CountAppend ==
  ASSUME NEW R, NEW s \in Seq(R), NEW e \in R, NEW S
  PROVE  Count(Append(s, e), S) = Count(s, S) + (IF e \in S THEN 1 ELSE 0)
<1>. DEFINE D == {i \in DOMAIN s : s[i] \in S}
            n == Len(s) + 1
            E == {i \in DOMAIN Append(s, e) : Append(s, e)[i] \in S}
<1>1. E = IF e \in S THEN D \union {n} ELSE D
  OBVIOUS
<1>2. n \notin D
  OBVIOUS
<1>3. IsFiniteSet(D)
  BY CountBounds
<1>. HIDE DEF D, E, n
<1>4. Cardinality(E) = Cardinality(D) + (IF e \in S THEN 1 ELSE 0)
  <2>1. Cardinality(D \union {n}) = Cardinality(D) + 1
    BY <1>2, <1>3, FS_AddElement
  <2>2. Cardinality(D) \in Nat
    BY <1>3, FS_CardinalityType
  <2>. QED
    BY <1>1, <2>1, <2>2
<1>. QED
  BY <1>4 DEF Count, D, E

LEMMA CountTail ==
  ASSUME NEW R, NEW s \in Seq(R), s # <<>>, NEW S
  PROVE  Count(s, S) = Count(Tail(s), S) + (IF Head(s) \in S THEN 1 ELSE 0)
<1>. DEFINE D == {i \in DOMAIN s : s[i] \in S}
            E == {i \in DOMAIN Tail(s) : Tail(s)[i] \in S}
            f == [i \in E |-> i + 1]
<1>1. /\ Len(s) \in Nat \ {0} /\ Tail(s) \in Seq(R) /\ DOMAIN s = 1 .. Len(s)
      /\ DOMAIN Tail(s) = 1 .. Len(s) - 1 /\ \A i \in DOMAIN Tail(s) : Tail(s)[i] = s[i + 1]
      /\ Head(s) = s[1]
  OBVIOUS
<1>2. f \in Bijection(E, D \ {1})
  <2>1. \A i \in E : f[i] \in D \ {1}
    BY <1>1
  <2>2. \A i, j \in E : f[i] = f[j] => i = j
    BY <1>1
  <2>3. \A j \in D \ {1} : \E i \in E : f[i] = j
    <3> TAKE j \in D \ {1}
    <3>1. j - 1 \in E /\ f[j - 1] = j
      BY <1>1
    <3> QED
      BY <3>1
  <2>. QED
    BY <2>1, <2>2, <2>3 DEF Bijection, Injection, Surjection, IsInjective
<1>3. IsFiniteSet(D) /\ IsFiniteSet(E)
  BY <1>1, CountBounds
<1>4. 1 \in D <=> Head(s) \in S
  BY <1>1
<1>. HIDE DEF D, E, f
<1>5. Cardinality(D \ {1}) = Cardinality(E)
  BY <1>2, <1>3, FS_Bijection DEF ExistsBijection
<1>6. Cardinality(D \ {1}) = IF 1 \in D THEN Cardinality(D) - 1 ELSE Cardinality(D)
  BY <1>3, FS_RemoveElement
<1>7. Cardinality(D) \in Nat /\ Cardinality(E) \in Nat
  BY <1>3, FS_CardinalityType
<1>8. Count(s, S) = Cardinality(D) /\ Count(Tail(s), S) = Cardinality(E)
  BY DEF Count, D, E
<1>. QED
  BY <1>4, <1>5, <1>6, <1>7, <1>8

--------------------------------------------------------------------------------
(* The inductive invariant: what is under way, however slow processes are to receive *)

(* The frames in use are numbered by process and place in its list. *)
Held == UNION {{p} \X DOMAIN resident[p] : p \in Proc}
FramesKept == nfree + Cardinality(Held) = F

MmuHas == {"notify_end", "notify_invalid", "reply_invalid", "reply_frame", "reply_fault",
           "notify_loaded"}

(* Where the programs are, and what they have then. *)
Removals == /\ semsRemoved <=> master \in {"rm_queues", "exited"}
            /\ queuesRemoved <=> master = "exited"
InHand   == /\ mmu \in MmuHas => cur \in Request
            /\ mmu \in {"reply_frame", "reply_fault"} => cur.num \in Page
AtPlace  == \A p \in Proc :
              /\ pc[p] = "answered" <=> answer[p] # NoAnswer
              /\ pc[p] \in {"recv", "waiting"} => token[p] \in Page
              /\ pc[p] \in {"recv", "waiting", "answered"} => left[p] > 0
OneSignal == ~ semsRemoved => \A p \in Proc : sem[p] <= 1

Stages == Removals /\ InHand /\ AtPlace /\ OneSignal

(* waiters lists those who wait, each once. *)
WaitersExact ==
  /\ \A i, j \in DOMAIN waiters : waiters[i] = waiters[j] => i = j
  /\ \A p \in Proc : pc[p] = "waiting" <=> \E i \in DOMAIN waiters : waiters[i] = p

IInv == ProgramTypes /\ FramesKept /\ Stages /\ WaitersExact /\ OneCpu /\ OneAnswerPerRequest

--------------------------------------------------------------------------------
(* The inductive invariant, continued: the page a process waits for               *)

(* asked lists those who have yet to come to msgrcv, each once, until one is      *)
(* overtaken.                                                                      *)
AskedExact ==
  ~ overtaken =>
    /\ \A i, j \in DOMAIN asked : asked[i] = asked[j] => i = j
    /\ \A p \in Proc : pc[p] = "recv" <=> \E i \in DOMAIN asked : asked[i] = p

(* Before master forks nobody has begun. *)
NotYet == /\ serving <=> master # "allocate"
          /\ ~ serving => \A p \in Proc : pc[p] = "start" /\ token[p] = NoToken

(* The scheduler is done when k have ended, and master after it. *)
DoneAtK ==
  /\ sched \in {"signal", "exited"} => terminated >= K
  /\ sem_sched > 0 \/ master \notin {"allocate", "wait"} => sched = "exited"

(* A request is for the token its sender has in hand, and so is its service. *)
TokensTrue ==
  ~ semsRemoved =>
    /\ \A i \in DOMAIN requests :
         requests[i].num # -9 => requests[i].num = token[requests[i].pid]
    /\ mmu \in {"reply_frame", "reply_fault"} => cur.num = token[cur.pid]

(* The page of a token in hand is requested, being served, or the last used page. *)
Asks(p) == \E i \in DOMAIN requests : requests[i].pid = p /\ requests[i].num # -9
IsServed(p) == mmu \in {"reply_frame", "reply_fault"} /\ cur.pid = p
Recent ==
  ~ semsRemoved =>
    \A p \in Proc : token[p] # NoToken =>
      Asks(p) \/ IsServed(p) \/ resident[p] = <<>> \/ Last(resident[p]) = token[p]

PInv == HistoryTypes /\ AskedExact /\ NotYet /\ DoneAtK /\ TokensTrue /\ Recent

--------------------------------------------------------------------------------
(* The inductive invariant as long as nobody is overtaken                         *)

InOrder == ~ overtaken /\ ~ queuesRemoved

(* Who is to receive, in order: first those who wait, then those who have asked.  *)
Turn(i)  == IF i <= Len(waiters) THEN waiters[i] ELSE asked[i - Len(waiters)]
Pending == One(requests # <<>> /\ Head(requests).num # -9)

(* The answers come in the same order: those stored, the one the MMU owes, and     *)
(* the one to the request still to be received.                                    *)
OneOrder ==
  InOrder =>
    /\ Len(waiters) + Len(asked) = Len(replies) + Owed + Pending
    /\ replies # <<>> => waiters = <<>>
    /\ \A i \in Nat \ {0} :
         /\ i <= Len(replies) => replies[i].pid = Turn(i)
         /\ Owed = 1 /\ i = Len(replies) + 1 => cur.pid = Turn(i)
         /\ Pending = 1 /\ i = Len(replies) + Owed + 1 => Head(requests).pid = Turn(i)

(* A process is told that its page is illegal just when it is. *)
VerdictTrue ==
  InOrder =>
    /\ Owed = 1 => /\ cur.num = token[cur.pid]
                   /\ cur.num >= m_i[cur.pid] <=> mmu \in {"notify_invalid", "reply_invalid"}
    /\ \A i \in DOMAIN replies :
         replies[i].num = "invalid" <=> token[replies[i].pid] >= m_i[replies[i].pid]
    /\ \A p \in Proc : pc[p] = "answered" => (answer[p].num = "invalid" <=> token[p] >= m_i[p])

(* p has sent its last request. *)
Ends(p) == \/ HasExited(p)
           \/ token[p] >= m_i[p] /\ pc[p] \in {"recv", "waiting", "answered"}
LastRequests == {r \in Request : r.num = -9 \/ r.num >= m_i[r.pid]}
EndNotices   == [type : {2}, pid : Proc]
Ended        == {p \in Proc : Ends(p)}
Ending       == One(mmu \in {"notify_end", "notify_invalid"})

(* Every last request is counted once: on its way to the MMU, in its hands, on   *)
(* its way to the scheduler, or in terminated.                                    *)
EndsCounted ==
  InOrder =>
    terminated + Count(msq2, EndNotices) + Ending + Count(requests, LastRequests) = Cardinality(Ended)

(* When semaphores go nobody has use for them. *)
Quiet ==
  semsRemoved /\ InOrder =>
    /\ \A p \in Proc : Ends(p)
    /\ requests = <<>> /\ Busy = 0

OInv == OneOrder /\ VerdictTrue /\ RightUnlessOvertaken /\ EndsCounted /\ Quiet

--------------------------------------------------------------------------------
(* The frames                                                                     *)

USE SizeAssumption DEF Proc, Page

LEMMA Processes == IsFiniteSet(Proc) /\ Cardinality(Proc) = K
<1>1. /\ IsFiniteSet(0 .. K - 1)
      /\ Cardinality(0 .. K - 1) = IF 0 > K - 1 THEN 0 ELSE (K - 1) - 0 + 1
  BY FS_Interval
<1>. QED
  BY <1>1

(* The frames of processes P are finitely many. *)
LEMMA HeldFinite ==
  ASSUME ProgramTypes, NEW P \in SUBSET Proc
  PROVE  IsFiniteSet(UNION {{p} \X DOMAIN resident[p] : p \in P})
<1>. DEFINE f == [p \in P |-> {p} \X DOMAIN resident[p]]
            T == {{p} \X DOMAIN resident[p] : p \in P}
<1>1. f \in Surjection(P, T)
  BY DEF Surjection
<1>2. IsFiniteSet(P)
  BY Processes, FS_Subset
<1>3. IsFiniteSet(T)
  BY <1>1, <1>2, FS_Surjection
<1>4. ASSUME NEW p \in P PROVE IsFiniteSet({p} \X DOMAIN resident[p])
  <2>1. resident[p] \in Seq(Page)
    BY DEF ProgramTypes, MemoryTypes
  <2>2. DOMAIN resident[p] = 1 .. Len(resident[p]) /\ Len(resident[p]) \in Nat
    BY <2>1
  <2>3. IsFiniteSet(DOMAIN resident[p]) /\ IsFiniteSet({p})
    BY <2>2, IntervalSize, FS_Singleton
  <2>. QED
    BY <2>3, FS_Product
<1>5. \A t \in T : IsFiniteSet(t)
  BY <1>4
<1>. HIDE DEF T
<1>6. IsFiniteSet(UNION T)
  BY <1>3, <1>5, FS_UNION
<1>. QED
  BY <1>6 DEF T

LEMMA RowSize ==
  ASSUME NEW p, NEW s \in Seq(Page)
  PROVE  IsFiniteSet({p} \X DOMAIN s) /\ Cardinality({p} \X DOMAIN s) = Len(s)
<1>1. DOMAIN s = 1 .. Len(s) /\ Len(s) \in Nat
  OBVIOUS
<1>3. IsFiniteSet(DOMAIN s) /\ Cardinality(DOMAIN s) = Len(s)
  BY <1>1, IntervalSize
<1>4. IsFiniteSet({p}) /\ Cardinality({p}) = 1
  BY FS_Singleton
<1>5. /\ IsFiniteSet({p} \X DOMAIN s)
      /\ Cardinality({p} \X DOMAIN s) = Cardinality({p}) * Cardinality(DOMAIN s)
  BY <1>3, <1>4, FS_Product
<1>. QED
  BY <1>1, <1>3, <1>4, <1>5

(* One process's list of pages changes: so does the number of frames in use. *)
LEMMA HeldChange ==
  ASSUME ProgramTypes, NEW p \in Proc, NEW s \in Seq(Page), resident' = [resident EXCEPT ![p] = s]
  PROVE  /\ Cardinality(Held) \in Nat
         /\ Len(resident[p]) \in Nat
         /\ Cardinality(Held') = Cardinality(Held) - Len(resident[p]) + Len(s)
         /\ resident' \in [Proc -> Seq(Page)]
<1>. DEFINE Rest == UNION {{q} \X DOMAIN resident[q] : q \in Proc \ {p}}
            Old == {p} \X DOMAIN resident[p]
            New == {p} \X DOMAIN s
<1>1. resident \in [Proc -> Seq(Page)] /\ resident[p] \in Seq(Page)
  BY DEF ProgramTypes, MemoryTypes
<1>2. Held = Rest \union Old /\ Rest \intersect Old = {}
  BY DEF Held
<1>3. \A q \in Proc : resident'[q] = IF q = p THEN s ELSE resident[q]
  BY <1>1
<1>4. Held' = Rest \union New /\ Rest \intersect New = {}
  BY <1>3 DEF Held
<1>5. IsFiniteSet(Rest)
  BY HeldFinite
<1>6. IsFiniteSet(Old) /\ Cardinality(Old) = Len(resident[p])
  BY <1>1, RowSize
<1>7. IsFiniteSet(New) /\ Cardinality(New) = Len(s)
  BY RowSize
<1>. HIDE DEF Rest, Old, New
<1>8. Cardinality(Held) = Cardinality(Rest) + Len(resident[p])
  <2>1. Cardinality(Rest \union Old) = Cardinality(Rest) + Cardinality(Old) - Cardinality(Rest \intersect Old)
    BY <1>5, <1>6, FS_Union
  <2>2. Cardinality(Rest \intersect Old) = 0 /\ Cardinality(Rest) \in Nat /\ Cardinality(Old) \in Nat
    BY <1>2, <1>5, <1>6, FS_EmptySet, FS_CardinalityType
  <2>. QED
    BY <1>2, <1>6, <2>1, <2>2
<1>9. Cardinality(Held') = Cardinality(Rest) + Len(s)
  <2>1. Cardinality(Rest \union New) = Cardinality(Rest) + Cardinality(New) - Cardinality(Rest \intersect New)
    BY <1>5, <1>7, FS_Union
  <2>2. Cardinality(Rest \intersect New) = 0 /\ Cardinality(Rest) \in Nat /\ Cardinality(New) \in Nat
    BY <1>4, <1>5, <1>7, FS_EmptySet, FS_CardinalityType
  <2>. QED
    BY <1>4, <1>7, <2>1, <2>2
<1>10. Cardinality(Rest) \in Nat /\ Len(resident[p]) \in Nat /\ Len(s) \in Nat
  BY <1>1, <1>5, FS_CardinalityType
<1>11. resident' \in [Proc -> Seq(Page)]
  BY <1>1
<1>. QED
  BY <1>8, <1>9, <1>10, <1>11

MemoryInv == MemoryTypes /\ FramesKept

LEMMA MemoryUnchanged ==
  ASSUME ProgramTypes, FramesKept, UNCHANGED memory
  PROVE  MemoryInv'
BY DEF MemoryInv, MemoryTypes, ProgramTypes, FramesKept, Held, memory

LEMMA MemoryAllot ==
  ASSUME ProgramTypes, FramesKept, NEW p \in Proc, NEW n \in 0 .. M, Allot(p, n)
  PROVE  MemoryInv'
<1>. DEFINE s == [j \in 1 .. n |-> j - 1]
<1>1. s \in Seq(Page) /\ Len(s) = n
  OBVIOUS
<1>2. resident' = [resident EXCEPT ![p] = s] /\ resident[p] = <<>> /\ n <= nfree /\ nfree' = nfree - n
  BY DEF Allot
<1>. HIDE DEF s
<1>3. /\ Cardinality(Held) \in Nat /\ Cardinality(Held') = Cardinality(Held) - Len(resident[p]) + Len(s)
      /\ resident' \in [Proc -> Seq(Page)]
  BY <1>1, <1>2, HeldChange
<1>4. Len(resident[p]) = 0 /\ nfree \in 0 .. F /\ nfree + Cardinality(Held) = F
  BY <1>2 DEF ProgramTypes, MemoryTypes, FramesKept
<1>. QED
  BY <1>1, <1>2, <1>3, <1>4 DEF MemoryInv, MemoryTypes, FramesKept

LEMMA MemoryTouch ==
  ASSUME ProgramTypes, FramesKept, NEW p \in Proc, NEW g \in Page, Touch(p, g)
  PROVE  MemoryInv' /\ Last(resident'[p]) = g
<1>1. PICK i \in DOMAIN resident[p] :
        resident' = [resident EXCEPT ![p] = Append(RemoveAt(resident[p], i), g)]
  BY DEF Touch
<1>. DEFINE t == resident[p]
            u == SubSeq(t, 1, i - 1)
            v == SubSeq(t, i + 1, Len(t))
            s == Append(RemoveAt(resident[p], i), g)
<1>2. t \in Seq(Page)
  BY DEF ProgramTypes, MemoryTypes
<1>. HIDE DEF t
<1>6. i \in 1 .. Len(t) /\ Len(t) \in Nat
  BY <1>2 DEF t
<1>7. u \in Seq(Page) /\ Len(u) = i - 1
  BY <1>2, <1>6
<1>8. v \in Seq(Page) /\ Len(v) = Len(t) - i
  <2>1. \A j \in i + 1 .. Len(t) : t[j] \in Page
    BY <1>2, <1>6
  <2>. QED
    BY <1>6, <2>1, SubSeqProperties
<1>9. s = Append(u \o v, g)
  BY DEF RemoveAt, t
<1>. HIDE DEF u, v, s
<1>3. s \in Seq(Page) /\ Len(s) = Len(t) /\ s[Len(s)] = g
  <2>. DEFINE w == u \o v
  <2>1. w \in Seq(Page) /\ Len(w) = Len(t) - 1
    BY <1>6, <1>7, <1>8
  <2>2. s = Append(w, g)
    BY <1>9
  <2>. HIDE DEF w
  <2>. QED
    BY <1>6, <2>1, <2>2
<1>4. /\ Cardinality(Held) \in Nat /\ Cardinality(Held') = Cardinality(Held) - Len(t) + Len(s)
      /\ resident' \in [Proc -> Seq(Page)]
  BY <1>1, <1>3, HeldChange DEF s, t
<1>5. UNCHANGED nfree /\ nfree \in 0 .. F /\ nfree + Cardinality(Held) = F
  BY DEF ProgramTypes, MemoryTypes, FramesKept, Touch
<1>10. resident'[p] = s
  BY <1>1 DEF s, ProgramTypes, MemoryTypes
<1>. QED
  BY <1>6, <1>3, <1>4, <1>5, <1>10 DEF MemoryInv, MemoryTypes, FramesKept, Last

LEMMA MemoryFault ==
  ASSUME ProgramTypes, FramesKept, NEW p \in Proc, NEW g \in Page, HandleFault(p, g)
  PROVE  MemoryInv' /\ (resident'[p] = <<>> \/ Last(resident'[p]) = g)
<1>1. resident[p] \in Seq(Page) /\ nfree \in 0 .. F /\ nfree + Cardinality(Held) = F
  BY DEF ProgramTypes, MemoryTypes, FramesKept
<1>2. CASE LoadFree(p, g)
  <2>. DEFINE s == Append(resident[p], g)
  <2>1. s \in Seq(Page) /\ Len(s) = Len(resident[p]) + 1 /\ s[Len(s)] = g
    BY <1>1
  <2>2. resident' = [resident EXCEPT ![p] = s] /\ nfree' = nfree - 1 /\ nfree > 0
    BY <1>2 DEF LoadFree
  <2>. HIDE DEF s
  <2>3. /\ Cardinality(Held) \in Nat /\ Cardinality(Held') = Cardinality(Held) - Len(resident[p]) + Len(s)
        /\ resident' \in [Proc -> Seq(Page)]
    BY <2>1, <2>2, HeldChange
  <2>4. resident'[p] = s
    BY <2>2 DEF ProgramTypes, MemoryTypes
  <2>. QED
    BY <1>1, <2>1, <2>2, <2>3, <2>4 DEF MemoryInv, MemoryTypes, FramesKept, Last
<1>3. CASE Evict(p, g)
  <2>. DEFINE s == Append(Tail(resident[p]), g)
  <2>1. s \in Seq(Page) /\ Len(s) = Len(resident[p]) /\ s[Len(s)] = g
    <3>1. resident[p] # <<>>
      BY <1>3 DEF Evict
    <3>2. ASSUME NEW t \in Seq(Page), t # <<>>
          PROVE  /\ Len(t) \in Nat /\ Append(Tail(t), g) \in Seq(Page)
                 /\ Len(Append(Tail(t), g)) = Len(t) /\ Append(Tail(t), g)[Len(t)] = g
      <4>1. Tail(t) \in Seq(Page) /\ Len(Tail(t)) = Len(t) - 1 /\ Len(t) \in Nat
        BY <3>2
      <4>. DEFINE v == Tail(t)
      <4>2. v \in Seq(Page) /\ Len(v) = Len(t) - 1
        BY <4>1
      <4>. HIDE DEF v
      <4>3. Append(v, g) \in Seq(Page) /\ Len(Append(v, g)) = Len(v) + 1
            /\ Append(v, g)[Len(v) + 1] = g
        BY <4>2
      <4>. QED
        BY <4>1, <4>2, <4>3 DEF v
    <3>. QED
      BY <1>1, <3>1, <3>2
  <2>2. resident' = [resident EXCEPT ![p] = s] /\ UNCHANGED nfree
    BY <1>3 DEF Evict
  <2>. HIDE DEF s
  <2>3. /\ Cardinality(Held) \in Nat /\ Cardinality(Held') = Cardinality(Held) - Len(resident[p]) + Len(s)
        /\ resident' \in [Proc -> Seq(Page)]
    BY <2>1, <2>2, HeldChange
  <2>4. resident'[p] = s
    BY <2>2 DEF ProgramTypes, MemoryTypes
  <2>. QED
    BY <1>1, <2>1, <2>2, <2>3, <2>4 DEF MemoryInv, MemoryTypes, FramesKept, Last
<1>4. CASE LoadNothing(p, g)
  BY <1>4, MemoryUnchanged DEF LoadNothing, memory
<1>. QED
  BY <1>2, <1>3, <1>4 DEF HandleFault

LEMMA MemoryRelease ==
  ASSUME ProgramTypes, FramesKept, NEW p \in Proc, ReleasePages(p)
  PROVE  MemoryInv' /\ resident'[p] = <<>>
<1>1. /\ <<>> \in Seq(Page) /\ Len(<<>>) = 0 /\ resident' = [resident EXCEPT ![p] = <<>>]
      /\ nfree' = nfree + Len(resident[p])
  BY DEF ReleasePages
<1>2. /\ Cardinality(Held) \in Nat /\ Cardinality(Held') = Cardinality(Held) - Len(resident[p]) + Len(<<>>)
      /\ resident' \in [Proc -> Seq(Page)] /\ Len(resident[p]) \in Nat
  BY <1>1, HeldChange
<1>3. nfree \in 0 .. F /\ nfree + Cardinality(Held) = F /\ resident \in [Proc -> Seq(Page)]
  BY DEF ProgramTypes, MemoryTypes, FramesKept
<1>4. IsFiniteSet(Held') /\ Cardinality(Held') \in Nat
  <2>1. IsFiniteSet(Held)
    BY HeldFinite DEF Held
  <2>2. Held' \in SUBSET Held
    BY <1>1, <1>3 DEF Held
  <2>. QED
    BY <2>1, <2>2, FS_Subset, FS_CardinalityType
<1>. QED
  BY <1>1, <1>2, <1>3, <1>4 DEF MemoryInv, MemoryTypes, FramesKept

(* Every page that some process may use is counted, and there is one. *)
LEMMA DemandPositive ==
  ASSUME m_i \in [Proc -> 1 .. M]
  PROVE  Demand \in Nat \ {0}
<1>. DEFINE D == {r \in Proc \X Page : r[2] < m_i[r[1]]}
<1>1. IsFiniteSet(Page)
  BY FS_Interval
<1>2. IsFiniteSet(Proc \X Page)
  BY <1>1, Processes, FS_Product
<1>3. D \in SUBSET (Proc \X Page)
  OBVIOUS
<1>4. IsFiniteSet(D)
  BY <1>2, <1>3, FS_Subset
<1>5. <<0, 0>> \in D
  <2>1. 0 \in Proc /\ 0 \in Page /\ 0 < m_i[0]
    OBVIOUS
  <2>. QED
    BY <2>1
<1>. HIDE DEF D
<1>6. Cardinality(D) \in Nat /\ Cardinality(D) # 0
  BY <1>4, <1>5, FS_CardinalityType, FS_EmptySet
<1>. QED
  BY <1>6 DEF Demand, D

LEMMA Quotient ==
  ASSUME NEW a \in Nat, NEW d \in Nat \ {0}
  PROVE  a \div d \in Nat
OBVIOUS

LEMMA ShareType ==
  ASSUME m_i \in [Proc -> 1 .. M], NEW p \in Proc
  PROVE  Share(p) \in Nat
<1>1. m_i[p] * F \in Nat
  OBVIOUS
<1>. QED
  BY <1>1, DemandPositive, Quotient DEF Share

--------------------------------------------------------------------------------
(* Types                                                                          *)

(* Appending to a queue and taking its head. *)
LEMMA QueueChange ==
  ASSUME NEW R, NEW s \in Seq(R)
  PROVE  /\ \A e \in R : Append(s, e) \in Seq(R)
         /\ s # <<>> => Head(s) \in R /\ Tail(s) \in Seq(R)
OBVIOUS

(* What a step leaves alone keeps its type. *)
LEMMA TypesUnchanged ==
  ASSUME ProgramTypes, FramesKept
  PROVE  /\ UNCHANGED memory => MemoryInv'
         /\ UNCHANGED lruVars => MemoryInv'
         /\ UNCHANGED masterVars => MasterTypes'
         /\ UNCHANGED schedVars => SchedTypes'
         /\ UNCHANGED mmuVars => MmuTypes'
         /\ UNCHANGED procVars => ProcTypes'
         /\ UNCHANGED semVars => SemTypes'
         /\ UNCHANGED queueVars => QueueTypes'
<1>. USE DEF ProgramTypes
<1>1. UNCHANGED memory => MemoryInv'
  BY MemoryUnchanged
<1>2. UNCHANGED lruVars => MemoryInv'
  BY <1>1 DEF lruVars, memory
<1>3. UNCHANGED masterVars => MasterTypes'
  BY DEF masterVars, MasterTypes
<1>4. UNCHANGED schedVars => SchedTypes'
  BY DEF schedVars, SchedTypes
<1>5. UNCHANGED mmuVars => MmuTypes'
  BY DEF mmuVars, MmuTypes
<1>6. UNCHANGED procVars => ProcTypes'
  BY DEF procVars, ProcTypes
<1>7. UNCHANGED semVars => SemTypes'
  BY DEF semVars, SemTypes
<1>8. UNCHANGED queueVars => QueueTypes'
  BY DEF queueVars, QueueTypes
<1>. QED
  BY <1>1, <1>2, <1>3, <1>4, <1>5, <1>6, <1>7, <1>8

LEMMA TypesTogether ==
  ASSUME MemoryInv', MasterTypes', SchedTypes', MmuTypes', ProcTypes', SemTypes', QueueTypes'
  PROVE  ProgramTypes' /\ FramesKept'
BY DEF ProgramTypes, MemoryInv

LEMMA MasterTypesKept ==
  ASSUME ProgramTypes, FramesKept, Stages, Master
  PROVE  ProgramTypes' /\ FramesKept'
<1>. USE TypesTogether, TypesUnchanged
<1>1. CASE MasterAllot
  <2>1. /\ next \in Proc /\ Allot(next, IF Share(next) < m_i[next] THEN Share(next) ELSE m_i[next])
        /\ m_i \in [Proc -> 1 .. M]
    BY <1>1 DEF MasterAllot, ProgramTypes, MasterTypes
  <2>2. (IF Share(next) < m_i[next] THEN Share(next) ELSE m_i[next]) \in 0 .. M
    <3>1. Share(next) \in Nat /\ m_i[next] \in 1 .. M
      BY <2>1, ShareType
    <3>. QED
      BY <3>1
  <2>3. MemoryInv'
    BY <2>1, <2>2, MemoryAllot
  <2>4. MasterTypes'
    BY <1>1 DEF MasterAllot, ProgramTypes, MasterTypes
  <2>. QED
    BY <1>1, <2>3, <2>4 DEF MasterAllot
<1>2. CASE MasterFork
  <2>1. MasterTypes'
    BY <1>2 DEF MasterFork, ProgramTypes, MasterTypes
  <2>. QED
    BY <1>2, <2>1 DEF MasterFork
<1>3. CASE MasterWait
  <2>1. MasterTypes' /\ SemTypes'
    BY <1>3, SMTT(20) DEF MasterWait, ProgramTypes, MasterTypes, SemTypes
  <2>. QED
    BY <1>3, <2>1 DEF MasterWait
<1>4. CASE MasterRemoveSems
  <2>1. MasterTypes' /\ SemTypes'
    BY <1>4 DEF MasterRemoveSems, ProgramTypes, MasterTypes, SemTypes
  <2>. QED
    BY <1>4, <2>1 DEF MasterRemoveSems
<1>5. CASE MasterRemoveQueues
  <2>1. \A p \in Proc : FailedReceive(p) \in Answer
    BY DEF FailedReceive, Answer, Verdict
  <2>2. ProcTypes'
    BY <1>5, <2>1 DEF MasterRemoveQueues, ProgramTypes, ProcTypes
  <2>3. MasterTypes' /\ QueueTypes'
    BY <1>5 DEF MasterRemoveQueues, ProgramTypes, MasterTypes, QueueTypes
  <2>. QED
    BY <1>5, <2>2, <2>3 DEF MasterRemoveQueues
<1>. QED
  BY <1>1, <1>2, <1>3, <1>4, <1>5 DEF Master

LEMMA SchedTypesKept ==
  ASSUME ProgramTypes, FramesKept, Stages, Scheduler
  PROVE  ProgramTypes' /\ FramesKept'
<1>. USE TypesTogether, TypesUnchanged
<1>1. CASE SchedDispatch
  <2>1. Head(ready_queue) \in Proc /\ Tail(ready_queue) \in Seq(Proc)
    BY <1>1, QueueChange DEF SchedDispatch, ProgramTypes, QueueTypes
  <2>2. SchedTypes' /\ SemTypes' /\ QueueTypes'
    BY <1>1, <2>1, SMTT(20) DEF SchedDispatch, ProgramTypes, SchedTypes, SemTypes, QueueTypes
  <2>. QED
    BY <1>1, <2>2 DEF SchedDispatch
<1>2. ASSUME msq2 # <<>>
      PROVE  Head(msq2) \in [type : {1, 2}, pid : Proc] /\ Tail(msq2) \in Seq([type : {1, 2}, pid : Proc])
  BY <1>2, QueueChange DEF ProgramTypes, QueueTypes
<1>3. CASE SchedRequeue
  <2>1. SchedTypes'
    BY <1>3 DEF SchedRequeue, AfterNotice, ProgramTypes, SchedTypes
  <2>2. Append(ready_queue, Head(msq2).pid) \in Seq(Proc)
    BY <1>2, <1>3 DEF SchedRequeue, ProgramTypes, QueueTypes
  <2>3. QueueTypes'
    BY <1>2, <1>3, <2>2 DEF SchedRequeue, ProgramTypes, QueueTypes
  <2>. QED
    BY <1>3, <2>1, <2>3 DEF SchedRequeue
<1>4. CASE SchedTerminate
  <2>1. SchedTypes'
    BY <1>4 DEF SchedTerminate, AfterNotice, ProgramTypes, SchedTypes
  <2>2. QueueTypes'
    BY <1>2, <1>4 DEF SchedTerminate, ProgramTypes, QueueTypes
  <2>. QED
    BY <1>4, <2>1, <2>2 DEF SchedTerminate
<1>5. CASE SchedSignal
  <2>1. SchedTypes' /\ SemTypes'
    BY <1>5 DEF SchedSignal, ProgramTypes, SchedTypes, SemTypes
  <2>. QED
    BY <1>5, <2>1 DEF SchedSignal
<1>. QED
  BY <1>1, <1>3, <1>4, <1>5 DEF Scheduler

LEMMA MmuTypesKept ==
  ASSUME ProgramTypes, FramesKept, Stages, Mmu
  PROVE  ProgramTypes' /\ FramesKept'
<1>. USE TypesTogether, TypesUnchanged
<1>1. ASSUME NEW r \in Request, NEW step \in MmuHas, Receive(r, step), MemoryInv'
      PROVE  ProgramTypes' /\ FramesKept'
  <2>1. Tail(requests) \in Seq(Request)
    BY <1>1, QueueChange DEF Receive, ProgramTypes, QueueTypes
  <2>2. MmuTypes' /\ QueueTypes'
    BY <1>1, <2>1 DEF Receive, MmuHas, ProgramTypes, MmuTypes, QueueTypes
  <2>. QED
    BY <1>1, <2>2 DEF Receive
<1>2. ASSUME NEW type \in {1, 2}, NEW step \in MmuHas \cup {"loop"}, mmu \in MmuHas, Notify(type, step),
             ended' = ended \/ ended' = ended + 1
      PROVE  ProgramTypes' /\ FramesKept'
  <2>1. cur \in Request
    BY <1>2 DEF Stages, InHand
  <2>2. [type |-> type, pid |-> cur.pid] \in [type : {1, 2}, pid : Proc]
    BY <2>1 DEF Request
  <2>3. msq2' \in Seq([type : {1, 2}, pid : Proc])
    BY <1>2, <2>2, QueueChange DEF Notify, ProgramTypes, QueueTypes
  <2>4. MmuTypes' /\ QueueTypes'
    BY <1>2, <2>3 DEF Notify, MmuHas, ProgramTypes, MmuTypes, QueueTypes
  <2>. QED
    BY <1>2, <2>4 DEF Notify
<1>3. ASSUME NEW verdict \in Verdict, NEW step \in MmuHas \cup {"loop"}, mmu \in MmuHas,
             Reply(verdict, step), ended' = ended \/ ended' = ended + 1, MemoryInv'
      PROVE  ProgramTypes' /\ FramesKept'
  <2>. DEFINE r == [pid |-> cur.pid, num |-> verdict]
  <2>1. cur \in Request
    BY <1>3 DEF Stages, InHand
  <2>2. r \in Answer
    BY <2>1 DEF Request, Answer
  <2>3. MmuTypes'
    BY <1>3 DEF Reply, MmuHas, ProgramTypes, MmuTypes
  <2>4. CASE waiters # <<>>
    <3>1. Head(waiters) \in Proc /\ Tail(waiters) \in Seq(Proc)
      BY <2>4, QueueChange DEF ProgramTypes, QueueTypes
    <3>2. /\ answer' = [answer EXCEPT ![Head(waiters)] = r]
          /\ pc' = [pc EXCEPT ![Head(waiters)] = "answered"]
          /\ waiters' = Tail(waiters)
          /\ UNCHANGED replies
      BY <1>3, <2>4 DEF Reply
    <3>. HIDE DEF r
    <3>3. ProcTypes' /\ QueueTypes'
      BY <1>3, <2>2, <3>1, <3>2 DEF Reply, ProgramTypes, ProcTypes, QueueTypes
    <3>. QED
      BY <1>3, <2>3, <3>3 DEF Reply
  <2>5. CASE waiters = <<>>
    <3>1. replies' = Append(replies, r) /\ UNCHANGED <<answer, pc, waiters>>
      BY <1>3, <2>5 DEF Reply
    <3>. HIDE DEF r
    <3>2. replies' \in Seq(Answer)
      BY <2>2, <3>1, QueueChange DEF ProgramTypes, QueueTypes
    <3>3. ProcTypes' /\ QueueTypes'
      BY <1>3, <3>1, <3>2 DEF Reply, ProgramTypes, ProcTypes, QueueTypes
    <3>. QED
      BY <1>3, <2>3, <3>3 DEF Reply
  <2>. QED
    BY <2>4, <2>5
<1>4. ASSUME NEW r \in Request, MmuEnd(r) \/ MmuInvalid(r)
      PROVE  ProgramTypes' /\ FramesKept'
  <2>1. r.pid \in Proc /\ ReleasePages(r.pid)
    BY <1>4 DEF MmuEnd, MmuInvalid, Request
  <2>2. MemoryInv'
    BY <2>1, MemoryRelease
  <2>. QED
    BY <1>1, <1>4, <2>2 DEF MmuEnd, MmuInvalid, MmuHas
<1>5. ASSUME NEW r \in Request, MmuHit(r) \/ MmuFault(r)
      PROVE  ProgramTypes' /\ FramesKept'
  BY <1>1, <1>5 DEF MmuHit, MmuFault, MmuHas
<1>6. CASE MmuNotifyEnd
  BY <1>2, <1>6 DEF MmuNotifyEnd, MmuHas
<1>7. CASE MmuNotifyInvalid
  BY <1>2, <1>7 DEF MmuNotifyInvalid, MmuHas
<1>8. CASE MmuNotifyLoaded
  BY <1>2, <1>8 DEF MmuNotifyLoaded, MmuHas
<1>9. mmu \in {"reply_frame", "reply_fault"} => cur.pid \in Proc /\ cur.num \in Page
  BY DEF Stages, InHand, MmuHas, Request
<1>10. CASE MmuReplyFrame
  <2>1. MemoryInv'
    BY <1>9, <1>10, MemoryTouch DEF MmuReplyFrame
  <2>. QED
    BY <1>3, <1>10, <2>1 DEF MmuReplyFrame, MmuHas, Verdict
<1>11. CASE MmuReplyFault
  <2>1. MemoryInv'
    BY <1>9, <1>11, MemoryFault DEF MmuReplyFault
  <2>. QED
    BY <1>3, <1>11, <2>1 DEF MmuReplyFault, MmuHas, Verdict
<1>12. CASE MmuReplyInvalid
  BY <1>3, <1>12 DEF MmuReplyInvalid, MmuHas, Verdict
<1>13. CASE MmuReport
  <2>1. MmuTypes'
    BY <1>13 DEF MmuReport, ProgramTypes, MmuTypes
  <2>. QED
    BY <1>13, <2>1 DEF MmuReport
<1>14. CASE MmuFail
  <2>1. MmuTypes'
    BY <1>14 DEF MmuFail, ProgramTypes, MmuTypes
  <2>. QED
    BY <1>14, <2>1 DEF MmuFail
<1>. QED
  BY <1>4, <1>5, <1>6, <1>7, <1>8, <1>10, <1>11, <1>12, <1>13, <1>14 DEF Mmu

LEMMA ProcTypesKept ==
  ASSUME ProgramTypes, FramesKept, Stages, NEW p \in Proc, Process(p)
  PROVE  ProgramTypes' /\ FramesKept'
<1>. USE TypesTogether, TypesUnchanged
<1>1. CASE ProcStart(p)
  <2>1. ProcTypes'
    BY <1>1 DEF ProcStart, ProgramTypes, ProcTypes
  <2>2. Append(ready_queue, p) \in Seq(Proc)
    BY QueueChange DEF ProgramTypes, QueueTypes
  <2>3. QueueTypes'
    BY <1>1, <2>2 DEF ProcStart, ProgramTypes, QueueTypes
  <2>. QED
    BY <1>1, <2>1, <2>3 DEF ProcStart
<1>2. CASE ProcScheduled(p)
  <2>1. ProcTypes'
    BY <1>2 DEF ProcScheduled, ProgramTypes, ProcTypes
  <2>2. SemTypes'
    BY <1>2 DEF ProcScheduled, ProgramTypes, SemTypes
  <2>. QED
    BY <1>2, <2>1, <2>2 DEF ProcScheduled
<1>3. ASSUME NEW r \in Request, SendRequest(r)
      PROVE  QueueTypes'
  <2>1. Append(requests, r) \in Seq(Request)
    BY QueueChange DEF ProgramTypes, QueueTypes
  <2>. QED
    BY <1>3, <2>1 DEF SendRequest, ProgramTypes, QueueTypes
<1>4. CASE ProcSend(p)
  <2>1. PICK g \in IF token[p] = NoToken THEN Page ELSE {token[p]} :
          token' = [token EXCEPT ![p] = g] /\ SendRequest([pid |-> p, num |-> g])
    BY <1>4 DEF ProcSend
  <2>2. g \in Page
    BY <2>1 DEF ProgramTypes, ProcTypes
  <2>3. [pid |-> p, num |-> g] \in Request
    BY <2>2 DEF Request
  <2>4. QueueTypes'
    BY <1>3, <2>1, <2>3
  <2>5. ProcTypes'
    BY <1>4, <2>1, <2>2 DEF ProcSend, ProgramTypes, ProcTypes
  <2>. QED
    BY <1>4, <2>4, <2>5 DEF ProcSend
<1>5. CASE ProcReceive(p)
  <2>1. FailedReceive(p) \in Answer
    BY DEF FailedReceive, Answer, Verdict
  <2>2. replies # <<>> => Head(replies) \in Answer /\ Tail(replies) \in Seq(Answer)
    BY QueueChange DEF ProgramTypes, QueueTypes
  <2>3. Append(waiters, p) \in Seq(Proc)
    BY QueueChange DEF ProgramTypes, QueueTypes
  <2>4. ProcTypes'
    <3>1. CASE answer' = answer
      BY <1>5, <3>1 DEF ProcReceive, ProgramTypes, ProcTypes
    <3>2. CASE \E a \in Answer : answer' = [answer EXCEPT ![p] = a]
      BY <1>5, <3>2 DEF ProcReceive, ProgramTypes, ProcTypes
    <3>. QED
      BY <1>5, <2>1, <2>2, <3>1, <3>2 DEF ProcReceive
  <2>5. QueueTypes'
    BY <1>5, <2>2, <2>3 DEF ProcReceive, ProgramTypes, QueueTypes
  <2>. QED
    BY <1>5, <2>4, <2>5 DEF ProcReceive
<1>6. CASE ProcAnswered(p)
  <2>1. answer' \in [Proc -> Answer \cup {NoAnswer}]
    BY <1>6 DEF ProcAnswered, ProgramTypes, ProcTypes
  <2>2. token' \in [Proc -> Page \cup {NoToken}]
    BY <1>6 DEF ProcAnswered, ProgramTypes, ProcTypes
  <2>3. pc' \in [Proc -> {"start", "ready", "send", "recv", "waiting", "answered",
                          "faulted", "stuck", "completed", "killed"}]
    BY <1>6 DEF ProcAnswered, ProgramTypes, ProcTypes
  <2>4. left' \in [Proc -> Nat]
    <3>1. left[p] - 1 \in Nat
      BY <1>6 DEF ProcAnswered, ProgramTypes, ProcTypes, Stages, AtPlace
    <3>. QED
      BY <1>6, <3>1 DEF ProcAnswered, ProgramTypes, ProcTypes
  <2>5. ProcTypes'
    BY <2>1, <2>2, <2>3, <2>4 DEF ProcTypes
  <2>. QED
    BY <1>6, <2>5 DEF ProcAnswered
<1>7. CASE ProcComplete(p)
  <2>1. [pid |-> p, num |-> -9] \in Request
    BY DEF Request
  <2>2. QueueTypes'
    BY <1>3, <1>7, <2>1 DEF ProcComplete
  <2>3. ProcTypes'
    BY <1>7 DEF ProcComplete, ProgramTypes, ProcTypes
  <2>. QED
    BY <1>7, <2>2, <2>3 DEF ProcComplete
<1>. QED
  BY <1>1, <1>2, <1>4, <1>5, <1>6, <1>7 DEF Process

--------------------------------------------------------------------------------
(* Where the programs are                                                         *)

LEMMA RemovalsKept ==
  ASSUME ProgramTypes, Removals, [Next]_vars
  PROVE  Removals'
<1>1. CASE Master
  BY <1>1, SMTT(20) DEF Master, MasterAllot, MasterFork, MasterWait, MasterRemoveSems, MasterRemoveQueues,
             semVars, queueVars, Removals, ProgramTypes, MasterTypes, SemTypes, QueueTypes
<1>2. ASSUME UNCHANGED <<master, semsRemoved, queuesRemoved>>
      PROVE  Removals'
  BY <1>2 DEF Removals
<1>3. CASE Scheduler
  BY <1>2, <1>3 DEF Scheduler, SchedDispatch, SchedRequeue, SchedTerminate, SchedSignal,
                    masterVars, semVars, queueVars
<1>4. CASE Mmu
  BY <1>2, <1>4 DEF Mmu, MmuEnd, MmuInvalid, MmuHit, MmuFault, Receive,
                    MmuNotifyEnd, MmuNotifyInvalid, MmuNotifyLoaded, Notify,
                    MmuReplyFrame, MmuReplyFault, MmuReplyInvalid, Reply, MmuReport, MmuFail,
                    masterVars, semVars, queueVars
<1>5. ASSUME NEW p \in Proc, Process(p)
      PROVE  Removals'
  BY <1>2, <1>5 DEF Process, ProcStart, ProcScheduled, ProcSend, ProcReceive, ProcAnswered,
                    ProcComplete, SendRequest, masterVars, semVars, queueVars
<1>6. CASE UNCHANGED vars
  BY <1>2, <1>6 DEF vars, masterVars, semVars, queueVars
<1>. QED
  BY <1>1, <1>3, <1>4, <1>5, <1>6 DEF Next, Finished

LEMMA InHandKept ==
  ASSUME ProgramTypes, InHand, [Next]_vars
  PROVE  InHand'
<1>1. ASSUME UNCHANGED mmuVars
      PROVE  InHand'
  BY <1>1 DEF InHand, mmuVars
<1>2. CASE Master
  BY <1>1, <1>2 DEF Master, MasterAllot, MasterFork, MasterWait, MasterRemoveSems, MasterRemoveQueues
<1>3. CASE Scheduler
  BY <1>1, <1>3 DEF Scheduler, SchedDispatch, SchedRequeue, SchedTerminate, SchedSignal
<1>4. CASE Mmu
  <2>1. ASSUME NEW r \in Request, MmuEnd(r) \/ MmuInvalid(r)
        PROVE  InHand'
    BY <2>1 DEF MmuEnd, MmuInvalid, Receive, InHand, MmuHas
  <2>2. ASSUME NEW r \in Request, MmuHit(r) \/ MmuFault(r)
        PROVE  InHand'
    BY <2>2 DEF MmuHit, MmuFault, IsLegal, Receive, InHand, MmuHas, Request
  <2>3. CASE MmuNotifyEnd \/ MmuNotifyInvalid \/ MmuNotifyLoaded
    BY <2>3 DEF MmuNotifyEnd, MmuNotifyInvalid, MmuNotifyLoaded, Notify, InHand, MmuHas
  <2>4. CASE MmuReplyFrame \/ MmuReplyFault \/ MmuReplyInvalid
    BY <2>4 DEF MmuReplyFrame, MmuReplyFault, MmuReplyInvalid, Reply, InHand, MmuHas
  <2>5. CASE MmuReport \/ MmuFail
    BY <2>5 DEF MmuReport, MmuFail, InHand, MmuHas
  <2>. QED
    BY <1>4, <2>1, <2>2, <2>3, <2>4, <2>5 DEF Mmu
<1>5. ASSUME NEW p \in Proc, Process(p)
      PROVE  InHand'
  BY <1>1, <1>5 DEF Process, ProcStart, ProcScheduled, ProcSend, ProcReceive, ProcAnswered,
                    ProcComplete
<1>6. CASE UNCHANGED vars
  BY <1>1, <1>6 DEF vars
<1>. QED
  BY <1>2, <1>3, <1>4, <1>5, <1>6 DEF Next, Finished

LEMMA AtPlaceKept ==
  ASSUME ProgramTypes, AtPlace, WaitersExact, [Next]_vars
  PROVE  AtPlace'
<1>1. ASSUME UNCHANGED <<pc, left, token, answer>>
      PROVE  AtPlace'
  BY <1>1 DEF AtPlace
<1>2. CASE Master
  <2>1. CASE MasterRemoveQueues
    <3>1. \A p \in Proc : FailedReceive(p) # NoAnswer
      BY DEF FailedReceive, NoAnswer
    <3>. QED
      BY <2>1, <3>1 DEF MasterRemoveQueues, AtPlace, ProgramTypes, ProcTypes
  <2>. QED
    BY <1>1, <1>2, <2>1 DEF Master, MasterAllot, MasterFork, MasterWait, MasterRemoveSems, procVars
<1>3. CASE Scheduler
  BY <1>1, <1>3 DEF Scheduler, SchedDispatch, SchedRequeue, SchedTerminate, SchedSignal, procVars
<1>4. CASE Mmu
  <2>1. ASSUME NEW verdict \in Verdict, NEW step, Reply(verdict, step)
        PROVE  AtPlace'
    <3>. DEFINE r == [pid |-> cur.pid, num |-> verdict]
    <3>1. CASE waiters = <<>>
      BY <1>1, <2>1, <3>1 DEF Reply
    <3>2. CASE waiters # <<>>
      <4>1. r # NoAnswer
        BY DEF NoAnswer, Verdict
      <4>2. /\ answer' = [answer EXCEPT ![Head(waiters)] = r]
            /\ pc' = [pc EXCEPT ![Head(waiters)] = "answered"]
            /\ UNCHANGED <<left, token>>
        BY <2>1, <3>2 DEF Reply
      <4>. HIDE DEF r
      <4>3. Head(waiters) \in Proc /\ pc[Head(waiters)] = "waiting"
        BY <3>2 DEF WaitersExact, ProgramTypes, QueueTypes
      <4>. QED
        BY <4>1, <4>2, <4>3 DEF AtPlace, ProgramTypes, ProcTypes
    <3>. QED
      BY <3>1, <3>2
  <2>2. CASE MmuReplyFrame \/ MmuReplyFault \/ MmuReplyInvalid
    BY <2>1, <2>2 DEF MmuReplyFrame, MmuReplyFault, MmuReplyInvalid, Verdict
  <2>. QED
    BY <1>1, <1>4, <2>2 DEF Mmu, MmuEnd, MmuInvalid, MmuHit, MmuFault, Receive,
                            MmuNotifyEnd, MmuNotifyInvalid, MmuNotifyLoaded, Notify,
                            MmuReport, MmuFail, procVars
<1>5. ASSUME NEW p \in Proc, Process(p)
      PROVE  AtPlace'
  <2>1. CASE ProcStart(p) \/ ProcScheduled(p) \/ ProcComplete(p)
    BY <2>1 DEF ProcStart, ProcScheduled, ProcComplete, AtPlace, ProgramTypes, ProcTypes
  <2>2. CASE ProcSend(p)
    <3>1. PICK g \in Page : token' = [token EXCEPT ![p] = g]
      BY <2>2 DEF ProcSend, ProgramTypes, ProcTypes
    <3>. QED
      BY <2>2, <3>1 DEF ProcSend, AtPlace, ProgramTypes, ProcTypes
  <2>3. CASE ProcReceive(p)
    <3>1. FailedReceive(p) # NoAnswer
      BY DEF FailedReceive, NoAnswer
    <3>2. replies # <<>> => Head(replies) # NoAnswer
      BY DEF ProgramTypes, QueueTypes, Answer, NoAnswer
    <3>3. CASE queuesRemoved \/ replies # <<>>
      <4>1. \E a : a # NoAnswer /\ answer' = [answer EXCEPT ![p] = a]
        BY <2>3, <3>1, <3>2, <3>3 DEF ProcReceive
      <4>2. pc' = [pc EXCEPT ![p] = "answered"] /\ pc[p] = "recv" /\ UNCHANGED <<left, token>>
        BY <2>3, <3>3 DEF ProcReceive
      <4>. QED
        BY <4>1, <4>2 DEF AtPlace, ProgramTypes, ProcTypes
    <3>4. CASE ~ (queuesRemoved \/ replies # <<>>)
      BY <2>3, <3>4 DEF ProcReceive, AtPlace, ProgramTypes, ProcTypes
    <3>. QED
      BY <3>3, <3>4
  <2>4. CASE ProcAnswered(p)
    <3>1. /\ pc[p] = "answered" /\ \E a \in {"send", "faulted", "killed"} : pc' = [pc EXCEPT ![p] = a]
          /\ answer' = [answer EXCEPT ![p] = NoAnswer]
      BY <2>4 DEF ProcAnswered
    <3>2. \A q \in Proc \ {p} : token'[q] = token[q] /\ left'[q] = left[q]
      BY <2>4 DEF ProcAnswered, ProgramTypes, ProcTypes
    <3>. QED
      BY <3>1, <3>2 DEF AtPlace, ProgramTypes, ProcTypes
  <2>. QED
    BY <1>5, <2>1, <2>2, <2>3, <2>4 DEF Process
<1>6. CASE UNCHANGED vars
  BY <1>1, <1>6 DEF vars, procVars
<1>. QED
  BY <1>2, <1>3, <1>4, <1>5, <1>6 DEF Next, Finished

(* Waiting processes join the queue at its end and leave it at its head. *)
LEMMA WaitersSame ==
  ASSUME ProgramTypes, WaitersExact, NEW p \in Proc, NEW a, pc[p] # "waiting", a # "waiting",
         pc' = [pc EXCEPT ![p] = a], UNCHANGED waiters
  PROVE  WaitersExact'
BY DEF WaitersExact, ProgramTypes, ProcTypes

LEMMA WaitersJoin ==
  ASSUME ProgramTypes, WaitersExact, NEW p \in Proc, pc[p] # "waiting",
         pc' = [pc EXCEPT ![p] = "waiting"], waiters' = Append(waiters, p)
  PROVE  WaitersExact'
<1>1. /\ DOMAIN waiters' = DOMAIN waiters \cup {Len(waiters) + 1} /\ Len(waiters) + 1 \notin DOMAIN waiters
      /\ \A i \in DOMAIN waiters : waiters'[i] = waiters[i]
      /\ waiters'[Len(waiters) + 1] = p
  BY DEF ProgramTypes, QueueTypes
<1>2. \A i \in DOMAIN waiters : waiters[i] # p
  BY DEF WaitersExact
<1>3. \A q \in Proc : pc'[q] = IF q = p THEN "waiting" ELSE pc[q]
  BY DEF ProgramTypes, ProcTypes
<1>4. \A i, j \in DOMAIN waiters' : waiters'[i] = waiters'[j] => i = j
  BY <1>1, <1>2 DEF WaitersExact
<1>5. \A q \in Proc : pc'[q] = "waiting" <=> \E i \in DOMAIN waiters' : waiters'[i] = q
  BY <1>1, <1>2, <1>3 DEF WaitersExact
<1>. QED
  BY <1>4, <1>5 DEF WaitersExact

LEMMA WaitersLeave ==
  ASSUME ProgramTypes, WaitersExact, NEW a, waiters # <<>>, a # "waiting",
         pc' = [pc EXCEPT ![Head(waiters)] = a], waiters' = Tail(waiters)
  PROVE  WaitersExact'
<1>1. /\ DOMAIN waiters = 1 .. Len(waiters) /\ Len(waiters) \in Nat \ {0} /\ Head(waiters) = waiters[1]
      /\ DOMAIN waiters' = 1 .. Len(waiters) - 1
      /\ \A i \in DOMAIN waiters' : waiters'[i] = waiters[i + 1]
  BY DEF ProgramTypes, QueueTypes
<1>2. \A q \in Proc : pc'[q] = IF q = waiters[1] THEN a ELSE pc[q]
  BY <1>1 DEF ProgramTypes, ProcTypes
<1>3. \A i, j \in DOMAIN waiters' : waiters'[i] = waiters'[j] => i = j
  BY <1>1 DEF WaitersExact
<1>4. ASSUME NEW q \in Proc
      PROVE  pc'[q] = "waiting" <=> \E i \in DOMAIN waiters' : waiters'[i] = q
  <2>1. CASE q = waiters[1]
    <3>1. ~ \E i \in DOMAIN waiters' : waiters'[i] = q
      BY <1>1, <2>1 DEF WaitersExact
    <3>. QED
      BY <1>2, <2>1, <3>1
  <2>2. CASE q # waiters[1]
    <3>1. ASSUME NEW i \in DOMAIN waiters, waiters[i] = q
          PROVE  i - 1 \in DOMAIN waiters' /\ waiters'[i - 1] = q
      BY <1>1, <2>2, <3>1
    <3>2. ASSUME NEW i \in DOMAIN waiters', waiters'[i] = q
          PROVE  i + 1 \in DOMAIN waiters /\ waiters[i + 1] = q
      BY <1>1, <3>2
    <3>3. (\E i \in DOMAIN waiters : waiters[i] = q) <=> \E i \in DOMAIN waiters' : waiters'[i] = q
      BY <3>1, <3>2
    <3>. QED
      BY <1>2, <2>2, <3>3 DEF WaitersExact
  <2>. QED
    BY <2>1, <2>2
<1>. QED
  BY <1>3, <1>4 DEF WaitersExact

LEMMA WaitersKept ==
  ASSUME ProgramTypes, AtPlace, WaitersExact, [Next]_vars
  PROVE  WaitersExact'
<1>1. ASSUME UNCHANGED <<pc, waiters>>
      PROVE  WaitersExact'
  BY <1>1 DEF WaitersExact
<1>2. CASE Master
  <2>1. CASE MasterRemoveQueues
    <3>1. waiters' = <<>> /\ \A p \in Proc : pc'[p] # "waiting"
      BY <2>1 DEF MasterRemoveQueues
    <3>. QED
      BY <3>1 DEF WaitersExact
  <2>. QED
    BY <1>1, <1>2, <2>1 DEF Master, MasterAllot, MasterFork, MasterWait, MasterRemoveSems,
                            procVars, queueVars
<1>3. CASE Scheduler
  BY <1>1, <1>3 DEF Scheduler, SchedDispatch, SchedRequeue, SchedTerminate, SchedSignal,
                    procVars, queueVars
<1>4. CASE Mmu
  <2>1. ASSUME NEW verdict, NEW step, Reply(verdict, step)
        PROVE  WaitersExact'
    <3>1. CASE waiters = <<>>
      BY <1>1, <2>1, <3>1 DEF Reply
    <3>2. CASE waiters # <<>>
      BY <2>1, <3>2, WaitersLeave DEF Reply
    <3>. QED
      BY <3>1, <3>2
  <2>2. CASE MmuReplyFrame \/ MmuReplyFault \/ MmuReplyInvalid
    BY <2>1, <2>2 DEF MmuReplyFrame, MmuReplyFault, MmuReplyInvalid
  <2>. QED
    BY <1>1, <1>4, <2>2 DEF Mmu, MmuEnd, MmuInvalid, MmuHit, MmuFault, Receive,
                            MmuNotifyEnd, MmuNotifyInvalid, MmuNotifyLoaded, Notify,
                            MmuReport, MmuFail, procVars, queueVars
<1>5. ASSUME NEW p \in Proc, Process(p)
      PROVE  WaitersExact'
  <2>1. CASE ProcReceive(p) /\ waiters' # waiters
    BY <2>1, WaitersJoin DEF ProcReceive
  <2>2. CASE ~ (ProcReceive(p) /\ waiters' # waiters)
    <3>1. /\ UNCHANGED waiters /\ pc[p] # "waiting"
          /\ \E a : a # "waiting" /\ pc' = [pc EXCEPT ![p] = a]
      <4>1. CASE ProcReceive(p)
        <5>1. UNCHANGED waiters /\ pc[p] # "waiting" /\ pc' = [pc EXCEPT ![p] = "answered"]
          BY <2>2, <4>1, QueueChange DEF ProcReceive, ProgramTypes, QueueTypes
        <5>. QED
          BY <5>1
      <4>2. CASE ProcAnswered(p)
        BY <4>2 DEF ProcAnswered, queueVars
      <4>3. CASE ProcStart(p) \/ ProcScheduled(p) \/ ProcSend(p) \/ ProcComplete(p)
        BY <4>3 DEF ProcStart, ProcScheduled, ProcSend, ProcComplete, SendRequest, queueVars
      <4>. QED
        BY <1>5, <4>1, <4>2, <4>3 DEF Process
    <3>. QED
      BY <3>1, WaitersSame
  <2>. QED
    BY <2>1, <2>2
<1>6. CASE UNCHANGED vars
  BY <1>1, <1>6 DEF vars, procVars, queueVars
<1>. QED
  BY <1>2, <1>3, <1>4, <1>5, <1>6 DEF Next, Finished

--------------------------------------------------------------------------------
(* One CPU                                                                        *)

LEMMA SetOfProcesses ==
  ASSUME NEW S \in SUBSET Proc
  PROVE  /\ Cardinality(S) \in Nat
         /\ Cardinality(S) = 0 <=> S = {}
         /\ \A p \in Proc : /\ Cardinality(S \cup {p}) = Cardinality(S) + One(p \notin S)
                            /\ Cardinality(S \ {p}) = Cardinality(S) - One(p \in S)
                            /\ p \in S => Cardinality(S) > 0
<1>1. IsFiniteSet(S)
  BY Processes, FS_Subset
<1>2. Cardinality(S) \in Nat
  BY <1>1, FS_CardinalityType
<1>3. Cardinality(S) = 0 <=> S = {}
  BY <1>1, FS_EmptySet
<1>4. ASSUME NEW p \in Proc
      PROVE  Cardinality(S \cup {p}) = Cardinality(S) + One(p \notin S)
  <2>1. CASE p \in S
    <3>1. S \cup {p} = S
      BY <2>1
    <3>2. One(p \notin S) = 0
      BY <2>1 DEF One
    <3>3. Cardinality(S) = Cardinality(S) + 0
      BY <1>2
    <3>. QED
      BY <3>1, <3>2, <3>3
  <2>2. CASE p \notin S
    BY <1>1, <2>2, FS_AddElement DEF One
  <2>. QED
    BY <2>1, <2>2
<1>5. ASSUME NEW p \in Proc
      PROVE  Cardinality(S \ {p}) = Cardinality(S) - One(p \in S)
  BY <1>1, <1>2, FS_RemoveElement DEF One
<1>. QED
  BY <1>2, <1>3, <1>4, <1>5

Requested == Len(requests)
Noticed   == Len(msq2)
Answered  == Len(replies)

LEMMA Amounts ==
  ASSUME ProgramTypes
  PROVE  /\ Cardinality(Signalled) \in Nat /\ Cardinality(Running) \in Nat
         /\ Cardinality(Served) \in Nat /\ Cardinality(Asking) \in Nat
         /\ Requested \in Nat /\ Answered \in Nat /\ Noticed \in Nat
         /\ Count(replies, Frames) \in Nat /\ Count(requests, Questions) \in Nat
         /\ Busy \in {0, 1} /\ Owed \in {0, 1} /\ Slot \in {0, 1}
<1>1. Signalled \in SUBSET Proc /\ Running \in SUBSET Proc /\ Served \in SUBSET Proc /\ Asking \in SUBSET Proc
  BY DEF Signalled, Running, Served, Asking
<1>2. Requested \in Nat /\ Answered \in Nat /\ Noticed \in Nat
  BY DEF Requested, Answered, Noticed, ProgramTypes, QueueTypes
<1>3. Count(replies, Frames) \in Nat
  BY CountBounds DEF ProgramTypes, QueueTypes
<1>4. Count(requests, Questions) \in Nat
  BY CountBounds DEF ProgramTypes, QueueTypes
<1>5. Busy \in {0, 1} /\ Owed \in {0, 1} /\ Slot \in {0, 1}
  BY DEF One, Busy, Owed, Slot
<1>. QED
  BY <1>1, <1>2, <1>3, <1>4, <1>5, SetOfProcesses

(* While the scheduler chooses, nothing at all is under way. *)
LEMMA NothingUnderWay ==
  ASSUME ProgramTypes, OneCpu, ~ semsRemoved, sched # "mmu"
  PROVE  /\ Signalled = {} /\ Running = {} /\ Served = {} /\ requests = <<>> /\ msq2 = <<>>
         /\ Busy = 0
<1>1. /\ Cardinality(Signalled) = 0 /\ Cardinality(Running) = 0 /\ Cardinality(Served) = 0
      /\ Requested = 0 /\ Noticed = 0 /\ Busy = 0
  <2>1. Slot = 0
    BY DEF Slot, One
  <2>. QED
    BY <2>1, Amounts, SMTT(20) DEF OneCpu, Requested, Noticed
<1>2. Signalled \in SUBSET Proc /\ Running \in SUBSET Proc /\ Served \in SUBSET Proc
  BY DEF Signalled, Running, Served
<1>3. Signalled = {} /\ Running = {} /\ Served = {}
  BY <1>1, <1>2, SetOfProcesses
<1>4. requests = <<>> /\ msq2 = <<>> /\ Busy = 0
  BY <1>1 DEF ProgramTypes, QueueTypes, Requested, Noticed
<1>. QED
  BY <1>3, <1>4

LEMMA OneSignalKept ==
  ASSUME ProgramTypes, Removals, OneSignal, OneCpu, [Next]_vars
  PROVE  OneSignal'
<1>1. ASSUME UNCHANGED <<sem, semsRemoved>>
      PROVE  OneSignal'
  BY <1>1 DEF OneSignal
<1>2. CASE Master
  BY <1>1, <1>2 DEF Master, MasterAllot, MasterFork, MasterWait, MasterRemoveSems, MasterRemoveQueues,
                    OneSignal, semVars
<1>3. CASE Scheduler
  <2>1. CASE SchedDispatch
    <3>1. /\ semsRemoved' = semsRemoved /\ sched = "ready" /\ Head(ready_queue) \in Proc
          /\ sem' = [sem EXCEPT ![Head(ready_queue)] = @ + 1]
      BY <2>1 DEF SchedDispatch, ProgramTypes, QueueTypes
    <3>2. ~ semsRemoved => \A p \in Proc : sem[p] = 0
      BY <3>1, NothingUnderWay DEF Signalled, ProgramTypes, SemTypes
    <3>. QED
      BY <3>1, <3>2 DEF OneSignal, ProgramTypes, SemTypes
  <2>. QED
    BY <1>1, <1>3, <2>1 DEF Scheduler, SchedRequeue, SchedTerminate, SchedSignal, semVars
<1>4. CASE Mmu
  BY <1>1, <1>4 DEF Mmu, MmuEnd, MmuInvalid, MmuHit, MmuFault, Receive,
                    MmuNotifyEnd, MmuNotifyInvalid, MmuNotifyLoaded, Notify,
                    MmuReplyFrame, MmuReplyFault, MmuReplyInvalid, Reply, MmuReport, MmuFail, semVars
<1>5. ASSUME NEW p \in Proc, Process(p)
      PROVE  OneSignal'
  <2>1. CASE ProcScheduled(p)
    BY <2>1 DEF ProcScheduled, OneSignal, ProgramTypes, SemTypes
  <2>. QED
    BY <1>1, <1>5, <2>1 DEF Process, ProcStart, ProcSend, ProcReceive, ProcAnswered, ProcComplete, semVars
<1>6. CASE UNCHANGED vars
  BY <1>1, <1>6 DEF vars, semVars
<1>. QED
  BY <1>2, <1>3, <1>4, <1>5, <1>6 DEF Next, Finished

LEMMA RemovalsForGood ==
  ASSUME ProgramTypes, Removals, [Next]_vars
  PROVE  (semsRemoved => semsRemoved') /\ (queuesRemoved => queuesRemoved')
<1>1. master = "exited" => master' = "exited"
  BY DEF Next, Finished, Master, MasterAllot, MasterFork, MasterWait, MasterRemoveSems, MasterRemoveQueues,
         Scheduler, SchedDispatch, SchedRequeue, SchedTerminate, SchedSignal,
         Mmu, MmuEnd, MmuInvalid, MmuHit, MmuFault, Receive,
         MmuNotifyEnd, MmuNotifyInvalid, MmuNotifyLoaded, Notify,
         MmuReplyFrame, MmuReplyFault, MmuReplyInvalid, Reply, MmuReport, MmuFail,
         Process, ProcStart, ProcScheduled, ProcSend, ProcReceive, ProcAnswered,
         ProcComplete, vars, masterVars
<1>2. master = "rm_queues" => master' \in {"rm_queues", "exited"}
  BY DEF Next, Finished, Master, MasterAllot, MasterFork, MasterWait, MasterRemoveSems, MasterRemoveQueues,
         Scheduler, SchedDispatch, SchedRequeue, SchedTerminate, SchedSignal,
         Mmu, MmuEnd, MmuInvalid, MmuHit, MmuFault, Receive,
         MmuNotifyEnd, MmuNotifyInvalid, MmuNotifyLoaded, Notify,
         MmuReplyFrame, MmuReplyFault, MmuReplyInvalid, Reply, MmuReport, MmuFail,
         Process, ProcStart, ProcScheduled, ProcSend, ProcReceive, ProcAnswered,
         ProcComplete, vars, masterVars
<1>. QED
  BY <1>1, <1>2, RemovalsKept DEF Removals

LEMMA AmountsUnchanged ==
  /\ UNCHANGED sem => Signalled' = Signalled
  /\ UNCHANGED pc => Running' = Running /\ Asking' = Asking
  /\ UNCHANGED answer => Served' = Served
  /\ UNCHANGED replies => Count(replies, Frames)' = Count(replies, Frames)
  /\ UNCHANGED requests => Count(requests, Questions)' = Count(requests, Questions)
  /\ UNCHANGED mmu => Busy' = Busy /\ Owed' = Owed
  /\ UNCHANGED sched => Slot' = Slot
  /\ UNCHANGED requests => Requested' = Requested
  /\ UNCHANGED msq2 => Noticed' = Noticed
  /\ UNCHANGED replies => Answered' = Answered
BY DEF Signalled, Running, Asking, Served, Count, Busy, Owed, Slot, One,
       Requested, Noticed, Answered

LEMMA OneCpuKept ==
  ASSUME ProgramTypes, Stages, WaitersExact, OneCpu, [Next]_vars
  PROVE  OneCpu'
<1>. DEFINE Sum == Cardinality(Signalled) + Cardinality(Running) + Requested + Busy
                   + Count(replies, Frames) + Cardinality(Served) + Noticed
<1>1. SUFFICES ASSUME ~ semsRemoved', ~ semsRemoved, Sum = Slot,
                      ~ queuesRemoved, ~ queuesRemoved'
               PROVE  Sum' = Slot'
  <2>1. Removals'
    BY RemovalsKept DEF Stages
  <2>2. /\ semsRemoved => semsRemoved'
        /\ queuesRemoved => semsRemoved
        /\ queuesRemoved' => semsRemoved'
    BY <2>1, RemovalsForGood DEF Stages, Removals
  <2>. QED
    BY <2>2 DEF OneCpu, Requested, Noticed
<1>. HIDE DEF Sum
<1>2. ASSUME UNCHANGED <<sem, pc, answer, requests, replies, msq2, mmu, sched>>
      PROVE  Sum' = Slot'
  BY <1>1, <1>2, Amounts, AmountsUnchanged DEF Sum
<1>3. CASE Master
  <2>1. CASE MasterAllot \/ MasterFork \/ MasterWait
    BY <1>2, <2>1 DEF MasterAllot, MasterFork, MasterWait, schedVars, mmuVars, procVars, semVars, queueVars
  <2>2. CASE MasterRemoveSems \/ MasterRemoveQueues
    BY <1>1, <2>2 DEF MasterRemoveSems, MasterRemoveQueues
  <2>. QED
    BY <1>3, <2>1, <2>2 DEF Master
<1>4. CASE Scheduler
  <2>1. CASE SchedDispatch
    <3>. DEFINE h == Head(ready_queue)
    <3>1. h \in Proc
      BY <2>1 DEF SchedDispatch, ProgramTypes, QueueTypes
    <3>2. UNCHANGED <<pc, answer, requests, replies, msq2, mmu>> /\ sched = "ready" /\ sched' = "mmu"
      BY <2>1 DEF SchedDispatch, mmuVars, procVars
    <3>3. Signalled' = Signalled \cup {h}
      <4>1. sem' = [sem EXCEPT ![h] = sem[h] + 1]
        BY <2>1 DEF SchedDispatch
      <4>. HIDE DEF h
      <4>. QED
        BY <3>1, <4>1 DEF Signalled, ProgramTypes, SemTypes
    <3>4. Signalled = {}
      BY <1>1, <3>2, NothingUnderWay
    <3>. HIDE DEF h
    <3>5. Cardinality(Signalled') = Cardinality(Signalled) + 1
      BY <3>1, <3>3, <3>4, SetOfProcesses DEF One
    <3>6. Slot = 0 /\ Slot' = 1
      BY <3>2 DEF Slot, One
    <3>7. /\ Cardinality(Running)' = Cardinality(Running) /\ Cardinality(Served)' = Cardinality(Served)
          /\ Count(replies, Frames)' = Count(replies, Frames) /\ Busy' = Busy
          /\ Requested' = Requested /\ Noticed' = Noticed
      BY <3>2, AmountsUnchanged
    <3>. QED
      BY <1>1, <3>5, <3>6, <3>7, Amounts DEF Sum
  <2>2. CASE SchedRequeue \/ SchedTerminate
    <3>1. UNCHANGED <<sem, pc, answer, requests, replies, mmu>> /\ sched = "mmu" /\ sched' # "mmu"
      BY <2>2 DEF SchedRequeue, SchedTerminate, AfterNotice, semVars, mmuVars, procVars
    <3>2. Noticed' = Noticed - 1
      BY <2>2 DEF SchedRequeue, SchedTerminate, ProgramTypes, QueueTypes, Noticed
    <3>3. Slot = 1 /\ Slot' = 0
      BY <3>1 DEF Slot, One
    <3>4. /\ Signalled' = Signalled /\ Running' = Running /\ Served' = Served
          /\ Count(replies, Frames)' = Count(replies, Frames) /\ Busy' = Busy /\ UNCHANGED requests
      BY <3>1, AmountsUnchanged
    <3>. QED
      BY <1>1, <3>2, <3>3, <3>4, Amounts, AmountsUnchanged DEF Sum
  <2>3. CASE SchedSignal
    <3>1. UNCHANGED <<sem, pc, answer, requests, replies, msq2, mmu>> /\ sched = "signal" /\ sched' = "exited"
      BY <2>3 DEF SchedSignal, mmuVars, procVars, queueVars
    <3>. QED
      BY <1>1, <3>1, Amounts, AmountsUnchanged DEF Sum, Slot, One
  <2>. QED
    BY <1>4, <2>1, <2>2, <2>3 DEF Scheduler
<1>5. CASE Mmu
  <2>1. ASSUME NEW r, NEW step, Receive(r, step), step \in MmuHas \ {"reply_invalid"}
        PROVE  Sum' = Slot'
    <3>1. UNCHANGED <<sem, pc, answer, replies, msq2, sched>>
      BY <2>1 DEF Receive, semVars, procVars, schedVars
    <3>2. Requested' = Requested - 1
      BY <2>1 DEF Receive, ProgramTypes, QueueTypes, Requested
    <3>3. Busy = 0 /\ Busy' = 1
      BY <2>1 DEF Receive, Busy, MmuHas, One
    <3>. QED
      BY <1>1, <3>1, <3>2, <3>3, Amounts, AmountsUnchanged DEF Sum
  <2>2. CASE MmuNotifyEnd \/ MmuNotifyInvalid \/ MmuNotifyLoaded
    <3>1. UNCHANGED <<sem, pc, answer, requests, replies, sched>>
      BY <2>2 DEF MmuNotifyEnd, MmuNotifyInvalid, MmuNotifyLoaded, Notify, semVars, procVars, schedVars
    <3>2. Noticed' = Noticed + 1
      BY <2>2 DEF MmuNotifyEnd, MmuNotifyInvalid, MmuNotifyLoaded, Notify, ProgramTypes, QueueTypes, Noticed
    <3>3. Busy = 1 /\ Busy' = 0
      BY <2>2 DEF MmuNotifyEnd, MmuNotifyInvalid, MmuNotifyLoaded, Notify, Busy, One
    <3>. QED
      BY <1>1, <3>1, <3>2, <3>3, Amounts, AmountsUnchanged DEF Sum
  <2>3. ASSUME NEW verdict \in Verdict, NEW step, Reply(verdict, step), cur.pid \in Proc
        PROVE  /\ UNCHANGED <<sem, requests, msq2, sched, Cardinality(Running)>>
               /\ Count(replies, Frames)' + Cardinality(Served)'
                  = Count(replies, Frames) + Cardinality(Served) + One(verdict = "frame")
               /\ Count(replies, Frames)' \in Nat /\ Cardinality(Served)' \in Nat
    <3>. DEFINE r == [pid |-> cur.pid, num |-> verdict]
                h == Head(waiters)
    <3>1. r \in Answer /\ r.num = verdict /\ (r \in Frames <=> verdict = "frame")
      BY <2>3 DEF Answer, Frames
    <3>2. UNCHANGED <<sem, requests, msq2, sched>>
      BY <2>3 DEF Reply, semVars, schedVars
    <3>3. CASE waiters = <<>>
      <4>1. replies' = Append(replies, r) /\ UNCHANGED <<answer, pc>>
        BY <2>3, <3>3 DEF Reply
      <4>. HIDE DEF r
      <4>2. Count(replies', Frames) = Count(replies, Frames) + One(r \in Frames)
        BY <3>1, <4>1, CountAppend DEF ProgramTypes, QueueTypes, One
      <4>3. One(r \in Frames) = One(verdict = "frame") /\ One(verdict = "frame") \in {0, 1}
        BY <3>1 DEF One
      <4>4. Served' = Served /\ Running' = Running
        BY <4>1, AmountsUnchanged
      <4>5. Count(replies, Frames) \in Nat /\ Cardinality(Served) \in Nat
        BY Amounts
      <4>. QED
        BY <3>2, <4>2, <4>3, <4>4, <4>5
    <3>4. CASE waiters # <<>>
      <4>1. /\ answer' = [answer EXCEPT ![h] = r] /\ pc' = [pc EXCEPT ![h] = "answered"]
            /\ UNCHANGED replies
        BY <2>3, <3>4 DEF Reply
      <4>2. h \in Proc /\ pc[h] = "waiting"
        BY <3>4 DEF WaitersExact, ProgramTypes, QueueTypes
      <4>. HIDE DEF h, r
      <4>3. answer[h] = NoAnswer
        BY <4>2 DEF Stages, AtPlace
      <4>4. Served' = IF verdict = "frame" THEN Served \cup {h} ELSE Served
        BY <3>1, <4>1, <4>2, <4>3 DEF Served, NoAnswer, ProgramTypes, ProcTypes
      <4>5. h \notin Served /\ Served \in SUBSET Proc
        BY <4>3 DEF Served, NoAnswer
      <4>6. Cardinality(Served') = Cardinality(Served) + One(verdict = "frame")
        <5>1. Cardinality(Served \cup {h}) = Cardinality(Served) + 1
          BY <4>2, <4>5, SetOfProcesses DEF One
        <5>2. Cardinality(Served) \in Nat
          BY Amounts
        <5>. QED
          BY <4>4, <5>1, <5>2 DEF One
      <4>7. Running' = Running
        BY <4>1, <4>2 DEF Running, ProgramTypes, ProcTypes
      <4>. QED
        BY Amounts, AmountsUnchanged, <3>2, <4>1, <4>6, <4>7 DEF One
    <3>. QED
      BY <3>3, <3>4
  <2>4. mmu \in {"reply_frame", "reply_fault", "reply_invalid"} => cur.pid \in Proc
    BY DEF Stages, InHand, MmuHas, Request
  <2>5. CASE MmuReplyFrame
    <3>1. Reply("frame", "loop") /\ cur.pid \in Proc /\ mmu = "reply_frame" /\ mmu' = "loop"
      BY <2>4, <2>5 DEF MmuReplyFrame, Reply
    <3>2. Busy = 1 /\ Busy' = 0
      BY <3>1 DEF Busy, One
    <3>3. /\ UNCHANGED <<sem, requests, msq2, sched, Cardinality(Running)>>
          /\ Count(replies, Frames)' + Cardinality(Served)' = Count(replies, Frames) + Cardinality(Served) + 1
          /\ Count(replies, Frames)' \in Nat /\ Cardinality(Served)' \in Nat
      BY <2>3, <3>1, Amounts DEF Verdict, One
    <3>4. /\ Cardinality(Signalled)' = Cardinality(Signalled) /\ Slot' = Slot
          /\ Requested' = Requested /\ Noticed' = Noticed
      BY <3>3, AmountsUnchanged
    <3>. QED
      BY <1>1, <3>2, <3>3, <3>4, Amounts DEF Sum
  <2>6. CASE MmuReplyFault \/ MmuReplyInvalid
    <3>1. PICK verdict \in {"fault", "invalid"}, step \in {"loop", "notify_loaded"} : Reply(verdict, step)
      BY <2>6 DEF MmuReplyFault, MmuReplyInvalid
    <3>2. cur.pid \in Proc
      BY <2>4, <2>6 DEF MmuReplyFault, MmuReplyInvalid
    <3>3. Busy' = Busy
      BY <2>6 DEF MmuReplyFault, MmuReplyInvalid, Reply, Busy, One
    <3>4. /\ UNCHANGED <<sem, requests, msq2, sched, Cardinality(Running)>>
          /\ Count(replies, Frames)' + Cardinality(Served)' = Count(replies, Frames) + Cardinality(Served)
          /\ Count(replies, Frames)' \in Nat /\ Cardinality(Served)' \in Nat
      BY <2>3, <3>1, <3>2, Amounts DEF Verdict, One
    <3>5. /\ Cardinality(Signalled)' = Cardinality(Signalled) /\ Slot' = Slot
          /\ Requested' = Requested /\ Noticed' = Noticed
      BY <3>4, AmountsUnchanged
    <3>. QED
      BY <1>1, <3>3, <3>4, <3>5, Amounts DEF Sum
  <2>7. CASE MmuReport
    <3>1. /\ UNCHANGED <<sem, pc, answer, requests, replies, msq2, sched>>
          /\ Busy = 0 /\ Busy' = 0
      BY <2>7 DEF MmuReport, Busy, One, semVars, procVars, schedVars, queueVars
    <3>. QED
      BY <1>1, <3>1, Amounts, AmountsUnchanged DEF Sum
  <2>8. CASE MmuFail
    BY <1>1, <2>8 DEF MmuFail
  <2>. QED
    BY <1>5, <2>1, <2>2, <2>5, <2>6, <2>7, <2>8 DEF Mmu, MmuEnd, MmuInvalid, MmuHit, MmuFault, MmuHas
<1>6. ASSUME NEW p \in Proc, Process(p)
      PROVE  Sum' = Slot'
  <2>1. CASE ProcStart(p)
    <3>1. Running' = Running
      BY <2>1 DEF ProcStart, Running, ProgramTypes, ProcTypes
    <3>2. UNCHANGED <<sem, answer, requests, replies, msq2, mmu, sched>>
      BY <2>1 DEF ProcStart, semVars, mmuVars, schedVars
    <3>. QED
      BY <1>1, <3>1, <3>2, Amounts, AmountsUnchanged DEF Sum
  <2>2. CASE ProcScheduled(p)
    <3>1. /\ sem[p] > 0 /\ sem' = [sem EXCEPT ![p] = @ - 1] /\ pc[p] # "send"
          /\ pc' = [pc EXCEPT ![p] = "send"]
      BY <1>1, <2>2 DEF ProcScheduled
    <3>2. sem[p] = 1
      BY <1>1, <3>1 DEF Stages, OneSignal, ProgramTypes, SemTypes
    <3>3. Signalled' = Signalled \ {p} /\ p \in Signalled /\ Signalled \in SUBSET Proc
      BY <3>1, <3>2 DEF Signalled, ProgramTypes, SemTypes
    <3>4. Running' = Running \cup {p} /\ p \notin Running /\ Running \in SUBSET Proc
      BY <3>1 DEF Running, ProgramTypes, ProcTypes
    <3>5. /\ Cardinality(Signalled') = Cardinality(Signalled) - 1
          /\ Cardinality(Running') = Cardinality(Running) + 1
      BY <3>3, <3>4, SetOfProcesses DEF One
    <3>6. UNCHANGED <<answer, requests, replies, msq2, mmu, sched>>
      BY <2>2 DEF ProcScheduled, mmuVars, schedVars, queueVars
    <3>. QED
      BY <1>1, <3>5, <3>6, Amounts, AmountsUnchanged DEF Sum
  <2>3. CASE ProcSend(p) \/ ProcComplete(p)
    <3>1. /\ pc[p] = "send" /\ \E a \in {"recv", "completed"} : pc' = [pc EXCEPT ![p] = a]
          /\ \E r : requests' = Append(requests, r)
      BY <1>1, <2>3 DEF ProcSend, ProcComplete, SendRequest
    <3>2. Running' = Running \ {p} /\ p \in Running /\ Running \in SUBSET Proc
      BY <3>1 DEF Running, ProgramTypes, ProcTypes
    <3>3. Cardinality(Running') = Cardinality(Running) - 1
      BY <3>2, SetOfProcesses DEF One
    <3>4. Requested' = Requested + 1
      BY <3>1 DEF ProgramTypes, QueueTypes, Requested
    <3>5. UNCHANGED <<sem, answer, replies, msq2, mmu, sched>>
      BY <2>3 DEF ProcSend, ProcComplete, SendRequest, semVars, mmuVars, schedVars
    <3>. QED
      BY <1>1, <3>3, <3>4, <3>5, Amounts, AmountsUnchanged DEF Sum
  <2>4. CASE ProcReceive(p)
    <3>1. UNCHANGED <<sem, requests, msq2, mmu, sched>>
      BY <2>4 DEF ProcReceive, semVars, mmuVars, schedVars
    <3>2. Running' = Running
      BY <2>4 DEF ProcReceive, Running, ProgramTypes, ProcTypes
    <3>3. CASE replies = <<>>
      BY <1>1, <2>4, <3>1, <3>2, <3>3, Amounts, AmountsUnchanged DEF ProcReceive, Sum
    <3>4. CASE replies # <<>>
      <4>1. /\ answer' = [answer EXCEPT ![p] = Head(replies)] /\ replies' = Tail(replies) /\ pc[p] = "recv"
        BY <1>1, <2>4, <3>4 DEF ProcReceive
      <4>2. answer[p] = NoAnswer
        BY <4>1 DEF Stages, AtPlace
      <4>3. Head(replies) \in Answer
        BY <3>4 DEF ProgramTypes, QueueTypes
      <4>4. Head(replies).num = "frame" <=> Head(replies) \in Frames
        BY <4>3 DEF Answer, Frames
      <4>5. Served' = IF Head(replies) \in Frames THEN Served \cup {p} ELSE Served
        BY <4>1, <4>2, <4>4 DEF Served, NoAnswer, ProgramTypes, ProcTypes
      <4>6. p \notin Served /\ Served \in SUBSET Proc
        BY <4>2 DEF Served, NoAnswer
      <4>7. Cardinality(Served') = Cardinality(Served) + One(Head(replies) \in Frames)
        <5>1. Cardinality(Served \cup {p}) = Cardinality(Served) + 1
          BY <4>6, SetOfProcesses DEF One
        <5>. QED
          BY <4>5, <5>1, Amounts DEF One
      <4>8. Count(replies, Frames) = Count(replies', Frames) + One(Head(replies) \in Frames)
        BY <3>4, <4>1, CountTail DEF ProgramTypes, QueueTypes, One
      <4>9. replies' \in Seq(Answer)
        BY <3>4, <4>1, QueueChange DEF ProgramTypes, QueueTypes
      <4>10. Count(replies', Frames) \in Nat
        BY <4>9, CountBounds
      <4>11. One(Head(replies) \in Frames) \in {0, 1}
        BY DEF One
      <4>12. /\ Busy' = Busy /\ Slot' = Slot
             /\ Cardinality(Signalled)' = Cardinality(Signalled) /\ Cardinality(Running)' = Cardinality(Running)
             /\ Requested' = Requested /\ Noticed' = Noticed
        BY <3>1, <3>2, AmountsUnchanged
      <4>. QED
        BY <1>1, <4>7, <4>8, <4>10, <4>11, <4>12, Amounts DEF Sum
    <3>. QED
      BY <3>3, <3>4
  <2>5. CASE ProcAnswered(p)
    <3>1. UNCHANGED <<sem, requests, replies, msq2, mmu, sched>>
      BY <2>5 DEF ProcAnswered, semVars, mmuVars, schedVars, queueVars
    <3>2. pc[p] = "answered" /\ answer' = [answer EXCEPT ![p] = NoAnswer]
      BY <2>5 DEF ProcAnswered
    <3>3. CASE answer[p].num = "frame"
      <4>1. pc' = [pc EXCEPT ![p] = "send"]
        BY <2>5, <3>3 DEF ProcAnswered
      <4>2. Served' = Served \ {p} /\ p \in Served /\ Served \in SUBSET Proc
        BY <3>2, <3>3 DEF Served, NoAnswer, ProgramTypes, ProcTypes
      <4>3. Running' = Running \cup {p} /\ p \notin Running /\ Running \in SUBSET Proc
        BY <3>2, <4>1 DEF Running, ProgramTypes, ProcTypes
      <4>4. /\ Cardinality(Served') = Cardinality(Served) - 1
            /\ Cardinality(Running') = Cardinality(Running) + 1
        BY <4>2, <4>3, SetOfProcesses DEF One
      <4>5. /\ Busy' = Busy /\ Slot' = Slot /\ Cardinality(Signalled)' = Cardinality(Signalled)
            /\ Count(replies, Frames)' = Count(replies, Frames)
            /\ Requested' = Requested /\ Noticed' = Noticed
        BY <3>1, AmountsUnchanged
      <4>. QED
        BY <1>1, <4>4, <4>5, Amounts DEF Sum
    <3>4. CASE answer[p].num # "frame"
      <4>1. \E a \in {"faulted", "killed"} : pc' = [pc EXCEPT ![p] = a]
        BY <2>5, <3>4 DEF ProcAnswered
      <4>2. Served' = Served
        BY <3>2, <3>4 DEF Served, NoAnswer, ProgramTypes, ProcTypes
      <4>3. Running' = Running
        BY <3>2, <4>1 DEF Running, ProgramTypes, ProcTypes
      <4>. QED
        BY <1>1, <3>1, <4>2, <4>3, Amounts, AmountsUnchanged DEF Sum
    <3>. QED
      BY <3>3, <3>4
  <2>. QED
    BY <1>6, <2>1, <2>2, <2>3, <2>4, <2>5 DEF Process
<1>7. CASE UNCHANGED vars
  BY <1>2, <1>7 DEF vars, schedVars, mmuVars, procVars, semVars, queueVars
<1>. QED
  BY <1>3, <1>4, <1>5, <1>6, <1>7 DEF Next, Finished

--------------------------------------------------------------------------------
(* One answer per request                                                         *)

LEMMA AnswersKept ==
  ASSUME ProgramTypes, Stages, WaitersExact, OneAnswerPerRequest, [Next]_vars
  PROVE  OneAnswerPerRequest'
<1>. DEFINE Due == Count(requests, Questions) + Owed + Answered
<1>1. SUFFICES ASSUME ~ queuesRemoved, ~ queuesRemoved', Due = Cardinality(Asking)
               PROVE  Due' = Cardinality(Asking)'
  <2>1. queuesRemoved => queuesRemoved'
    BY RemovalsForGood DEF Stages
  <2>. QED
    BY <2>1 DEF OneAnswerPerRequest, Answered
<1>. HIDE DEF Due
<1>2. ASSUME UNCHANGED <<requests, replies, mmu>>, Asking' = Asking
      PROVE  Due' = Cardinality(Asking)'
  BY <1>1, <1>2, Amounts, AmountsUnchanged DEF Due
<1>3. ASSUME UNCHANGED <<requests, replies, mmu, pc>>
      PROVE  Due' = Cardinality(Asking)'
  BY <1>2, <1>3, AmountsUnchanged
<1>4. CASE Master
  <2>1. CASE MasterRemoveQueues
    BY <1>1, <2>1 DEF MasterRemoveQueues
  <2>. QED
    BY <1>3, <1>4, <2>1 DEF Master, MasterAllot, MasterFork, MasterWait, MasterRemoveSems,
                            mmuVars, procVars, queueVars
<1>5. CASE Scheduler
  BY <1>3, <1>5 DEF Scheduler, SchedDispatch, SchedRequeue, SchedTerminate, SchedSignal,
                    mmuVars, procVars, queueVars
<1>6. CASE Mmu
  <2>1. ASSUME NEW r \in Request, NEW step \in MmuHas, Receive(r, step),
               Owed' = One(r \in Questions)
        PROVE  Due' = Cardinality(Asking)'
    <3>1. requests # <<>> /\ requests \in Seq(Request) /\ requests' = Tail(requests) /\ Head(requests) = r
      BY <2>1 DEF Receive, ProgramTypes, QueueTypes
    <3>2. Count(requests, Questions) = Count(Tail(requests), Questions) + One(r \in Questions)
      BY <3>1, CountTail DEF One
    <3>3. Count(Tail(requests), Questions) \in Nat
      <4>1. Tail(requests) \in Seq(Request)
        BY <3>1, QueueChange
      <4>. QED
        BY <4>1, CountBounds
    <3>4. Count(requests, Questions)' = Count(Tail(requests), Questions)
      BY <3>1
    <3>5. Owed = 0 /\ One(r \in Questions) \in {0, 1}
      BY <2>1 DEF Receive, Owed, One
    <3>6. Asking' = Asking /\ Answered' = Answered
      BY <2>1, AmountsUnchanged DEF Receive, procVars
    <3>. QED
      BY <1>1, <2>1, <3>2, <3>3, <3>4, <3>5, <3>6, Amounts DEF Due
  <2>2. ASSUME NEW r \in Request, MmuEnd(r)
        PROVE  Due' = Cardinality(Asking)'
    <3>1. Receive(r, "notify_end") /\ r \notin Questions
      BY <2>2 DEF MmuEnd, Questions
    <3>2. Owed' = One(r \in Questions)
      BY <3>1 DEF Receive, Owed, One
    <3>. QED
      BY <2>1, <3>1, <3>2 DEF MmuHas
  <2>3. ASSUME NEW r \in Request, MmuInvalid(r) \/ MmuHit(r) \/ MmuFault(r)
        PROVE  Due' = Cardinality(Asking)'
    <3>1. r \in Questions
      BY <2>3 DEF MmuInvalid, MmuHit, MmuFault, IsLegal, Questions, Request, ProgramTypes, MasterTypes
    <3>2. PICK step \in {"notify_invalid", "reply_frame", "reply_fault"} : Receive(r, step)
      BY <2>3 DEF MmuInvalid, MmuHit, MmuFault
    <3>3. Owed' = One(r \in Questions)
      BY <3>1, <3>2 DEF Receive, Owed, One
    <3>. QED
      BY <2>1, <3>2, <3>3 DEF MmuHas
  <2>4. CASE MmuNotifyEnd \/ MmuNotifyInvalid \/ MmuNotifyLoaded
    <3>1. Owed' = Owed
      BY <2>4 DEF MmuNotifyEnd, MmuNotifyInvalid, MmuNotifyLoaded, Notify, Owed, One
    <3>2. UNCHANGED <<requests, replies, pc>>
      BY <2>4 DEF MmuNotifyEnd, MmuNotifyInvalid, MmuNotifyLoaded, Notify, procVars
    <3>. QED
      BY <1>1, <3>1, <3>2, Amounts, AmountsUnchanged DEF Due
  <2>5. CASE MmuReplyFrame \/ MmuReplyFault \/ MmuReplyInvalid
    <3>1. PICK verdict, step : Reply(verdict, step)
      BY <2>5 DEF MmuReplyFrame, MmuReplyFault, MmuReplyInvalid
    <3>2. Owed = 1 /\ Owed' = 0
      BY <2>5 DEF MmuReplyFrame, MmuReplyFault, MmuReplyInvalid, Reply, Owed, One
    <3>3. Count(requests, Questions)' = Count(requests, Questions)
      BY <3>1, AmountsUnchanged DEF Reply
    <3>4. CASE waiters = <<>>
      <4>1. Asking' = Asking
        BY <3>1, <3>4, AmountsUnchanged DEF Reply
      <4>2. \E a : replies' = Append(replies, a)
        BY <3>1, <3>4 DEF Reply
      <4>3. Answered' = Answered + 1
        BY <4>2 DEF Answered, ProgramTypes, QueueTypes
      <4>. QED
        BY <1>1, <3>2, <3>3, <4>1, <4>3, Amounts DEF Due
    <3>5. CASE waiters # <<>>
      <4>. DEFINE h == Head(waiters)
      <4>1. h \in Proc /\ pc[h] = "waiting"
        BY <3>5 DEF WaitersExact, ProgramTypes, QueueTypes
      <4>2. pc' = [pc EXCEPT ![h] = "answered"] /\ UNCHANGED replies
        BY <3>1, <3>5 DEF Reply
      <4>. HIDE DEF h
      <4>3. Asking' = Asking \ {h} /\ h \in Asking /\ Asking \in SUBSET Proc
        BY <4>1, <4>2 DEF Asking, ProgramTypes, ProcTypes
      <4>4. Cardinality(Asking') = Cardinality(Asking) - 1
        BY <4>3, SetOfProcesses DEF One
      <4>5. Answered' = Answered
        BY <4>2, AmountsUnchanged
      <4>. QED
        BY <1>1, <3>2, <3>3, <4>4, <4>5, Amounts DEF Due
    <3>. QED
      BY <3>4, <3>5
  <2>6. CASE MmuReport
    <3>1. Owed' = Owed
      BY <2>6 DEF MmuReport, Owed, One
    <3>2. UNCHANGED <<requests, replies, pc>>
      BY <2>6 DEF MmuReport, procVars, queueVars
    <3>. QED
      BY <1>1, <3>1, <3>2, Amounts, AmountsUnchanged DEF Due
  <2>7. CASE MmuFail
    BY <1>1, <2>7 DEF MmuFail
  <2>. QED
    BY <1>6, <2>2, <2>3, <2>4, <2>5, <2>6, <2>7 DEF Mmu
<1>7. ASSUME NEW p \in Proc, Process(p)
      PROVE  Due' = Cardinality(Asking)'
  <2>1. CASE ProcStart(p) \/ ProcScheduled(p) \/ ProcAnswered(p)
    <3>1. UNCHANGED <<requests, replies, mmu>>
      BY <2>1 DEF ProcStart, ProcScheduled, ProcAnswered, mmuVars, queueVars
    <3>2. \E a : /\ pc[p] \notin {"recv", "waiting"} /\ a \notin {"recv", "waiting"}
                 /\ pc' = [pc EXCEPT ![p] = a]
      BY <2>1 DEF ProcStart, ProcScheduled, ProcAnswered
    <3>3. Asking' = Asking
      BY <3>2 DEF Asking, ProgramTypes, ProcTypes
    <3>. QED
      BY <1>2, <3>1, <3>3
  <2>2. ASSUME NEW r \in Request, SendRequest(r)
        PROVE  Count(requests, Questions)' = Count(requests, Questions) + One(r \in Questions)
    <3>1. requests' = Append(requests, r)
      BY <1>1, <2>2 DEF SendRequest
    <3>. QED
      BY <3>1, CountAppend DEF ProgramTypes, QueueTypes, One
  <2>3. CASE ProcSend(p)
    <3>1. \E r \in Questions : SendRequest(r)
      BY <2>3 DEF ProcSend, Questions, ProgramTypes, ProcTypes
    <3>2. Questions \in SUBSET Request
      BY DEF Questions, Request
    <3>3. Count(requests, Questions)' = Count(requests, Questions) + 1
      BY <2>2, <3>1, <3>2 DEF One
    <3>4. Asking' = Asking \cup {p} /\ p \notin Asking /\ Asking \in SUBSET Proc
      BY <2>3 DEF ProcSend, Asking, ProgramTypes, ProcTypes
    <3>5. Cardinality(Asking') = Cardinality(Asking) + 1
      BY <3>4, SetOfProcesses DEF One
    <3>6. Owed' = Owed /\ Answered' = Answered
      BY <2>3, AmountsUnchanged DEF ProcSend, SendRequest, mmuVars
    <3>. QED
      BY <1>1, <3>3, <3>5, <3>6, Amounts DEF Due
  <2>4. CASE ProcReceive(p)
    <3>1. Owed' = Owed /\ Count(requests, Questions)' = Count(requests, Questions)
      BY <2>4, AmountsUnchanged DEF ProcReceive, mmuVars
    <3>2. CASE replies = <<>>
      <4>1. UNCHANGED replies /\ pc[p] = "recv" /\ pc' = [pc EXCEPT ![p] = "waiting"]
        BY <1>1, <2>4, <3>2 DEF ProcReceive
      <4>2. Asking' = Asking
        BY <4>1 DEF Asking, ProgramTypes, ProcTypes
      <4>3. Answered' = Answered
        BY <4>1, AmountsUnchanged
      <4>. QED
        BY <1>1, <3>1, <4>2, <4>3, Amounts DEF Due
    <3>3. CASE replies # <<>>
      <4>1. replies' = Tail(replies) /\ pc[p] = "recv" /\ pc' = [pc EXCEPT ![p] = "answered"]
        BY <1>1, <2>4, <3>3 DEF ProcReceive
      <4>2. Asking' = Asking \ {p} /\ p \in Asking /\ Asking \in SUBSET Proc
        BY <4>1 DEF Asking, ProgramTypes, ProcTypes
      <4>3. Cardinality(Asking') = Cardinality(Asking) - 1
        BY <4>2, SetOfProcesses DEF One
      <4>4. Answered' = Answered - 1
        BY <3>3, <4>1 DEF Answered, ProgramTypes, QueueTypes
      <4>. QED
        BY <1>1, <3>1, <4>3, <4>4, Amounts DEF Due
    <3>. QED
      BY <3>2, <3>3
  <2>5. CASE ProcComplete(p)
    <3>1. [pid |-> p, num |-> -9] \in Request \ Questions
      BY DEF Questions, Request
    <3>2. Count(requests, Questions)' = Count(requests, Questions)
      BY <2>2, <2>5, <3>1, Amounts DEF ProcComplete, One
    <3>3. Asking' = Asking
      BY <2>5 DEF ProcComplete, Asking, ProgramTypes, ProcTypes
    <3>4. Owed' = Owed /\ Answered' = Answered
      BY <2>5, AmountsUnchanged DEF ProcComplete, SendRequest, mmuVars
    <3>. QED
      BY <1>1, <3>2, <3>3, <3>4, Amounts DEF Due
  <2>. QED
    BY <1>7, <2>1, <2>3, <2>4, <2>5 DEF Process
<1>8. CASE UNCHANGED vars
  BY <1>3, <1>8 DEF vars, mmuVars, procVars, queueVars
<1>. QED
  BY <1>4, <1>5, <1>6, <1>7, <1>8 DEF Next, Finished

--------------------------------------------------------------------------------
(* What holds however slow the processes are                                      *)

LEMMA InitInv == Init => IInv
<1>. SUFFICES ASSUME Init PROVE IInv
  OBVIOUS
<1>1. ProgramTypes
  <2>1. MemoryTypes /\ MasterTypes /\ SchedTypes
    BY DEF Init, LruInit, MemoryTypes, MasterTypes, SchedTypes
  <2>2. MmuTypes /\ ProcTypes
    BY DEF Init, MmuTypes, ProcTypes
  <2>3. SemTypes
    BY DEF Init, SemTypes
  <2>4. \A R : <<>> \in Seq(R)
    OBVIOUS
  <2>5. QueueTypes
    BY <2>4 DEF Init, QueueTypes
  <2>. QED
    BY <2>1, <2>2, <2>3, <2>5 DEF ProgramTypes
<1>2. FramesKept
  <2>1. Held = {} /\ nfree = F
    BY DEF Held, Init, LruInit
  <2>. QED
    BY <2>1, FS_EmptySet DEF FramesKept
<1>3. Stages
  <2>1. Removals /\ InHand /\ OneSignal
    BY DEF Removals, InHand, OneSignal, MmuHas, Init
  <2>2. AtPlace
    BY DEF AtPlace, Init
  <2>. QED
    BY <2>1, <2>2 DEF Stages
<1>4. WaitersExact
  BY DEF WaitersExact, Init
<1>5. Signalled = {} /\ Running = {} /\ Served = {} /\ Asking = {}
  BY DEF Signalled, Running, Served, Asking, Init, NoAnswer
<1>6. Cardinality({}) = 0
  BY FS_EmptySet
<1>7. /\ Len(requests) = 0 /\ Len(replies) = 0 /\ Len(msq2) = 0
      /\ Slot = 0 /\ Busy = 0 /\ Owed = 0
  BY DEF Init, Slot, Busy, Owed, One
<1>8. Count(replies, Frames) = 0 /\ Count(requests, Questions) = 0
  <2>1. replies \in Seq(Answer) /\ requests \in Seq(Request) /\ replies = <<>> /\ requests = <<>>
    BY DEF Init
  <2>. QED
    BY <2>1, CountBounds
<1>9. OneCpu /\ OneAnswerPerRequest
  BY <1>5, <1>6, <1>7, <1>8 DEF OneCpu, OneAnswerPerRequest
<1>. QED
  BY <1>1, <1>2, <1>3, <1>4, <1>9 DEF IInv

LEMMA StepInv == IInv /\ [Next]_vars => IInv'
<1>. SUFFICES ASSUME IInv, [Next]_vars PROVE IInv'
  OBVIOUS
<1>. USE DEF IInv
<1>1. ProgramTypes' /\ FramesKept'
  <2>1. CASE UNCHANGED vars
    BY <2>1, TypesUnchanged, TypesTogether DEF vars
  <2>. QED
    BY <2>1, MasterTypesKept, SchedTypesKept, MmuTypesKept, ProcTypesKept DEF Next, Finished
<1>2. Stages'
  BY RemovalsKept, InHandKept, AtPlaceKept, OneSignalKept DEF Stages
<1>3. WaitersExact'
  BY WaitersKept DEF Stages
<1>4. OneCpu' /\ OneAnswerPerRequest'
  BY OneCpuKept, AnswersKept
<1>. QED
  BY <1>1, <1>2, <1>3, <1>4

LEMMA Invariance == Spec => []IInv
BY InitInv, StepInv, PTL DEF Spec

--------------------------------------------------------------------------------
(* The history                                                                    *)

LEMMA OvertakenForGood == [Next]_vars => (overtaken => overtaken')
BY DEF Next, Finished, Master, MasterAllot, MasterFork, MasterWait, MasterRemoveSems, MasterRemoveQueues,
       Scheduler, SchedDispatch, SchedRequeue, SchedTerminate, SchedSignal,
       Mmu, MmuEnd, MmuInvalid, MmuHit, MmuFault, Receive,
       MmuNotifyEnd, MmuNotifyInvalid, MmuNotifyLoaded, Notify,
       MmuReplyFrame, MmuReplyFault, MmuReplyInvalid, Reply, MmuReport, MmuFail,
       Process, ProcStart, ProcScheduled, ProcSend, ProcReceive, ComeToReceive, ProcAnswered,
       ProcComplete, vars, procVars, history

(* Only a process that asks or comes to msgrcv changes the history. *)
LEMMA AskedSame ==
  ASSUME ProgramTypes, AskedExact, UNCHANGED history,
         \A p \in Proc : pc'[p] = "recv" <=> pc[p] = "recv"
  PROVE  AskedExact'
BY DEF AskedExact, history

LEMMA AskedJoin ==
  ASSUME ProgramTypes, HistoryTypes, AskedExact, NEW p \in Proc, ProcSend(p)
  PROVE  AskedExact' /\ HistoryTypes'
<1>1. /\ pc[p] = "send" /\ pc' = [pc EXCEPT ![p] = "recv"] /\ UNCHANGED overtaken
      /\ asked' = IF overtaken THEN asked ELSE Append(asked, p)
  BY DEF ProcSend
<1>2. HistoryTypes'
  <2>1. asked' \in Seq(Proc)
    BY <1>1, QueueChange DEF HistoryTypes
  <2>. QED
    BY <1>1, <2>1 DEF HistoryTypes
<1>3. ASSUME ~ overtaken
      PROVE  AskedExact'
  <2>1. /\ DOMAIN asked' = DOMAIN asked \cup {Len(asked) + 1} /\ Len(asked) + 1 \notin DOMAIN asked
        /\ \A i \in DOMAIN asked : asked'[i] = asked[i]
        /\ asked'[Len(asked) + 1] = p
    BY <1>1, <1>3 DEF HistoryTypes
  <2>2. \A i \in DOMAIN asked : asked[i] # p
    BY <1>1, <1>3 DEF AskedExact
  <2>3. \A q \in Proc : pc'[q] = IF q = p THEN "recv" ELSE pc[q]
    BY <1>1 DEF ProgramTypes, ProcTypes
  <2>4. \A i, j \in DOMAIN asked' : asked'[i] = asked'[j] => i = j
    BY <1>3, <2>1, <2>2 DEF AskedExact
  <2>5. \A q \in Proc : pc'[q] = "recv" <=> \E i \in DOMAIN asked' : asked'[i] = q
    BY <1>3, <2>1, <2>2, <2>3 DEF AskedExact
  <2>. QED
    BY <2>4, <2>5 DEF AskedExact
<1>. QED
  BY <1>1, <1>2, <1>3 DEF AskedExact

LEMMA AskedLeave ==
  ASSUME ProgramTypes, HistoryTypes, AskedExact, NEW p \in Proc, ProcReceive(p)
  PROVE  /\ AskedExact' /\ HistoryTypes'
         /\ ~ overtaken' => asked # <<>> /\ Head(asked) = p /\ asked' = Tail(asked)
<1>1. /\ pc[p] = "recv" /\ overtaken' = (overtaken \/ p # Head(asked))
      /\ asked' = IF overtaken' THEN <<>> ELSE Tail(asked)
  BY DEF ProcReceive, ComeToReceive
<1>2. overtaken' \in BOOLEAN /\ asked \in Seq(Proc)
  BY <1>1 DEF HistoryTypes
<1>3. CASE overtaken'
  <2>1. asked' = <<>> /\ <<>> \in Seq(Proc)
    BY <1>1, <1>3
  <2>2. HistoryTypes'
    BY <1>2, <2>1 DEF HistoryTypes
  <2>3. AskedExact'
    BY <1>3 DEF AskedExact
  <2>. QED
    BY <1>3, <2>2, <2>3
<1>4. CASE ~ overtaken'
  <2>1. ~ overtaken /\ asked' = Tail(asked) /\ p = Head(asked)
    BY <1>1, <1>4
  <2>2. asked # <<>>
    BY <1>1, <2>1 DEF AskedExact
  <2>3. /\ DOMAIN asked = 1 .. Len(asked) /\ Len(asked) \in Nat \ {0} /\ p = asked[1]
        /\ DOMAIN asked' = 1 .. Len(asked) - 1 /\ asked' \in Seq(Proc)
        /\ \A i \in DOMAIN asked' : asked'[i] = asked[i + 1]
    BY <1>2, <2>1, <2>2
  <2>4. \A i, j \in DOMAIN asked : asked[i] = asked[j] => i = j
    BY <2>1 DEF AskedExact
  <2>5. ASSUME NEW i \in DOMAIN asked', NEW j \in DOMAIN asked', asked'[i] = asked'[j]
        PROVE  i = j
    <3>1. i + 1 \in DOMAIN asked /\ j + 1 \in DOMAIN asked /\ asked[i + 1] = asked[j + 1]
      BY <2>3, <2>5
    <3>2. i + 1 = j + 1
      BY <2>4, <3>1
    <3>. QED
      BY <2>3, <3>2
  <2>6. \A q \in Proc : pc'[q] = "recv" <=> q # p /\ pc[q] = "recv"
    BY <1>1 DEF ProcReceive, ProgramTypes, ProcTypes
  <2>7. ASSUME NEW q \in Proc
        PROVE  pc'[q] = "recv" <=> \E i \in DOMAIN asked' : asked'[i] = q
    <3>1. CASE q = p
      <4>1. ~ \E i \in DOMAIN asked' : asked'[i] = q
        BY <2>3, <2>4, <3>1
      <4>. QED
        BY <2>6, <3>1, <4>1
    <3>2. CASE q # p
      <4>1. ASSUME NEW i \in DOMAIN asked, asked[i] = q
            PROVE  i - 1 \in DOMAIN asked' /\ asked'[i - 1] = q
        BY <2>3, <3>2, <4>1
      <4>2. ASSUME NEW i \in DOMAIN asked', asked'[i] = q
            PROVE  i + 1 \in DOMAIN asked /\ asked[i + 1] = q
        BY <2>3, <4>2
      <4>3. (\E i \in DOMAIN asked : asked[i] = q) <=> \E i \in DOMAIN asked' : asked'[i] = q
        BY <4>1, <4>2
      <4>. QED
        BY <2>1, <2>6, <3>2, <4>3 DEF AskedExact
    <3>. QED
      BY <3>1, <3>2
  <2>8. AskedExact'
    BY <2>5, <2>7 DEF AskedExact
  <2>9. HistoryTypes'
    BY <1>2, <2>3 DEF HistoryTypes
  <2>. QED
    BY <2>1, <2>2, <2>8, <2>9
<1>. QED
  BY <1>3, <1>4

LEMMA HistoryKept ==
  ASSUME ProgramTypes, WaitersExact, HistoryTypes, AskedExact, [Next]_vars
  PROVE  AskedExact' /\ HistoryTypes'
<1>1. ASSUME UNCHANGED history, \A p \in Proc : pc'[p] = "recv" <=> pc[p] = "recv"
      PROVE  AskedExact' /\ HistoryTypes'
  BY <1>1, AskedSame DEF HistoryTypes, history
<1>2. CASE Master
  <2>1. CASE MasterRemoveQueues
    <3>1. UNCHANGED history /\ \A p \in Proc : pc'[p] = "recv" <=> pc[p] = "recv"
      BY <2>1 DEF MasterRemoveQueues
    <3>. QED
      BY <1>1, <3>1
  <2>. QED
    BY <1>1, <1>2, <2>1 DEF Master, MasterAllot, MasterFork, MasterWait, MasterRemoveSems, procVars
<1>3. CASE Scheduler
  BY <1>1, <1>3 DEF Scheduler, SchedDispatch, SchedRequeue, SchedTerminate, SchedSignal, procVars
<1>4. CASE Mmu
  <2>1. ASSUME NEW verdict, NEW step, Reply(verdict, step)
        PROVE  AskedExact' /\ HistoryTypes'
    <3>1. waiters # <<>> => Head(waiters) \in Proc /\ pc[Head(waiters)] = "waiting"
      BY DEF WaitersExact, ProgramTypes, QueueTypes
    <3>2. UNCHANGED history /\ \A p \in Proc : pc'[p] = "recv" <=> pc[p] = "recv"
      BY <2>1, <3>1 DEF Reply, ProgramTypes, ProcTypes
    <3>. QED
      BY <1>1, <3>2
  <2>2. CASE MmuReplyFrame \/ MmuReplyFault \/ MmuReplyInvalid
    BY <2>1, <2>2 DEF MmuReplyFrame, MmuReplyFault, MmuReplyInvalid
  <2>. QED
    BY <1>1, <1>4, <2>2 DEF Mmu, MmuEnd, MmuInvalid, MmuHit, MmuFault, Receive,
                            MmuNotifyEnd, MmuNotifyInvalid, MmuNotifyLoaded, Notify,
                            MmuReport, MmuFail, procVars
<1>5. ASSUME NEW p \in Proc, Process(p)
      PROVE  AskedExact' /\ HistoryTypes'
  <2>1. CASE ProcStart(p) \/ ProcScheduled(p) \/ ProcAnswered(p) \/ ProcComplete(p)
    <3>1. UNCHANGED history /\ \A q \in Proc : pc'[q] = "recv" <=> pc[q] = "recv"
      BY <2>1 DEF ProcStart, ProcScheduled, ProcAnswered, ProcComplete, ProgramTypes, ProcTypes
    <3>. QED
      BY <1>1, <3>1
  <2>. QED
    BY <1>5, <2>1, AskedJoin, AskedLeave DEF Process
<1>6. CASE UNCHANGED vars
  BY <1>1, <1>6 DEF vars, procVars
<1>. QED
  BY <1>2, <1>3, <1>4, <1>5, <1>6 DEF Next, Finished

--------------------------------------------------------------------------------
(* The page a process waits for                                                   *)

LEMMA PagesConstant == [Next]_vars => m_i' = m_i
BY DEF Next, Finished, Master, MasterAllot, MasterFork, MasterWait, MasterRemoveSems, MasterRemoveQueues,
       Scheduler, SchedDispatch, SchedRequeue, SchedTerminate, SchedSignal,
       Mmu, MmuEnd, MmuInvalid, MmuHit, MmuFault, Receive,
       MmuNotifyEnd, MmuNotifyInvalid, MmuNotifyLoaded, Notify,
       MmuReplyFrame, MmuReplyFault, MmuReplyInvalid, Reply, MmuReport, MmuFail,
       Process, ProcStart, ProcScheduled, ProcSend, ProcReceive, ProcAnswered,
       ProcComplete, vars, masterVars

LEMMA NotYetKept ==
  ASSUME IInv, NotYet, [Next]_vars
  PROVE  NotYet'
<1>. USE DEF IInv
<1>1. CASE Master
  BY <1>1 DEF Master, MasterAllot, MasterFork, MasterWait, MasterRemoveSems, MasterRemoveQueues,
              NotYet, lruVars, procVars, ProgramTypes, MasterTypes
<1>2. CASE Scheduler
  BY <1>2 DEF Scheduler, SchedDispatch, SchedRequeue, SchedTerminate, SchedSignal,
              NotYet, lruVars, masterVars, procVars
<1>3. CASE Mmu
  <2>1. UNCHANGED <<serving, master>>
    BY <1>3 DEF Mmu, MmuEnd, MmuInvalid, MmuHit, MmuFault, Receive,
                MmuNotifyEnd, MmuNotifyInvalid, MmuNotifyLoaded, Notify,
                MmuReplyFrame, MmuReplyFault, MmuReplyInvalid, Reply, MmuReport, MmuFail,
                lruVars, masterVars
  <2>2. ASSUME ~ serving, NEW p \in Proc
        PROVE  pc'[p] = "start" /\ token'[p] = NoToken
    <3>1. waiters = <<>>
      <4>1. waiters \in Seq(Proc)
        BY DEF ProgramTypes, QueueTypes
      <4>2. ASSUME NEW i \in DOMAIN waiters
            PROVE  FALSE
        <5>1. waiters[i] \in Proc
          BY <4>1
        <5>2. pc[waiters[i]] = "waiting" /\ pc[waiters[i]] = "start"
          BY <2>2, <5>1 DEF NotYet, WaitersExact
        <5>. QED
          BY <5>2
      <4>3. waiters # <<>> => 1 \in DOMAIN waiters
        BY <4>1
      <4>. QED
        BY <4>2, <4>3
    <3>2. UNCHANGED <<pc, token>>
      BY <1>3, <3>1 DEF Mmu, MmuEnd, MmuInvalid, MmuHit, MmuFault, Receive,
                MmuNotifyEnd, MmuNotifyInvalid, MmuNotifyLoaded, Notify,
                MmuReplyFrame, MmuReplyFault, MmuReplyInvalid, Reply, MmuReport, MmuFail, procVars
    <3>. QED
      BY <2>2, <3>2 DEF NotYet
  <2>. QED
    BY <2>1, <2>2 DEF NotYet
<1>4. ASSUME NEW p \in Proc, Process(p)
      PROVE  NotYet'
  <2>1. UNCHANGED <<serving, master>>
    BY <1>4 DEF Process, ProcStart, ProcScheduled, ProcSend, ProcReceive, ProcAnswered, ProcComplete,
                lruVars, masterVars
  <2>2. serving \/ pc[p] # "start"
    BY <1>4 DEF Process, ProcStart, ProcScheduled, ProcSend, ProcReceive, ProcAnswered, ProcComplete
  <2>. QED
    BY <2>1, <2>2 DEF NotYet
<1>5. CASE UNCHANGED vars
  BY <1>5 DEF vars, lruVars, masterVars, procVars, NotYet
<1>. QED
  BY <1>1, <1>2, <1>3, <1>4, <1>5 DEF Next, Finished

LEMMA DoneAtKKept ==
  ASSUME IInv, DoneAtK, [Next]_vars
  PROVE  DoneAtK'
<1>. USE DEF IInv
<1>1. ASSUME UNCHANGED <<sched, terminated, sem_sched, master>>
      PROVE  DoneAtK'
  BY <1>1 DEF DoneAtK
<1>2. CASE Master
  BY <1>2 DEF Master, MasterAllot, MasterFork, MasterWait, MasterRemoveSems, MasterRemoveQueues,
              DoneAtK, schedVars, semVars, ProgramTypes, SemTypes
<1>3. CASE Scheduler
  BY <1>3 DEF Scheduler, SchedDispatch, SchedRequeue, SchedTerminate, SchedSignal, AfterNotice,
              DoneAtK, masterVars, semVars, ProgramTypes, SemTypes, SchedTypes
<1>4. CASE Mmu
  BY <1>1, <1>4 DEF Mmu, MmuEnd, MmuInvalid, MmuHit, MmuFault, Receive,
                    MmuNotifyEnd, MmuNotifyInvalid, MmuNotifyLoaded, Notify,
                    MmuReplyFrame, MmuReplyFault, MmuReplyInvalid, Reply, MmuReport, MmuFail,
                    schedVars, semVars, masterVars
<1>5. ASSUME NEW p \in Proc, Process(p)
      PROVE  DoneAtK'
  BY <1>1, <1>5 DEF Process, ProcStart, ProcScheduled, ProcSend, ProcReceive, ProcAnswered, ProcComplete,
                    schedVars, semVars, masterVars
<1>6. CASE UNCHANGED vars
  BY <1>1, <1>6 DEF vars, schedVars, semVars, masterVars
<1>. QED
  BY <1>2, <1>3, <1>4, <1>5, <1>6 DEF Next, Finished

(* With one CPU a request is alone, and no process works while it is served. *)
LEMMA OneAtATime ==
  ASSUME IInv, ~ semsRemoved
  PROVE  /\ Requested <= 1
         /\ requests # <<>> \/ Busy = 1 => Running = {} /\ Served = {}
         /\ requests # <<>> => Busy = 0
<1>. USE DEF IInv
<1>1. Requested <= 1 /\ (Requested > 0 \/ Busy = 1 => Cardinality(Running) = 0 /\ Cardinality(Served) = 0)
      /\ (Requested > 0 => Busy = 0)
  BY Amounts, SMTT(20) DEF OneCpu, Requested, Slot, One
<1>2. requests # <<>> => Requested > 0
  BY DEF Requested, ProgramTypes, QueueTypes
<1>3. Running \in SUBSET Proc /\ Served \in SUBSET Proc
  BY DEF Running, Served
<1>. QED
  BY <1>1, <1>2, <1>3, SetOfProcesses

LEMMA Alone ==
  ASSUME NEW R, NEW s \in Seq(R), s # <<>>, Len(s) <= 1
  PROVE  DOMAIN s = {1} /\ Head(s) = s[1] /\ Tail(s) = <<>>
<1>. DEFINE n == Len(s)
<1>1. n \in Nat
  OBVIOUS
<1>2. n # 0
  BY EmptySeq
<1>4. n <= 1
  OBVIOUS
<1>3. n = 1
  <2>. HIDE DEF n
  <2>. QED
    BY <1>1, <1>2, <1>4
<1>5. DOMAIN s = 1 .. n /\ 1 .. n = {1}
  BY <1>3
<1>6. Head(s) = s[1]
  BY <1>3
<1>7. Tail(s) = <<>>
  <2>1. Tail(s) \in Seq(R) /\ Len(Tail(s)) = 0
    BY <1>3
  <2>. QED
    BY <2>1, EmptySeq
<1>. QED
  BY <1>5, <1>6, <1>7

LEMMA TheRequest ==
  ASSUME IInv, ~ semsRemoved, requests # <<>>
  PROVE  DOMAIN requests = {1} /\ Head(requests) = requests[1] /\ Tail(requests) = <<>>
<1>1. requests \in Seq(Request) /\ Len(requests) <= 1
  BY OneAtATime DEF IInv, ProgramTypes, QueueTypes, Requested
<1>. QED
  BY <1>1, Alone

(* What ProcSend and ProcComplete put in the queue. *)
LEMMA Sent ==
  ASSUME IInv, ~ queuesRemoved, NEW p \in Proc, ProcSend(p) \/ ProcComplete(p)
  PROVE  \E r \in Request :
           /\ r.pid = p /\ requests' = Append(requests, r) /\ pc[p] = "send"
           /\ UNCHANGED <<queuesRemoved, replies, waiters>>
           /\ \/ /\ ProcComplete(p)
                 /\ r.num = -9 /\ pc' = [pc EXCEPT ![p] = "completed"]
                 /\ UNCHANGED <<token, asked, overtaken>>
              \/ /\ ProcSend(p)
                 /\ r.num \in Page /\ pc' = [pc EXCEPT ![p] = "recv"]
                 /\ token' = [token EXCEPT ![p] = r.num]
                 /\ UNCHANGED overtaken
                 /\ asked' = IF overtaken THEN asked ELSE Append(asked, p)
<1>1. CASE ProcSend(p)
  <2>1. PICK g \in Page : token' = [token EXCEPT ![p] = g] /\ SendRequest([pid |-> p, num |-> g])
    BY <1>1 DEF ProcSend, IInv, ProgramTypes, ProcTypes
  <2>. DEFINE r == [pid |-> p, num |-> g]
  <2>2. r \in Request /\ r.pid = p /\ r.num = g
    BY DEF Request
  <2>3. requests' = Append(requests, r) /\ UNCHANGED <<queuesRemoved, replies, waiters>>
    BY <2>1 DEF SendRequest
  <2>4. /\ pc[p] = "send" /\ pc' = [pc EXCEPT ![p] = "recv"] /\ UNCHANGED overtaken
        /\ asked' = IF overtaken THEN asked ELSE Append(asked, p)
    BY <1>1 DEF ProcSend
  <2>. HIDE DEF r
  <2>. QED
    BY <1>1, <2>1, <2>2, <2>3, <2>4
<1>2. CASE ProcComplete(p)
  <2>. DEFINE r == [pid |-> p, num |-> -9]
  <2>1. r \in Request /\ r.pid = p /\ r.num = -9
    BY DEF Request
  <2>2. /\ requests' = Append(requests, r) /\ pc[p] = "send"
        /\ UNCHANGED <<queuesRemoved, replies, waiters, token, asked, overtaken>>
        /\ pc' = [pc EXCEPT ![p] = "completed"]
    BY <1>2 DEF ProcComplete, SendRequest, history
  <2>. HIDE DEF r
  <2>. QED
    BY <1>2, <2>1, <2>2
<1>. QED
  BY <1>1, <1>2

(* What a process sends is for itself and the other requests stay as they are. *)
LEMMA RequestJoins ==
  ASSUME NEW s \in Seq(Request), NEW r \in Request
  PROVE  /\ \A i \in DOMAIN s : i \in DOMAIN Append(s, r) /\ Append(s, r)[i] = s[i]
         /\ Len(s) + 1 \in DOMAIN Append(s, r) /\ Append(s, r)[Len(s) + 1] = r
         /\ \A i \in DOMAIN Append(s, r) : i \in DOMAIN s \/ Append(s, r)[i] = r
OBVIOUS

LEMMA StillThere ==
  ASSUME ProgramTypes, Stages, [Next]_vars
  PROVE  /\ ~ semsRemoved' => ~ semsRemoved /\ ~ queuesRemoved /\ ~ queuesRemoved'
         /\ ~ queuesRemoved' => ~ queuesRemoved
<1>1. Removals'
  BY RemovalsKept DEF Stages
<1>. QED
  BY <1>1, RemovalsForGood DEF Stages, Removals

(* Who runs or has got a frame number does so while no request is in hand. *)
LEMMA NoneInHand ==
  ASSUME IInv, ~ semsRemoved, NEW p \in Proc, pc[p] = "send" \/ answer[p].num = "frame"
  PROVE  requests = <<>> /\ mmu \notin {"notify_end", "notify_invalid", "notify_loaded",
                                        "reply_frame", "reply_fault"}
<1>1. Running # {} \/ Served # {}
  BY DEF Running, Served
<1>2. requests = <<>> /\ Busy = 0
  BY <1>1, OneAtATime DEF Busy, One
<1>. QED
  BY <1>2 DEF Busy, One

LEMMA TokensTrueKept ==
  ASSUME IInv, TokensTrue, [Next]_vars
  PROVE  TokensTrue'
<1>. USE DEF IInv
<1>. DEFINE InHandTrue == mmu \in {"reply_frame", "reply_fault"} => cur.num = token[cur.pid]
            QueueTrue  == \A i \in DOMAIN requests :
                            requests[i].num # -9 => requests[i].num = token[requests[i].pid]
<1>1. SUFFICES ASSUME ~ semsRemoved, ~ queuesRemoved, ~ queuesRemoved', QueueTrue, InHandTrue
               PROVE  QueueTrue' /\ InHandTrue'
  BY StillThere DEF TokensTrue
<1>2. ASSUME UNCHANGED <<requests, mmu, cur, token>>
      PROVE  QueueTrue' /\ InHandTrue'
  BY <1>1, <1>2
<1>3. ASSUME UNCHANGED <<requests, token>>, mmu' \notin {"reply_frame", "reply_fault"}
      PROVE  QueueTrue' /\ InHandTrue'
  BY <1>1, <1>3
<1>4. CASE Master
  BY <1>1, <1>2, <1>4 DEF Master, MasterAllot, MasterFork, MasterWait, MasterRemoveSems,
                          MasterRemoveQueues, mmuVars, procVars, queueVars
<1>5. CASE Scheduler
  BY <1>2, <1>5 DEF Scheduler, SchedDispatch, SchedRequeue, SchedTerminate, SchedSignal,
                    mmuVars, procVars, queueVars
<1>6. CASE Mmu
  <2>1. ASSUME NEW r \in Request, NEW step, Receive(r, step),
               step \in {"reply_frame", "reply_fault"} => r.num # -9
        PROVE  QueueTrue' /\ InHandTrue'
    <3>1. requests' = <<>> /\ requests[1] = r /\ 1 \in DOMAIN requests
      BY <1>1, <2>1, TheRequest DEF Receive
    <3>2. mmu' = step /\ cur' = r /\ UNCHANGED token
      BY <2>1 DEF Receive, procVars
    <3>. QED
      BY <1>1, <2>1, <3>1, <3>2
  <2>2. ASSUME NEW r \in Request, MmuEnd(r) \/ MmuInvalid(r) \/ MmuHit(r) \/ MmuFault(r)
        PROVE  QueueTrue' /\ InHandTrue'
    BY <2>1, <2>2 DEF MmuEnd, MmuInvalid, MmuHit, MmuFault, IsLegal
  <2>3. CASE MmuNotifyEnd \/ MmuNotifyInvalid \/ MmuNotifyLoaded \/ MmuReport \/ MmuFail
    BY <1>1, <1>3, <2>3 DEF MmuNotifyEnd, MmuNotifyInvalid, MmuNotifyLoaded, Notify, MmuReport, MmuFail,
                            procVars, queueVars
  <2>4. CASE MmuReplyFrame \/ MmuReplyFault \/ MmuReplyInvalid
    BY <1>3, <2>4 DEF MmuReplyFrame, MmuReplyFault, MmuReplyInvalid, Reply
  <2>. QED
    BY <1>6, <2>2, <2>3, <2>4 DEF Mmu
<1>7. ASSUME NEW p \in Proc, Process(p)
      PROVE  QueueTrue' /\ InHandTrue'
  <2>1. CASE ProcStart(p) \/ ProcScheduled(p) \/ ProcReceive(p)
    BY <1>2, <2>1 DEF ProcStart, ProcScheduled, ProcReceive, mmuVars, queueVars
  <2>2. CASE ProcAnswered(p)
    <3>1. UNCHANGED <<requests, mmu, cur>>
      BY <2>2 DEF ProcAnswered, mmuVars, queueVars
    <3>2. CASE answer[p].num = "frame"
      <4>1. requests = <<>> /\ mmu \notin {"reply_frame", "reply_fault"}
        BY <1>1, <3>2, NoneInHand
      <4>. QED
        BY <3>1, <4>1
    <3>3. CASE answer[p].num # "frame"
      BY <1>2, <2>2, <3>1, <3>3 DEF ProcAnswered
    <3>. QED
      BY <3>2, <3>3
  <2>3. CASE ProcSend(p) \/ ProcComplete(p)
    <3>1. PICK r \in Request : /\ r.pid = p /\ requests' = Append(requests, r) /\ pc[p] = "send"
                               /\ r.num # -9 => token' = [token EXCEPT ![p] = r.num]
      BY <1>1, <2>3, Sent
    <3>2. requests = <<>> /\ mmu \notin {"reply_frame", "reply_fault"}
      BY <1>1, <3>1, NoneInHand
    <3>3. mmu' = mmu
      BY <2>3 DEF ProcSend, ProcComplete, mmuVars
    <3>4. DOMAIN requests' = {1} /\ requests'[1] = r
      BY <3>1, <3>2
    <3>5. r.num # -9 => token'[p] = r.num
      BY <3>1 DEF ProgramTypes, ProcTypes
    <3>. QED
      BY <3>1, <3>2, <3>3, <3>4, <3>5
  <2>. QED
    BY <1>7, <2>1, <2>2, <2>3 DEF Process
<1>8. CASE UNCHANGED vars
  BY <1>2, <1>8 DEF vars, mmuVars, procVars, queueVars
<1>. QED
  BY <1>4, <1>5, <1>6, <1>7, <1>8 DEF Next, Finished

LEMMA RecentKept ==
  ASSUME IInv, NotYet, TokensTrue, Recent, [Next]_vars
  PROVE  Recent'
<1>. USE DEF IInv
<1>. DEFINE Fresh(p) == token[p] # NoToken =>
                          Asks(p) \/ IsServed(p) \/ resident[p] = <<>> \/ Last(resident[p]) = token[p]
<1>1. SUFFICES ASSUME ~ semsRemoved, ~ queuesRemoved, ~ queuesRemoved', \A p \in Proc : Fresh(p)
               PROVE  \A p \in Proc : Fresh(p)'
  BY StillThere DEF Recent
<1>2. ASSUME NEW p \in Proc, UNCHANGED <<token[p], resident[p]>>, Asks(p) => Asks(p)',
             IsServed(p) => IsServed(p)'
      PROVE  Fresh(p)'
  BY <1>1, <1>2 DEF Last
<1>3. ASSUME UNCHANGED <<token, resident, requests, mmu, cur>>
      PROVE  \A p \in Proc : Fresh(p)'
  BY <1>2, <1>3 DEF Asks, IsServed
<1>4. CASE Master
  <2>1. CASE MasterAllot
    BY <2>1 DEF MasterAllot, NotYet, procVars
  <2>. QED
    BY <1>1, <1>3, <1>4, <2>1 DEF Master, MasterFork, MasterWait, MasterRemoveSems, MasterRemoveQueues,
                                  lruVars, memory, mmuVars, procVars, queueVars
<1>5. CASE Scheduler
  BY <1>3, <1>5 DEF Scheduler, SchedDispatch, SchedRequeue, SchedTerminate, SchedSignal,
                    lruVars, mmuVars, procVars, queueVars
<1>6. CASE Mmu
  <2>1. ASSUME NEW r \in Request, NEW step, Receive(r, step)
        PROVE  /\ UNCHANGED token /\ mmu = "loop" /\ mmu' = step /\ cur' = r /\ r.pid \in Proc
               /\ \A p \in Proc : Asks(p) => p = r.pid /\ r.num # -9
    <3>1. requests[1] = r /\ DOMAIN requests = {1}
      BY <1>1, <2>1, TheRequest DEF Receive
    <3>2. \A p \in Proc : Asks(p) => p = r.pid /\ r.num # -9
      BY <3>1 DEF Asks
    <3>. QED
      BY <2>1, <3>2 DEF Receive, procVars, Request
  <2>2. ASSUME NEW r \in Request, MmuEnd(r) \/ MmuInvalid(r)
        PROVE  \A p \in Proc : Fresh(p)'
    <3>1. PICK step : Receive(r, step) /\ ReleasePages(r.pid)
      BY <2>2 DEF MmuEnd, MmuInvalid
    <3>2. resident'[r.pid] = <<>>
      BY <2>1, <3>1, MemoryRelease
    <3>3. \A p \in Proc \ {r.pid} : resident'[p] = resident[p]
      BY <3>1 DEF ReleasePages, ProgramTypes, MemoryTypes
    <3>4. \A p \in Proc : ~ IsServed(p)
      BY <2>1, <3>1 DEF IsServed
    <3>5. \A p \in Proc \ {r.pid} : Fresh(p)'
      BY <1>2, <2>1, <3>1, <3>3, <3>4
    <3>. QED
      BY <3>2, <3>5
  <2>3. ASSUME NEW r \in Request, MmuHit(r) \/ MmuFault(r)
        PROVE  \A p \in Proc : Fresh(p)'
    <3>1. PICK step \in {"reply_frame", "reply_fault"} : Receive(r, step) /\ UNCHANGED resident
      BY <2>3 DEF MmuHit, MmuFault, memory
    <3>2. IsServed(r.pid)'
      BY <2>1, <3>1 DEF IsServed
    <3>3. \A p \in Proc : ~ IsServed(p)
      BY <2>1, <3>1 DEF IsServed
    <3>4. \A p \in Proc \ {r.pid} : Fresh(p)'
      BY <1>2, <2>1, <3>1, <3>3
    <3>. QED
      BY <3>2, <3>4
  <2>4. CASE MmuNotifyEnd \/ MmuNotifyInvalid \/ MmuNotifyLoaded \/ MmuReport \/ MmuReplyInvalid
    <3>1. /\ UNCHANGED <<token, resident, requests>>
          /\ mmu \notin {"reply_frame", "reply_fault"}
      BY <2>4 DEF MmuNotifyEnd, MmuNotifyInvalid, MmuNotifyLoaded, Notify, MmuReport, MmuReplyInvalid,
                  Reply, lruVars, memory, procVars, queueVars
    <3>2. \A p \in Proc : (Asks(p) => Asks(p)') /\ ~ IsServed(p)
      BY <3>1 DEF Asks, IsServed
    <3>. QED
      BY <1>2, <3>1, <3>2
  <2>5. CASE MmuReplyFrame \/ MmuReplyFault
    <3>0. PICK q \in Proc : q = cur.pid
      BY <2>5 DEF MmuReplyFrame, MmuReplyFault, Stages, InHand, MmuHas, Request
    <3>1. cur.num \in Page /\ cur.num = token[q]
      BY <1>1, <2>5, <3>0 DEF MmuReplyFrame, MmuReplyFault, Stages, InHand, TokensTrue
    <3>2. UNCHANGED <<token, requests>>
      BY <2>5 DEF MmuReplyFrame, MmuReplyFault, Reply
    <3>3. resident'[q] = <<>> \/ Last(resident'[q]) = token[q]
      <4>1. CASE MmuReplyFrame
        BY <3>0, <3>1, <4>1, MemoryTouch DEF MmuReplyFrame
      <4>2. CASE MmuReplyFault
        BY <3>0, <3>1, <4>2, MemoryFault DEF MmuReplyFault
      <4>. QED
        BY <2>5, <4>1, <4>2
    <3>4. \A p \in Proc \ {q} : resident'[p] = resident[p]
      BY <2>5, <3>0 DEF MmuReplyFrame, MmuReplyFault, Touch, HandleFault, LoadFree, Evict, LoadNothing, memory,
                  ProgramTypes, MemoryTypes
    <3>5. \A p \in Proc \ {q} : Fresh(p)'
      <4>1. \A p \in Proc \ {q} : (Asks(p) => Asks(p)') /\ ~ IsServed(p)
        BY <3>0, <3>2 DEF Asks, IsServed
      <4>. QED
        BY <1>2, <3>2, <3>4, <4>1
    <3>6. Fresh(q)'
      BY <3>2, <3>3
    <3>. QED
      BY <3>5, <3>6
  <2>. QED
    BY <1>1, <1>6, <2>2, <2>3, <2>4, <2>5 DEF Mmu, MmuFail
<1>7. ASSUME NEW p \in Proc, Process(p)
      PROVE  \A q \in Proc : Fresh(q)'
  <2>1. UNCHANGED <<resident, mmu, cur>>
    BY <1>7 DEF Process, ProcStart, ProcScheduled, ProcSend, ProcReceive, ProcAnswered, ProcComplete,
                lruVars, mmuVars
  <2>2. CASE ProcStart(p) \/ ProcScheduled(p) \/ ProcReceive(p)
    BY <1>3, <2>1, <2>2 DEF ProcStart, ProcScheduled, ProcReceive, queueVars
  <2>3. CASE ProcAnswered(p)
    <3>1. UNCHANGED requests /\ \A q \in Proc : token'[q] = token[q] \/ token'[q] = NoToken
      BY <2>3 DEF ProcAnswered, queueVars, ProgramTypes, ProcTypes
    <3>2. \A q \in Proc : (Asks(q) => Asks(q)') /\ (IsServed(q) => IsServed(q)')
      BY <2>1, <3>1 DEF Asks, IsServed
    <3>. QED
      BY <1>2, <2>1, <3>1, <3>2
  <2>4. CASE ProcSend(p) \/ ProcComplete(p)
    <3>1. PICK r \in Request : /\ r.pid = p /\ requests' = Append(requests, r)
                               /\ \/ r.num = -9 /\ UNCHANGED token
                                  \/ r.num \in Page /\ token' = [token EXCEPT ![p] = r.num]
      BY <1>1, <2>4, Sent
    <3>2. requests \in Seq(Request)
      BY DEF ProgramTypes, QueueTypes
    <3>3. \A q \in Proc : (Asks(q) => Asks(q)') /\ (IsServed(q) => IsServed(q)')
      BY <2>1, <3>1, <3>2, RequestJoins DEF Asks, IsServed
    <3>4. \A q \in Proc : token'[q] = token[q] \/ (q = p /\ r.num \in Page)
      BY <3>1 DEF ProgramTypes, ProcTypes
    <3>5. r.num \in Page => Asks(p)'
      BY <3>1, <3>2, RequestJoins DEF Asks
    <3>. QED
      BY <1>2, <2>1, <3>3, <3>4, <3>5
  <2>. QED
    BY <1>7, <2>2, <2>3, <2>4 DEF Process
<1>8. CASE UNCHANGED vars
  BY <1>3, <1>8 DEF vars, lruVars, mmuVars, procVars, queueVars
<1>. QED
  BY <1>4, <1>5, <1>6, <1>7, <1>8 DEF Next, Finished

LEMMA InitPInv == Init => PInv
<1>. SUFFICES ASSUME Init
              PROVE  PInv
  OBVIOUS
<1>1. HistoryTypes
  <2>1. \A R : <<>> \in Seq(R)
    OBVIOUS
  <2>. QED
    BY <2>1 DEF Init, HistoryTypes
<1>2. AskedExact /\ NotYet /\ DoneAtK
  BY DEF Init, LruInit, AskedExact, NotYet, DoneAtK
<1>3. TokensTrue /\ Recent
  BY DEF Init, TokensTrue, Recent
<1>. QED
  BY <1>1, <1>2, <1>3 DEF PInv

LEMMA StepPInv == IInv /\ PInv /\ [Next]_vars => PInv'
<1>. SUFFICES ASSUME IInv, PInv, [Next]_vars
              PROVE  PInv'
  OBVIOUS
<1>. USE DEF PInv
<1>1. AskedExact' /\ HistoryTypes'
  BY HistoryKept DEF IInv
<1>2. NotYet' /\ DoneAtK'
  BY NotYetKept, DoneAtKKept
<1>3. TokensTrue' /\ Recent'
  BY TokensTrueKept, RecentKept
<1>. QED
  BY <1>1, <1>2, <1>3

--------------------------------------------------------------------------------
(* Whose answer it is, as long as nobody is overtaken                             *)

LEMMA StillInOrder ==
  ASSUME IInv, [Next]_vars, InOrder'
  PROVE  InOrder
BY StillThere, OvertakenForGood DEF InOrder, IInv

LEMMA QueueTyped ==
  ASSUME IInv, PInv
  PROVE  /\ waiters \in Seq(Proc) /\ asked \in Seq(Proc) /\ replies \in Seq(Answer)
         /\ requests \in Seq(Request) /\ Owed \in {0, 1} /\ Pending \in {0, 1}
         /\ Len(waiters) \in Nat /\ Len(asked) \in Nat /\ Len(replies) \in Nat
BY DEF IInv, PInv, ProgramTypes, QueueTypes, HistoryTypes, Owed, Pending, One

(* Those whose turn is to come are asking. *)
LEMMA TurnsAsk ==
  ASSUME IInv, PInv, InOrder, NEW i \in 1 .. Len(waiters) + Len(asked)
  PROVE  Turn(i) \in Proc /\ pc[Turn(i)] \in {"recv", "waiting"}
<1>1. /\ waiters \in Seq(Proc) /\ asked \in Seq(Proc)
      /\ Len(waiters) \in Nat /\ Len(asked) \in Nat
  BY QueueTyped
<1>2. CASE i <= Len(waiters)
  <2>1. i \in DOMAIN waiters /\ Turn(i) = waiters[i] /\ waiters[i] \in Proc
    BY <1>1, <1>2 DEF Turn
  <2>. QED
    BY <2>1 DEF IInv, WaitersExact
<1>3. CASE i > Len(waiters)
  <2>. DEFINE j == i - Len(waiters)
  <2>1. j \in DOMAIN asked /\ Turn(i) = asked[j] /\ asked[j] \in Proc
    BY <1>1, <1>3 DEF Turn
  <2>. HIDE DEF j
  <2>. QED
    BY <2>1 DEF PInv, AskedExact, InOrder
<1>. QED
  BY <1>1, <1>2, <1>3

(* So are those whom an answer is due to: their token stays what it is. *)
LEMMA DueAsk ==
  ASSUME IInv, PInv, OneOrder, InOrder
  PROVE  /\ Owed = 1 => cur.pid \in Proc /\ pc[cur.pid] \in {"recv", "waiting"}
         /\ \A i \in DOMAIN replies : /\ replies[i].pid \in Proc
                                      /\ pc[replies[i].pid] \in {"recv", "waiting"}
<1>1. /\ Len(waiters) \in Nat /\ Len(asked) \in Nat /\ Len(replies) \in Nat
      /\ Owed \in {0, 1} /\ Pending \in {0, 1} /\ DOMAIN replies = 1 .. Len(replies)
      /\ Len(waiters) + Len(asked) = Len(replies) + Owed + Pending
  BY QueueTyped DEF OneOrder
<1>2. ASSUME Owed = 1
      PROVE  cur.pid \in Proc /\ pc[cur.pid] \in {"recv", "waiting"}
  <2>1. Len(replies) + 1 \in 1 .. Len(waiters) + Len(asked)
    BY <1>1, <1>2
  <2>2. cur.pid = Turn(Len(replies) + 1)
    BY <1>1, <1>2 DEF OneOrder
  <2>. QED
    BY <2>1, <2>2, TurnsAsk
<1>3. ASSUME NEW i \in DOMAIN replies
      PROVE  replies[i].pid \in Proc /\ pc[replies[i].pid] \in {"recv", "waiting"}
  <2>1. i \in 1 .. Len(waiters) + Len(asked)
    BY <1>1, <1>3
  <2>2. replies[i].pid = Turn(i)
    BY <1>1, <1>3 DEF OneOrder
  <2>. QED
    BY <2>1, <2>2, TurnsAsk
<1>. QED
  BY <1>2, <1>3

(* The MMU's answer is handed to the process it is for, or stored. *)
LEMMA ReplyGoesHome ==
  ASSUME IInv, PInv, OneOrder, InOrder, NEW verdict \in Verdict, NEW step, Reply(verdict, step), Owed = 1
  PROVE  /\ cur.pid \in Proc /\ [pid |-> cur.pid, num |-> verdict] \in Answer
         /\ \/ /\ waiters # <<>> /\ Head(waiters) = cur.pid /\ replies = <<>>
               /\ pc[cur.pid] = "waiting"
               /\ answer' = [answer EXCEPT ![cur.pid] = [pid |-> cur.pid, num |-> verdict]]
               /\ pc' = [pc EXCEPT ![cur.pid] = "answered"]
               /\ waiters' = Tail(waiters) /\ UNCHANGED replies
            \/ /\ waiters = <<>>
               /\ replies' = Append(replies, [pid |-> cur.pid, num |-> verdict])
               /\ UNCHANGED <<answer, pc, waiters>>
<1>1. cur.pid \in Proc
  BY DueAsk
<1>2. CASE waiters # <<>>
  <2>1. replies = <<>> /\ cur.pid = Turn(Len(replies) + 1)
    BY <1>2, QueueTyped DEF OneOrder
  <2>2. waiters \in Seq(Proc)
    BY QueueTyped
  <2>3. Len(replies) + 1 = 1 /\ 1 <= Len(waiters) /\ Head(waiters) = waiters[1] /\ 1 \in DOMAIN waiters
    BY <1>2, <2>1, <2>2
  <2>4. Head(waiters) = cur.pid
    BY <2>1, <2>3 DEF Turn
  <2>5. pc[cur.pid] = "waiting"
    BY <1>1, <2>3, <2>4 DEF IInv, WaitersExact
  <2>. QED
    BY <1>1, <1>2, <2>1, <2>4, <2>5 DEF Reply, Answer
<1>3. CASE waiters = <<>>
  BY <1>1, <1>3 DEF Reply, Answer
<1>. QED
  BY <1>2, <1>3

(* Who comes to msgrcv, if it overtakes nobody, waits or takes its own answer. *)
LEMMA ReceiveInTurn ==
  ASSUME IInv, PInv, OneOrder, InOrder, InOrder', NEW p \in Proc, ProcReceive(p)
  PROVE  /\ pc[p] = "recv" /\ UNCHANGED <<token, requests, mmu, cur>>
         /\ asked # <<>> /\ Head(asked) = p /\ asked' = Tail(asked)
         /\ \/ /\ replies = <<>> /\ waiters' = Append(waiters, p)
               /\ pc' = [pc EXCEPT ![p] = "waiting"] /\ UNCHANGED <<answer, replies>>
            \/ /\ replies # <<>> /\ waiters = <<>> /\ Head(replies).pid = p
               /\ replies' = Tail(replies) /\ answer' = [answer EXCEPT ![p] = Head(replies)]
               /\ pc' = [pc EXCEPT ![p] = "answered"] /\ UNCHANGED waiters
<1>1. pc[p] = "recv" /\ UNCHANGED <<token, requests, mmu, cur>> /\ ~ queuesRemoved
  BY DEF ProcReceive, mmuVars, InOrder
<1>2. asked # <<>> /\ Head(asked) = p /\ asked' = Tail(asked)
  BY AskedLeave DEF IInv, PInv, InOrder
<1>3. CASE replies = <<>>
  BY <1>1, <1>2, <1>3 DEF ProcReceive
<1>4. CASE replies # <<>>
  <2>2. replies \in Seq(Answer) /\ asked \in Seq(Proc)
    BY QueueTyped
  <2>1. waiters = <<>> /\ \A i \in DOMAIN replies : replies[i].pid = Turn(i)
    BY <1>4, <2>2 DEF OneOrder
  <2>3. 1 \in DOMAIN replies /\ Head(replies) = replies[1] /\ Head(asked) = asked[1]
    BY <1>2, <1>4, <2>2
  <2>4. Turn(1) = asked[1]
    BY <2>1 DEF Turn
  <2>5. Head(replies).pid = p
    BY <1>2, <2>1, <2>3, <2>4
  <2>. QED
    BY <1>1, <1>2, <1>4, <2>1, <2>5 DEF ProcReceive
<1>. QED
  BY <1>3, <1>4

(* The MMU receives the only request there is. *)
LEMMA TheOnlyRequest ==
  ASSUME IInv, Quiet, InOrder, requests # <<>>
  PROVE  /\ ~ semsRemoved /\ DOMAIN requests = {1} /\ Head(requests) = requests[1]
         /\ Tail(requests) = <<>>
<1>1. ~ semsRemoved
  BY DEF Quiet
<1>. QED
  BY <1>1, TheRequest

LEMMA ReceiveOnly ==
  ASSUME IInv, PInv, Quiet, InOrder, NEW r \in Request, NEW step, Receive(r, step)
  PROVE  /\ requests # <<>> /\ Head(requests) = r /\ requests' = <<>> /\ Owed = 0
         /\ r.num # -9 => r.num = token[r.pid]
         /\ mmu' = step /\ cur' = r
         /\ UNCHANGED <<waiters, asked, overtaken, queuesRemoved, replies, pc, answer, token, msq2, terminated>>
<1>1. /\ requests # <<>> /\ r = Head(requests) /\ requests' = Tail(requests) /\ mmu = "loop"
      /\ mmu' = step /\ cur' = r
      /\ UNCHANGED <<waiters, asked, overtaken, queuesRemoved, replies, pc, answer, token, msq2, terminated>>
  BY DEF Receive, procVars, history, schedVars
<1>2. ~ semsRemoved /\ 1 \in DOMAIN requests /\ r = requests[1] /\ requests' = <<>>
  BY <1>1, TheOnlyRequest
<1>3. r.num # -9 => r.num = token[r.pid]
  BY <1>2 DEF PInv, TokensTrue
<1>. QED
  BY <1>1, <1>2, <1>3 DEF Owed, One

(* Who sends finds the queue empty. *)
LEMMA SendsAlone ==
  ASSUME IInv, PInv, Quiet, InOrder, NEW p \in Proc, pc[p] = "send"
  PROVE  ~ semsRemoved /\ requests = <<>>
<1>1. ~ Ends(p)
  BY DEF Ends, HasExited
<1>2. ~ semsRemoved
  BY <1>1 DEF Quiet
<1>. QED
  BY <1>2, NoneInHand

(* The cases of a step of the MMU that matter here. *)
LEMMA MmuStep ==
  ASSUME IInv, Mmu, InOrder, InOrder'
  PROVE  \/ \E r \in Request, step \in {"notify_end", "notify_invalid", "reply_frame", "reply_fault"} :
              /\ Receive(r, step)
              /\ step = "notify_end" <=> r.num = -9
              /\ step = "notify_invalid" <=> r.num >= m_i[r.pid]
         \/ /\ Owed' = Owed
            /\ UNCHANGED <<waiters, asked, replies, requests, cur, token, pc, answer>>
            /\ mmu' \in {"reply_invalid", "reply_frame", "reply_fault"} => mmu = "notify_invalid"
            /\ mmu \notin {"reply_invalid", "reply_frame", "reply_fault"}
            /\ mmu = "notify_invalid" => mmu' = "reply_invalid"
         \/ \E verdict \in Verdict, step \in {"loop", "notify_loaded"} :
              /\ Reply(verdict, step) /\ Owed = 1 /\ Owed' = 0
              /\ mmu \in {"reply_frame", "reply_fault", "reply_invalid"}
              /\ verdict = "invalid" <=> mmu = "reply_invalid"
<1>1. ASSUME NEW r \in Request, MmuEnd(r) \/ MmuInvalid(r) \/ MmuHit(r) \/ MmuFault(r)
      PROVE  \E step \in {"notify_end", "notify_invalid", "reply_frame", "reply_fault"} :
               /\ Receive(r, step)
               /\ step = "notify_end" <=> r.num = -9
               /\ step = "notify_invalid" <=> r.num >= m_i[r.pid]
  <2>1. r.pid \in Proc /\ m_i[r.pid] \in 1 .. M
    BY DEF Request, IInv, ProgramTypes, MasterTypes
  <2>2. CASE MmuEnd(r)
    <3>1. Receive(r, "notify_end") /\ r.num = -9
      BY <2>2 DEF MmuEnd
    <3>2. ~ r.num >= m_i[r.pid]
      BY <2>1, <3>1
    <3>. QED
      BY <3>1, <3>2
  <2>3. CASE MmuInvalid(r)
    <3>1. Receive(r, "notify_invalid") /\ r.num >= m_i[r.pid]
      BY <2>3 DEF MmuInvalid
    <3>2. r.num # -9
      BY <2>1, <3>1
    <3>. QED
      BY <3>1, <3>2
  <2>4. CASE MmuHit(r)
    <3>1. Receive(r, "reply_frame") /\ r.num # -9 /\ r.num < m_i[r.pid]
      BY <2>4 DEF MmuHit, IsLegal
    <3>2. ~ r.num >= m_i[r.pid]
      BY <2>1, <3>1 DEF Request
    <3>. QED
      BY <3>1, <3>2
  <2>5. CASE MmuFault(r)
    <3>1. Receive(r, "reply_fault") /\ r.num # -9 /\ r.num < m_i[r.pid]
      BY <2>5 DEF MmuFault, IsLegal
    <3>2. ~ r.num >= m_i[r.pid]
      BY <2>1, <3>1 DEF Request
    <3>. QED
      BY <3>1, <3>2
  <2>. QED
    BY <1>1, <2>2, <2>3, <2>4, <2>5
<1>2. CASE MmuNotifyEnd \/ MmuNotifyInvalid \/ MmuNotifyLoaded \/ MmuReport
  <2>1. UNCHANGED <<waiters, asked, replies, requests, cur, token, pc, answer>>
    BY <1>2 DEF MmuNotifyEnd, MmuNotifyInvalid, MmuNotifyLoaded, Notify, MmuReport, procVars, history,
                queueVars
  <2>2. \/ mmu \in {"notify_end", "notify_loaded", "loop"} /\ mmu' \in {"loop", "reported"}
        \/ mmu = "notify_invalid" /\ mmu' = "reply_invalid"
    BY <1>2 DEF MmuNotifyEnd, MmuNotifyInvalid, MmuNotifyLoaded, Notify, MmuReport
  <2>. QED
    BY <2>1, <2>2 DEF Owed, One
<1>3. CASE MmuReplyFrame \/ MmuReplyFault \/ MmuReplyInvalid
  <2>1. PICK verdict \in Verdict, step \in {"loop", "notify_loaded"} :
          /\ Reply(verdict, step) /\ mmu \in {"reply_frame", "reply_fault", "reply_invalid"}
          /\ verdict = "invalid" <=> mmu = "reply_invalid"
    BY <1>3 DEF MmuReplyFrame, MmuReplyFault, MmuReplyInvalid, Verdict
  <2>2. mmu' = step
    BY <2>1 DEF Reply
  <2>. QED
    BY <2>1, <2>2 DEF Owed, One
<1>4. ~ MmuFail
  BY DEF MmuFail, InOrder
<1>. QED
  BY <1>1, <1>2, <1>3, <1>4 DEF Mmu

(* What Master and Scheduler, and a process that neither asks nor comes to msgrcv, leave *)
(* alone.                                                                           *)
LEMMA OthersStep ==
  ASSUME InOrder', Master \/ Scheduler \/ UNCHANGED vars
  PROVE  UNCHANGED <<waiters, asked, overtaken, replies, requests, mmu, cur, token, pc, answer>>
<1>1. ~ MasterRemoveQueues
  BY DEF MasterRemoveQueues, InOrder
<1>2. CASE Master
  BY <1>1, <1>2 DEF Master, MasterAllot, MasterFork, MasterWait, MasterRemoveSems,
                    mmuVars, procVars, history, queueVars
<1>3. CASE Scheduler
  BY <1>3 DEF Scheduler, SchedDispatch, SchedRequeue, SchedTerminate, SchedSignal,
              mmuVars, procVars, history, queueVars
<1>4. CASE UNCHANGED vars
  BY <1>4 DEF vars, mmuVars, procVars, history, queueVars
<1>. QED
  BY <1>2, <1>3, <1>4

LEMMA ProcessAlone ==
  ASSUME NEW p \in Proc, ProcStart(p) \/ ProcScheduled(p) \/ ProcAnswered(p)
  PROVE  UNCHANGED <<waiters, asked, overtaken, queuesRemoved, replies, requests, mmu, cur, msq2, terminated>>
BY DEF ProcStart, ProcScheduled, ProcAnswered, mmuVars, schedVars, history, queueVars

LEMMA BeyondTheEnd ==
  ASSUME NEW n \in Nat, NEW m \in Nat, NEW a \in {0, 1}, NEW b \in {0, 1}, NEW i \in Nat,
         m = n - 1, i + 1 > n + a + b
  PROVE  ~ (i <= m) /\ (a = 1 => i # m + 1) /\ (b = 1 => i # m + a + 1)
OBVIOUS

LEMMA OneOrderKept ==
  ASSUME IInv, PInv, OneOrder, Quiet, [Next]_vars
  PROVE  OneOrder'
<1>. DEFINE Total == Len(waiters) + Len(asked) = Len(replies) + Owed + Pending
            Apart == replies # <<>> => waiters = <<>>
            At(i) == /\ i <= Len(replies) => replies[i].pid = Turn(i)
                     /\ Owed = 1 /\ i = Len(replies) + 1 => cur.pid = Turn(i)
                     /\ Pending = 1 /\ i = Len(replies) + Owed + 1 => Head(requests).pid = Turn(i)
            Goal == Total' /\ Apart' /\ \A i \in Nat \ {0} : At(i)'
<1>1. SUFFICES ASSUME InOrder, InOrder', Total, Apart, \A i \in Nat \ {0} : At(i)
               PROVE  Goal
  BY StillInOrder DEF OneOrder
<1>2. /\ waiters \in Seq(Proc) /\ asked \in Seq(Proc) /\ replies \in Seq(Answer)
      /\ requests \in Seq(Request) /\ Owed \in {0, 1} /\ Pending \in {0, 1}
      /\ Len(waiters) \in Nat /\ Len(asked) \in Nat /\ Len(replies) \in Nat
      /\ DOMAIN replies = 1 .. Len(replies)
  BY QueueTyped
<1>3. UNCHANGED <<waiters, asked>> => \A i : Turn(i)' = Turn(i)
  BY DEF Turn
<1>4. ASSUME UNCHANGED <<waiters, asked, replies, requests, cur>>, Owed' = Owed
      PROVE  Goal
  BY <1>1, <1>3, <1>4 DEF Pending
<1>5. CASE Master \/ Scheduler \/ UNCHANGED vars
  <2>1. UNCHANGED <<waiters, asked, replies, requests, cur, mmu>>
    BY <1>1, <1>5, OthersStep
  <2>. QED
    BY <1>4, <2>1 DEF Owed
<1>6. CASE Mmu
  <2>1. ASSUME NEW r \in Request,
               NEW step \in {"notify_end", "notify_invalid", "reply_frame", "reply_fault"},
               Receive(r, step), step = "notify_end" <=> r.num = -9
        PROVE  Goal
    <3>1. /\ requests # <<>> /\ Head(requests) = r /\ requests' = <<>> /\ Owed = 0
          /\ mmu' = step /\ cur' = r /\ UNCHANGED <<waiters, asked, replies>>
      BY <1>1, <2>1, ReceiveOnly
    <3>2. Owed' = Pending /\ Pending' = 0
      BY <2>1, <3>1 DEF Owed, Pending, One
    <3>3. Total' /\ Apart'
      BY <1>1, <1>2, <3>1, <3>2
    <3>4. \A i \in Nat \ {0} : At(i)'
      BY <1>1, <1>2, <1>3, <3>1, <3>2
    <3>. QED
      BY <3>3, <3>4
  <2>2. ASSUME NEW verdict \in Verdict, NEW step, Reply(verdict, step), Owed = 1, Owed' = 0
        PROVE  Goal
    <3>. DEFINE r == [pid |-> cur.pid, num |-> verdict]
    <3>1. UNCHANGED <<requests, asked, cur>> /\ Pending' = Pending
      BY <2>2 DEF Reply, history, Pending
    <3>2. r \in Answer /\ r.pid = cur.pid
      BY <1>1, <2>2, ReplyGoesHome
    <3>. HIDE DEF r
    <3>3. CASE waiters # <<>>
      <4>1. waiters' = Tail(waiters) /\ UNCHANGED replies /\ replies = <<>>
        BY <1>1, <2>2, <3>3, ReplyGoesHome
      <4>2. /\ Len(waiters') = Len(waiters) - 1 /\ Len(waiters) > 0 /\ Len(replies) = 0
            /\ \A i \in 1 .. Len(waiters') : waiters'[i] = waiters[i + 1]
        BY <1>2, <3>3, <4>1
      <4>3. ASSUME NEW i \in Nat \ {0}
            PROVE  Turn(i)' = Turn(i + 1)
        BY <1>2, <3>1, <4>2 DEF Turn
      <4>4. Total' /\ Apart'
        BY <1>1, <1>2, <2>2, <3>1, <4>1, <4>2
      <4>5. ASSUME NEW i \in Nat \ {0}
            PROVE  At(i)'
        <5>1. Turn(i)' = Turn(i + 1)
          BY <4>3
        <5>2. At(i + 1)
          <6>1. i + 1 \in Nat \ {0}
            OBVIOUS
          <6>. HIDE DEF At
          <6>. QED
            BY <1>1, <6>1
        <5>. QED
          BY <2>2, <3>1, <4>1, <4>2, <5>1, <5>2
      <4>. QED
        BY <4>4, <4>5
    <3>4. CASE waiters = <<>>
      <4>1. replies' = Append(replies, r) /\ UNCHANGED waiters
        BY <1>1, <2>2, <3>4, ReplyGoesHome DEF r
      <4>2. /\ Len(replies') = Len(replies) + 1
            /\ replies'[Len(replies) + 1] = r /\ \A i \in 1 .. Len(replies) : replies'[i] = replies[i]
        BY <1>2, <3>2, <4>1
      <4>3. Total' /\ Apart'
        BY <1>1, <1>2, <2>2, <3>1, <3>4, <4>1, <4>2
      <4>4. ASSUME NEW i \in Nat \ {0}
            PROVE  At(i)'
        <5>1. At(i) /\ Turn(i)' = Turn(i)
          BY <1>1, <1>3, <3>1, <4>1
        <5>. QED
          BY <1>2, <2>2, <3>1, <3>2, <4>2, <5>1
      <4>. QED
        BY <4>3, <4>4
    <3>. QED
      BY <3>3, <3>4
  <2>. QED
    BY <1>1, <1>4, <1>6, <2>1, <2>2, MmuStep
<1>7. ASSUME NEW p \in Proc, Process(p)
      PROVE  Goal
  <2>1. CASE ProcStart(p) \/ ProcScheduled(p) \/ ProcAnswered(p)
    BY <1>4, <2>1, ProcessAlone DEF Owed
  <2>2. CASE ProcReceive(p)
    <3>1. /\ UNCHANGED <<requests, mmu, cur>> /\ asked # <<>> /\ Head(asked) = p /\ asked' = Tail(asked)
      BY <1>1, <2>2, ReceiveInTurn
    <3>2. Owed' = Owed /\ Pending' = Pending
      BY <3>1 DEF Owed, Pending
    <3>3. /\ Len(asked') = Len(asked) - 1 /\ Len(asked) > 0 /\ asked[1] = p
          /\ \A i \in 1 .. Len(asked') : asked'[i] = asked[i + 1]
      BY <1>2, <3>1
    <3>4. CASE replies = <<>>
      <4>1. waiters' = Append(waiters, p) /\ UNCHANGED replies
        BY <1>1, <2>2, <3>4, ReceiveInTurn
      <4>2. /\ Len(waiters') = Len(waiters) + 1 /\ waiters'[Len(waiters) + 1] = p /\ Len(replies) = 0
            /\ \A i \in 1 .. Len(waiters) : waiters'[i] = waiters[i]
        BY <1>2, <3>4, <4>1
      <4>3. ASSUME NEW i \in 1 .. Len(waiters) + Len(asked)
            PROVE  Turn(i)' = Turn(i)
        <5>1. CASE i <= Len(waiters)
          BY <1>2, <4>2, <5>1 DEF Turn
        <5>2. CASE i = Len(waiters) + 1
          BY <1>2, <3>3, <4>2, <5>2 DEF Turn
        <5>3. CASE i > Len(waiters) + 1
          <6>1. PICK j \in Nat : i = Len(waiters) + 1 + j
            <7>1. i - Len(waiters) - 1 \in Nat /\ i = Len(waiters) + 1 + (i - Len(waiters) - 1)
              BY <1>2, <5>3
            <7>. QED
              BY <7>1
          <6>2. j \in 1 .. Len(asked') /\ i - Len(waiters') = j /\ i - Len(waiters) = j + 1
            BY <1>2, <3>3, <4>2, <5>3, <6>1
          <6>3. asked'[j] = asked[j + 1]
            BY <3>3, <6>2
          <6>. QED
            BY <1>2, <4>2, <5>3, <6>2, <6>3 DEF Turn
        <5>. QED
          BY <1>2, <5>1, <5>2, <5>3
      <4>4. Total' /\ Apart'
        BY <1>1, <1>2, <3>2, <3>3, <3>4, <4>1, <4>2
      <4>5. ASSUME NEW i \in Nat \ {0}
            PROVE  At(i)'
        <5>1. i <= Len(replies) + Owed + Pending => At(i) /\ Turn(i)' = Turn(i)
          BY <1>1, <1>2, <4>3
        <5>. QED
          BY <1>2, <3>1, <3>2, <4>1, <4>2, <5>1
      <4>. QED
        BY <4>4, <4>5
    <3>5. CASE replies # <<>>
      <4>1. replies' = Tail(replies) /\ UNCHANGED waiters /\ waiters = <<>>
        BY <1>1, <2>2, <3>5, ReceiveInTurn
      <4>2. /\ Len(replies') = Len(replies) - 1 /\ Len(replies) > 0
            /\ \A i \in 1 .. Len(replies') : replies'[i] = replies[i + 1]
        BY <1>2, <3>5, <4>1
      <4>3. ASSUME NEW i \in 1 .. Len(asked')
            PROVE  Turn(i)' = Turn(i + 1)
        BY <1>2, <3>3, <4>1, <4>3 DEF Turn
      <4>4. Total' /\ Apart'
        BY <1>1, <1>2, <3>2, <3>3, <4>1, <4>2
      <4>5. ASSUME NEW i \in Nat \ {0}
            PROVE  At(i)'
        <5>1. Len(waiters) = 0
          BY <4>1
        <5>2. i + 1 <= Len(replies) + Owed + Pending => At(i + 1) /\ Turn(i)' = Turn(i + 1)
          <6>1. At(i + 1)
            <7>1. i + 1 \in Nat \ {0}
              OBVIOUS
            <7>. QED
              BY ONLY <1>1, <7>1
          <6>2. i + 1 <= Len(replies) + Owed + Pending => i \in 1 .. Len(asked')
            BY <1>1, <1>2, <3>3, <5>1
          <6>. QED
            BY <4>3, <6>1, <6>2
        <5>3. CASE i + 1 > Len(replies) + Owed + Pending
          <6>1. /\ ~ (i <= Len(replies'))
                /\ Owed = 1 => i # Len(replies') + 1
                /\ Pending = 1 => i # Len(replies') + Owed + 1
            <7>1. Len(replies') \in Nat
              BY <1>2, <4>2
            <7>2. PICK n \in Nat, m \in Nat, a \in {0, 1}, b \in {0, 1} :
                    n = Len(replies) /\ m = Len(replies') /\ a = Owed /\ b = Pending
              BY <1>2, <7>1
            <7>3. m = n - 1
              BY <4>2, <7>2
            <7>4. i + 1 > n + a + b
              BY <5>3, <7>2
            <7>5. ~ (i <= m) /\ (a = 1 => i # m + 1) /\ (b = 1 => i # m + a + 1)
              BY <7>3, <7>4, BeyondTheEnd
            <7>. QED
              BY <7>2, <7>5
          <6>. QED
            BY <3>2, <6>1
        <5>4. CASE i + 1 <= Len(replies) + Owed + Pending
          <6>1. i <= Len(replies') => replies'[i].pid = Turn(i)'
            BY <1>2, <4>2, <5>2, <5>4
          <6>2. Owed = 1 /\ i = Len(replies') + 1 => cur.pid = Turn(i)'
            <7>1. i = Len(replies') + 1 => i + 1 = Len(replies) + 1
              BY <1>2, <4>2
            <7>. QED
              BY <5>2, <5>4, <7>1
          <6>3. Pending = 1 /\ i = Len(replies') + Owed + 1 => Head(requests).pid = Turn(i)'
            <7>1. i = Len(replies') + Owed + 1 => i + 1 = Len(replies) + Owed + 1
              BY <1>2, <4>2
            <7>. QED
              BY <5>2, <5>4, <7>1
          <6>. QED
            BY <3>1, <3>2, <6>1, <6>2, <6>3
        <5>. QED
          BY <1>2, <5>3, <5>4
      <4>. QED
        BY <4>4, <4>5
    <3>. QED
      BY <3>4, <3>5
  <2>3. CASE ProcSend(p) \/ ProcComplete(p)
    <3>1. PICK r \in Request :
            /\ r.pid = p /\ requests' = Append(requests, r) /\ pc[p] = "send"
            /\ UNCHANGED <<replies, waiters>>
            /\ \/ r.num = -9 /\ UNCHANGED asked
               \/ r.num \in Page /\ asked' = Append(asked, p)
      BY <1>1, <2>3, Sent DEF InOrder
    <3>2. requests = <<>>
      BY <1>1, <3>1, SendsAlone
    <3>3. requests' = <<r>> /\ Head(requests') = r
      BY <3>1, <3>2
    <3>4. UNCHANGED <<mmu, cur>> /\ Owed' = Owed
      BY <2>3 DEF ProcSend, ProcComplete, mmuVars, Owed
    <3>5. Pending = 0 /\ Pending' = One(r.num # -9)
      BY <3>2, <3>3 DEF Pending, One
    <3>6. CASE r.num = -9
      <4>1. UNCHANGED asked /\ Pending' = 0
        BY <3>1, <3>5, <3>6 DEF One
      <4>2. \A i : Turn(i)' = Turn(i)
        BY <1>3, <3>1, <4>1
      <4>. QED
        BY <1>1, <3>1, <3>4, <3>5, <4>1, <4>2
    <3>7. CASE r.num # -9
      <4>1. asked' = Append(asked, p) /\ Pending' = 1
        BY <3>1, <3>5, <3>7 DEF One
      <4>2. /\ Len(asked') = Len(asked) + 1 /\ asked'[Len(asked) + 1] = p
            /\ \A i \in 1 .. Len(asked) : asked'[i] = asked[i]
        BY <1>2, <4>1
      <4>3. ASSUME NEW i \in 1 .. Len(waiters) + Len(asked)
            PROVE  Turn(i)' = Turn(i)
        <5>1. CASE i <= Len(waiters)
          BY <3>1, <5>1 DEF Turn
        <5>2. CASE i > Len(waiters)
          <6>1. i - Len(waiters) \in 1 .. Len(asked)
            BY <1>2, <5>2
          <6>2. asked'[i - Len(waiters)] = asked[i - Len(waiters)]
            BY <4>2, <6>1
          <6>. QED
            BY <1>2, <3>1, <5>2, <6>2 DEF Turn
        <5>. QED
          BY <1>2, <5>1, <5>2
      <4>4. ASSUME NEW i \in Nat, i = Len(waiters) + Len(asked) + 1
            PROVE  Turn(i)' = p
        <5>1. i - Len(waiters) = Len(asked) + 1 /\ ~ i <= Len(waiters)
          BY <1>2, <4>4
        <5>. QED
          BY <3>1, <4>2, <5>1 DEF Turn
      <4>5. Total' /\ Apart'
        BY <1>1, <1>2, <3>1, <3>4, <3>5, <4>1, <4>2
      <4>6. ASSUME NEW i \in Nat \ {0}
            PROVE  At(i)'
        <5>1. i <= Len(replies) + Owed => At(i) /\ Turn(i)' = Turn(i)
          BY <1>1, <1>2, <3>5, <4>3
        <5>2. i = Len(replies) + Owed + 1 => Turn(i)' = p
          BY <1>1, <1>2, <3>5, <4>4
        <5>. QED
          BY <1>2, <3>1, <3>3, <3>4, <4>1, <5>1, <5>2
      <4>. QED
        BY <4>5, <4>6
    <3>. QED
      BY <3>6, <3>7
  <2>. QED
    BY <1>7, <2>1, <2>2, <2>3 DEF Process
<1>. QED
  BY <1>5, <1>6, <1>7 DEF Next, Finished

(* A verdict about a process stays true while the process waits for it. *)
LEMMA VerdictTrueKept ==
  ASSUME IInv, PInv, OInv, [Next]_vars
  PROVE  VerdictTrue'
<1>. USE DEF IInv, OInv
<1>. DEFINE OwedTrue    == Owed = 1 =>
                             /\ cur.num = token[cur.pid]
                             /\ cur.num >= m_i[cur.pid] <=> mmu \in {"notify_invalid", "reply_invalid"}
            StoredTrue  == \A i \in DOMAIN replies :
                             replies[i].num = "invalid" <=> token[replies[i].pid] >= m_i[replies[i].pid]
            Told(p)     == pc[p] = "answered" => (answer[p].num = "invalid" <=> token[p] >= m_i[p])
            Goal        == OwedTrue' /\ StoredTrue' /\ \A p \in Proc : Told(p)'
<1>1. SUFFICES ASSUME InOrder, InOrder', OwedTrue, StoredTrue, \A p \in Proc : Told(p)
               PROVE  Goal
  BY StillInOrder DEF VerdictTrue
<1>2. m_i' = m_i
  BY PagesConstant
<1>3. /\ pc \in [Proc -> {"start", "ready", "send", "recv", "waiting", "answered",
                          "faulted", "stuck", "completed", "killed"}]
      /\ answer \in [Proc -> Answer \cup {NoAnswer}] /\ token \in [Proc -> Page \cup {NoToken}]
      /\ replies \in Seq(Answer)
  BY DEF ProgramTypes, ProcTypes, QueueTypes
<1>4. /\ Owed = 1 => cur.pid \in Proc /\ pc[cur.pid] \in {"recv", "waiting"}
      /\ \A i \in DOMAIN replies : replies[i].pid \in Proc /\ pc[replies[i].pid] \in {"recv", "waiting"}
  BY <1>1, DueAsk
<1>5. ASSUME UNCHANGED <<mmu, cur, replies, token, pc, answer>>
      PROVE  Goal
  BY <1>1, <1>2, <1>5 DEF Owed
<1>6. CASE Master \/ Scheduler \/ UNCHANGED vars
  BY <1>1, <1>5, <1>6, OthersStep
<1>7. CASE Mmu
  <2>1. ASSUME NEW r \in Request,
               NEW step \in {"notify_end", "notify_invalid", "reply_frame", "reply_fault"},
               Receive(r, step), step = "notify_end" <=> r.num = -9,
               step = "notify_invalid" <=> r.num >= m_i[r.pid]
        PROVE  Goal
    <3>1. /\ mmu' = step /\ cur' = r /\ UNCHANGED <<replies, token, pc, answer>>
          /\ r.num # -9 => r.num = token[r.pid]
      BY <1>1, <2>1, ReceiveOnly
    <3>2. Owed' = 1 => step # "notify_end"
      BY <3>1 DEF Owed, One
    <3>. QED
      BY <1>1, <1>2, <2>1, <3>1, <3>2
  <2>2. ASSUME Owed' = Owed, UNCHANGED <<replies, cur, token, pc, answer>>,
               mmu' \in {"reply_invalid", "reply_frame", "reply_fault"} => mmu = "notify_invalid",
               mmu \notin {"reply_invalid", "reply_frame", "reply_fault"},
               mmu = "notify_invalid" => mmu' = "reply_invalid"
        PROVE  Goal
    <3>1. Owed = 1 => (mmu' \in {"notify_invalid", "reply_invalid"} <=> mmu \in {"notify_invalid", "reply_invalid"})
      BY <2>2 DEF Owed, One
    <3>. QED
      BY <1>1, <1>2, <2>2, <3>1
  <2>3. ASSUME NEW verdict \in Verdict, NEW step, Reply(verdict, step), Owed = 1, Owed' = 0,
               mmu \in {"reply_frame", "reply_fault", "reply_invalid"},
               verdict = "invalid" <=> mmu = "reply_invalid"
        PROVE  Goal
    <3>0. PICK q \in Proc : q = cur.pid
      BY <1>4, <2>3
    <3>. DEFINE a == [pid |-> q, num |-> verdict]
    <3>1. a \in Answer /\ a.pid = q /\ (a.num = "invalid" <=> token[q] >= m_i[q])
      BY <1>1, <2>3, <3>0 DEF Answer
    <3>2. UNCHANGED token
      BY <2>3 DEF Reply
    <3>3. \/ answer' = [answer EXCEPT ![q] = a] /\ pc' = [pc EXCEPT ![q] = "answered"] /\ UNCHANGED replies
          \/ replies' = Append(replies, a) /\ UNCHANGED <<answer, pc>>
      BY <1>1, <2>3, <3>0, ReplyGoesHome
    <3>. HIDE DEF a
    <3>4. CASE answer' = [answer EXCEPT ![q] = a] /\ pc' = [pc EXCEPT ![q] = "answered"] /\ UNCHANGED replies
      BY <1>1, <1>2, <1>3, <2>3, <3>1, <3>2, <3>4
    <3>5. CASE replies' = Append(replies, a) /\ UNCHANGED <<answer, pc>>
      <4>1. \A i \in DOMAIN replies' : (i \in DOMAIN replies /\ replies'[i] = replies[i]) \/ replies'[i] = a
        BY <1>3, <3>1, <3>5
      <4>. QED
        BY <1>1, <1>2, <2>3, <3>1, <3>2, <3>5, <4>1
    <3>. QED
      BY <3>3, <3>4, <3>5
  <2>. QED
    BY <1>1, <1>7, <2>1, <2>2, <2>3, MmuStep
<1>8. ASSUME NEW p \in Proc, UNCHANGED <<mmu, cur, replies>>, pc[p] \notin {"recv", "waiting"},
             \A q \in Proc \ {p} : UNCHANGED <<token[q], pc[q], answer[q]>>, pc'[p] # "answered"
      PROVE  Goal
  <2>1. \A q \in Proc : pc[q] \in {"recv", "waiting"} => token'[q] = token[q]
    BY <1>8
  <2>2. OwedTrue'
    BY <1>1, <1>2, <1>4, <1>8, <2>1 DEF Owed
  <2>3. StoredTrue'
    BY <1>1, <1>2, <1>4, <1>8, <2>1
  <2>4. \A q \in Proc : Told(q)'
    BY <1>1, <1>2, <1>8
  <2>. QED
    BY <2>2, <2>3, <2>4
<1>9. ASSUME NEW p \in Proc, Process(p)
      PROVE  Goal
  <2>1. CASE ProcReceive(p)
    <3>1. pc[p] = "recv" /\ UNCHANGED <<token, mmu, cur>>
      BY <1>1, <2>1, ReceiveInTurn
    <3>2. CASE replies = <<>>
      <4>1. pc' = [pc EXCEPT ![p] = "waiting"] /\ UNCHANGED <<answer, replies>>
        BY <1>1, <2>1, <3>2, ReceiveInTurn
      <4>. QED
        BY <1>1, <1>2, <1>3, <3>1, <4>1 DEF Owed
    <3>3. CASE replies # <<>>
      <4>1. /\ Head(replies).pid = p /\ replies' = Tail(replies)
            /\ answer' = [answer EXCEPT ![p] = Head(replies)] /\ pc' = [pc EXCEPT ![p] = "answered"]
        BY <1>1, <2>1, <3>3, ReceiveInTurn
      <4>2. /\ Head(replies) = replies[1] /\ 1 \in DOMAIN replies
            /\ \A i \in DOMAIN replies' : i + 1 \in DOMAIN replies /\ replies'[i] = replies[i + 1]
        BY <1>3, <3>3, <4>1
      <4>3. ASSUME NEW i \in DOMAIN replies'
            PROVE  replies'[i].num = "invalid" <=> token'[replies'[i].pid] >= m_i'[replies'[i].pid]
        <5>1. PICK j \in DOMAIN replies : replies'[i] = replies[j]
          BY <4>2
        <5>. QED
          BY <1>1, <1>2, <3>1, <5>1
      <4>4. ASSUME NEW q \in Proc
            PROVE  Told(q)'
        <5>1. CASE q = p
          <6>1. answer'[p] = replies[1] /\ replies[1].pid = p
            BY <1>3, <4>1, <4>2
          <6>2. replies[1].num = "invalid" <=> token[p] >= m_i[p]
            BY <1>1, <4>2, <6>1
          <6>. QED
            BY <1>2, <3>1, <5>1, <6>1, <6>2
        <5>2. CASE q # p
          BY <1>1, <1>2, <1>3, <3>1, <4>1, <5>2
        <5>. QED
          BY <5>1, <5>2
      <4>. QED
        BY <1>1, <1>2, <3>1, <4>3, <4>4 DEF Owed
    <3>. QED
      BY <3>2, <3>3
  <2>2. CASE ~ ProcReceive(p)
    <3>1. UNCHANGED <<mmu, cur, replies>>
      BY <1>9, <2>2 DEF Process, ProcStart, ProcScheduled, ProcSend, ProcAnswered, ProcComplete, SendRequest,
                        mmuVars, queueVars
    <3>2. /\ pc[p] \notin {"recv", "waiting"} /\ pc'[p] # "answered"
          /\ \A q \in Proc \ {p} : UNCHANGED <<token[q], pc[q], answer[q]>>
      BY <1>3, <1>9, <2>2 DEF Process, ProcStart, ProcScheduled, ProcSend, ProcAnswered, ProcComplete
    <3>. QED
      BY <1>8, <3>1, <3>2
  <2>. QED
    BY <2>1, <2>2
<1>. QED
  BY <1>6, <1>7, <1>9 DEF Next, Finished

LEMMA RightAnswerKept ==
  ASSUME IInv, PInv, OInv, [Next]_vars
  PROVE  RightUnlessOvertaken'
<1>. USE DEF IInv, OInv
<1>1. SUFFICES ASSUME ~ overtaken, ~ overtaken', RightAnswer
               PROVE  RightAnswer'
  BY OvertakenForGood DEF RightUnlessOvertaken
<1>2. ASSUME UNCHANGED answer
      PROVE  RightAnswer'
  BY <1>1, <1>2 DEF RightAnswer
<1>3. CASE Master
  <2>1. CASE MasterRemoveQueues
    BY <1>1, <2>1 DEF MasterRemoveQueues, FailedReceive, RightAnswer
  <2>. QED
    BY <1>2, <1>3, <2>1 DEF Master, MasterAllot, MasterFork, MasterWait, MasterRemoveSems, procVars
<1>4. CASE Scheduler
  BY <1>2, <1>4 DEF Scheduler, SchedDispatch, SchedRequeue, SchedTerminate, SchedSignal, procVars
<1>5. CASE Mmu
  <2>1. ASSUME ~ (MmuReplyFrame \/ MmuReplyFault \/ MmuReplyInvalid)
        PROVE  RightAnswer'
    BY <1>2, <1>5, <2>1 DEF Mmu, MmuEnd, MmuInvalid, MmuHit, MmuFault, Receive,
            MmuNotifyEnd, MmuNotifyInvalid, MmuNotifyLoaded, Notify, MmuReport, MmuFail, procVars
  <2>2. ASSUME NEW verdict \in Verdict, NEW step, Reply(verdict, step), Owed = 1
        PROVE  RightAnswer'
    <3>1. InOrder
      BY <1>1, <2>2 DEF Reply, InOrder
    <3>2. \/ UNCHANGED answer
          \/ answer' = [answer EXCEPT ![cur.pid] = [pid |-> cur.pid, num |-> verdict]]
      BY <2>2, <3>1, ReplyGoesHome
    <3>. QED
      BY <1>1, <3>2 DEF RightAnswer, ProgramTypes, ProcTypes
  <2>3. CASE MmuReplyFrame \/ MmuReplyFault \/ MmuReplyInvalid
    BY <2>2, <2>3 DEF MmuReplyFrame, MmuReplyFault, MmuReplyInvalid, Verdict, Owed, One
  <2>. QED
    BY <2>1, <2>3
<1>6. ASSUME NEW p \in Proc, Process(p)
      PROVE  RightAnswer'
  <2>1. \A q \in Proc \ {p} : answer'[q] = answer[q]
    BY <1>6 DEF Process, ProcStart, ProcScheduled, ProcSend, ProcReceive, ProcAnswered, ProcComplete,
                ProgramTypes, ProcTypes
  <2>2. answer'[p] \in {answer[p], NoAnswer} \/ answer'[p].pid = p
    <3>1. CASE ProcReceive(p) /\ queuesRemoved
      BY <3>1 DEF ProcReceive, FailedReceive, ProgramTypes, ProcTypes
    <3>2. CASE ProcReceive(p) /\ ~ queuesRemoved
      <4>1. InOrder /\ InOrder'
        BY <1>1, <3>2 DEF InOrder, ProcReceive
      <4>2. UNCHANGED answer \/ (answer' = [answer EXCEPT ![p] = Head(replies)] /\ Head(replies).pid = p)
        BY <3>2, <4>1, ReceiveInTurn
      <4>. QED
        BY <4>2 DEF ProgramTypes, ProcTypes
    <3>3. CASE ~ ProcReceive(p)
      BY <1>6, <3>3 DEF Process, ProcStart, ProcScheduled, ProcSend, ProcAnswered, ProcComplete,
                        ProgramTypes, ProcTypes
    <3>. QED
      BY <3>1, <3>2, <3>3
  <2>. QED
    BY <1>1, <2>1, <2>2 DEF RightAnswer
<1>7. CASE UNCHANGED vars
  BY <1>2, <1>7 DEF vars, procVars
<1>. QED
  BY <1>3, <1>4, <1>5, <1>6, <1>7 DEF Next, Finished

--------------------------------------------------------------------------------
(* How many have ended, as long as nobody is overtaken                            *)

(* When the scheduler has counted k ends, every process has sent its last request. *)
LEMMA AllEnded ==
  ASSUME IInv, EndsCounted, InOrder, terminated >= K
  PROVE  \A p \in Proc : Ends(p)
<1>1. Ended \in SUBSET Proc
  BY DEF Ended
<1>2. Cardinality(Ended) \in Nat
  BY <1>1, SetOfProcesses
<1>3. Count(msq2, EndNotices) \in Nat
  BY CountBounds DEF IInv, ProgramTypes, QueueTypes
<1>4. Count(requests, LastRequests) \in Nat
  BY CountBounds DEF IInv, ProgramTypes, QueueTypes
<1>5. Ending \in Nat
  BY DEF Ending, One
<1>6. Cardinality(Ended) >= K
  BY <1>2, <1>3, <1>4, <1>5 DEF EndsCounted, IInv, ProgramTypes, SchedTypes
<1>7. Ended = Proc
  <2>1. /\ Cardinality(Ended) <= Cardinality(Proc)
        /\ Cardinality(Proc) = Cardinality(Ended) => Proc = Ended
    BY <1>1, Processes, FS_Subset
  <2>. QED
    BY <1>2, <1>6, <2>1, Processes
<1>. QED
  BY <1>7 DEF Ended

(* Where a process is told that its page is illegal it ends; otherwise it goes on. *)
LEMMA EndsUnchanged ==
  ASSUME IInv, VerdictTrue, InOrder, m_i' = m_i, NEW p \in Proc,
         ProcStart(p) \/ ProcScheduled(p) \/ ProcAnswered(p)
  PROVE  Ended' = Ended
<1>. USE DEF IInv, ProgramTypes, ProcTypes
<1>1. ASSUME NEW q \in Proc \ {p}
      PROVE  Ends(q)' <=> Ends(q)
  BY <1>1 DEF ProcStart, ProcScheduled, ProcAnswered, Ends, HasExited
<1>2. Ends(p)' <=> Ends(p)
  <2>1. CASE ProcStart(p) \/ ProcScheduled(p)
    BY <2>1 DEF ProcStart, ProcScheduled, Ends, HasExited
  <2>2. CASE ProcAnswered(p)
    <3>1. pc[p] = "answered" /\ (answer[p].num = "invalid" <=> token[p] >= m_i[p])
      BY <2>2 DEF ProcAnswered, VerdictTrue
    <3>2. CASE answer[p].num = "invalid"
      <4>1. pc'[p] = "killed"
        BY <2>2, <3>2 DEF ProcAnswered
      <4>. QED
        BY <3>1, <3>2, <4>1 DEF Ends, HasExited
    <3>3. CASE answer[p].num # "invalid"
      <4>1. pc'[p] \in {"send", "faulted"}
        BY <2>2, <3>3 DEF ProcAnswered
      <4>. QED
        BY <3>1, <3>3, <4>1 DEF Ends, HasExited
    <3>. QED
      BY <3>2, <3>3
  <2>. QED
    BY <2>1, <2>2
<1>. QED
  BY <1>1, <1>2 DEF Ended

LEMMA EndsCountedKept ==
  ASSUME IInv, PInv, OInv, [Next]_vars
  PROVE  EndsCounted'
<1>. USE DEF IInv, OInv
<1>. DEFINE noticed == Count(msq2, EndNotices)
            coming == Count(requests, LastRequests)
            Sum == terminated + noticed + Ending + coming
<1>1. m_i' = m_i /\ LastRequests' = LastRequests
  BY PagesConstant DEF LastRequests
<1>2. SUFFICES ASSUME InOrder, InOrder', Sum = Cardinality(Ended)
               PROVE  Sum' = Cardinality(Ended)'
  BY StillInOrder DEF EndsCounted
<1>3. /\ terminated \in Nat /\ noticed \in Nat /\ coming \in Nat /\ Ending \in {0, 1}
      /\ Cardinality(Ended) \in Nat
  <2>1. noticed \in Nat
    BY CountBounds DEF ProgramTypes, QueueTypes
  <2>2. coming \in Nat
    BY CountBounds DEF ProgramTypes, QueueTypes
  <2>3. Ended \in SUBSET Proc
    BY DEF Ended
  <2>4. Cardinality(Ended) \in Nat
    BY <2>3, SetOfProcesses
  <2>. QED
    BY <2>1, <2>2, <2>4 DEF ProgramTypes, SchedTypes, Ending, One
<1>4. /\ UNCHANGED msq2 => noticed' = noticed
      /\ UNCHANGED requests => coming' = coming
      /\ UNCHANGED mmu => Ending' = Ending
      /\ UNCHANGED <<pc, token>> => Ended' = Ended
  BY <1>1 DEF Count, Ending, Ended, Ends, HasExited
<1>. HIDE DEF noticed, coming
<1>5. ASSUME UNCHANGED <<terminated, msq2, requests, mmu>>, Ended' = Ended
      PROVE  Sum' = Cardinality(Ended)'
  BY <1>2, <1>4, <1>5
<1>6. ASSUME UNCHANGED <<terminated, msq2, requests, mmu, pc, token>>
      PROVE  Sum' = Cardinality(Ended)'
  BY <1>4, <1>5, <1>6
<1>7. CASE Master
  <2>1. CASE MasterRemoveQueues
    BY <1>2, <2>1 DEF MasterRemoveQueues, InOrder
  <2>. QED
    BY <1>6, <1>7, <2>1 DEF Master, MasterAllot, MasterFork, MasterWait, MasterRemoveSems,
                            schedVars, mmuVars, procVars, queueVars
<1>8. CASE Scheduler
  <2>1. CASE SchedDispatch \/ SchedSignal
    BY <1>6, <2>1 DEF SchedDispatch, SchedSignal, schedVars, mmuVars, procVars, queueVars
  <2>2. CASE SchedRequeue \/ SchedTerminate
    <3>1. msq2 # <<>> /\ msq2 \in Seq([type : {1, 2}, pid : Proc]) /\ msq2' = Tail(msq2)
      BY <2>2 DEF SchedRequeue, SchedTerminate, ProgramTypes, QueueTypes
    <3>2. noticed = noticed' + One(Head(msq2) \in EndNotices)
      BY <3>1, CountTail DEF noticed, One
    <3>3. noticed' \in Nat
      <4>1. msq2' \in Seq([type : {1, 2}, pid : Proc])
        BY <3>1, QueueChange
      <4>. QED
        BY <4>1, CountBounds DEF noticed
    <3>4. terminated' = terminated + One(Head(msq2) \in EndNotices)
      <4>1. Head(msq2) \in [type : {1, 2}, pid : Proc]
        BY <3>1, QueueChange
      <4>2. Head(msq2) \in EndNotices <=> Head(msq2).type = 2
        BY <4>1 DEF EndNotices
      <4>3. terminated' = IF Head(msq2).type = 2 THEN terminated + 1 ELSE terminated
        BY <2>2 DEF SchedRequeue, SchedTerminate
      <4>. QED
        BY <1>3, <4>2, <4>3 DEF One
    <3>5. One(Head(msq2) \in EndNotices) \in {0, 1}
      BY DEF One
    <3>6. Ending' = Ending /\ coming' = coming /\ Ended' = Ended
      BY <1>4, <2>2 DEF SchedRequeue, SchedTerminate, mmuVars, procVars
    <3>. QED
      BY <1>2, <1>3, <3>2, <3>3, <3>4, <3>5, <3>6
  <2>. QED
    BY <1>8, <2>1, <2>2 DEF Scheduler
<1>9. CASE Mmu
  <2>1. ASSUME NEW r \in Request, NEW step, Receive(r, step), Ending' = One(r \in LastRequests)
        PROVE  Sum' = Cardinality(Ended)'
    <3>1. requests # <<>> /\ requests \in Seq(Request) /\ requests' = Tail(requests) /\ Head(requests) = r
      BY <2>1 DEF Receive, ProgramTypes, QueueTypes
    <3>2. coming = coming' + One(r \in LastRequests)
      BY <1>1, <3>1, CountTail DEF coming, One
    <3>3. coming' \in Nat
      <4>1. requests' \in Seq(Request)
        BY <3>1, QueueChange
      <4>. QED
        BY <1>1, <4>1, CountBounds DEF coming
    <3>4. Ending = 0 /\ One(r \in LastRequests) \in {0, 1}
      BY <2>1 DEF Receive, Ending, One
    <3>5. Ended' = Ended /\ noticed' = noticed /\ terminated' = terminated
      BY <1>4, <2>1 DEF Receive, procVars, schedVars
    <3>. QED
      BY <1>2, <1>3, <2>1, <3>2, <3>3, <3>4, <3>5
  <2>2. ASSUME NEW r \in Request, MmuEnd(r) \/ MmuInvalid(r)
        PROVE  Sum' = Cardinality(Ended)'
    <3>1. PICK step \in {"notify_end", "notify_invalid"} : Receive(r, step)
      BY <2>2 DEF MmuEnd, MmuInvalid
    <3>2. r \in LastRequests
      BY <2>2 DEF MmuEnd, MmuInvalid, LastRequests
    <3>3. Ending' = One(r \in LastRequests)
      BY <3>1, <3>2 DEF Receive, Ending, One
    <3>. QED
      BY <2>1, <3>1, <3>3
  <2>3. ASSUME NEW r \in Request, MmuHit(r) \/ MmuFault(r)
        PROVE  Sum' = Cardinality(Ended)'
    <3>1. PICK step \in {"reply_frame", "reply_fault"} : Receive(r, step)
      BY <2>3 DEF MmuHit, MmuFault
    <3>2. r \notin LastRequests
      BY <2>3 DEF MmuHit, MmuFault, IsLegal, LastRequests, Request, ProgramTypes, MasterTypes
    <3>3. Ending' = One(r \in LastRequests)
      BY <3>1, <3>2 DEF Receive, Ending, One
    <3>. QED
      BY <2>1, <3>1, <3>3
  <2>4. ASSUME NEW type \in {1, 2}, NEW step, Notify(type, step), mmu \in MmuHas
        PROVE  noticed' = noticed + One(type = 2)
    <3>. DEFINE n == [type |-> type, pid |-> cur.pid]
    <3>1. cur.pid \in Proc
      BY <2>4 DEF Stages, InHand, Request
    <3>2. n \in [type : {1, 2}, pid : Proc] /\ (n \in EndNotices <=> type = 2)
      BY <3>1 DEF EndNotices
    <3>3. msq2' = Append(msq2, n)
      BY <2>4 DEF Notify
    <3>. HIDE DEF n
    <3>4. Count(msq2', EndNotices) = Count(msq2, EndNotices) + IF n \in EndNotices THEN 1 ELSE 0
      <4>. DEFINE Notice == [type : {1, 2}, pid : Proc]
      <4>1. msq2 \in Seq(Notice) /\ n \in Notice
        BY <3>2 DEF ProgramTypes, QueueTypes
      <4>. HIDE DEF Notice
      <4>2. Count(Append(msq2, n), EndNotices) = Count(msq2, EndNotices) + IF n \in EndNotices THEN 1 ELSE 0
        BY <4>1, CountAppend
      <4>. QED
        BY <3>3, <4>2
    <3>. QED
      BY <3>2, <3>4 DEF noticed, One
  <2>5. CASE MmuNotifyEnd \/ MmuNotifyInvalid
    <3>1. noticed' = noticed + 1
      BY <1>3, <2>4, <2>5 DEF MmuNotifyEnd, MmuNotifyInvalid, MmuHas, One
    <3>2. Ending = 1 /\ Ending' = 0
      BY <2>5 DEF MmuNotifyEnd, MmuNotifyInvalid, Notify, Ending, One
    <3>3. terminated' = terminated /\ coming' = coming /\ Ended' = Ended
      BY <1>4, <2>5 DEF MmuNotifyEnd, MmuNotifyInvalid, Notify, schedVars, procVars
    <3>. QED
      BY <1>2, <1>3, <3>1, <3>2, <3>3
  <2>6. CASE MmuNotifyLoaded
    <3>1. noticed' = noticed
      BY <1>3, <2>4, <2>6 DEF MmuNotifyLoaded, MmuHas, One
    <3>2. Ending' = Ending
      BY <2>6 DEF MmuNotifyLoaded, Notify, Ending, One
    <3>3. terminated' = terminated /\ coming' = coming /\ Ended' = Ended
      BY <1>4, <2>6 DEF MmuNotifyLoaded, Notify, schedVars, procVars
    <3>. QED
      BY <1>2, <3>1, <3>2, <3>3
  <2>7. ASSUME NEW verdict \in Verdict, NEW step \in {"loop", "notify_loaded"}, Reply(verdict, step),
               Owed = 1, mmu \in {"reply_frame", "reply_fault", "reply_invalid"}
        PROVE  Sum' = Cardinality(Ended)'
    <3>1. Ending' = Ending
      BY <2>7 DEF Reply, Ending, One
    <3>2. UNCHANGED <<terminated, msq2, requests, token>>
      BY <2>7 DEF Reply, schedVars
    <3>3. \/ UNCHANGED pc
          \/ /\ cur.pid \in Proc /\ pc[cur.pid] = "waiting"
             /\ pc' = [pc EXCEPT ![cur.pid] = "answered"]
      BY <1>2, <2>7, ReplyGoesHome
    <3>4. Ended' = Ended
      BY <1>1, <3>2, <3>3 DEF Ended, Ends, HasExited, ProgramTypes, ProcTypes
    <3>5. noticed' = noticed /\ coming' = coming
      BY <1>4, <3>2
    <3>. QED
      BY <1>2, <3>1, <3>2, <3>4, <3>5
  <2>8. CASE MmuReport
    <3>1. Ending' = Ending
      BY <2>8 DEF MmuReport, Ending, One
    <3>2. terminated' = terminated /\ noticed' = noticed /\ coming' = coming /\ Ended' = Ended
      BY <1>4, <2>8 DEF MmuReport, schedVars, procVars, queueVars
    <3>. QED
      BY <1>2, <3>1, <3>2
  <2>9. CASE MmuFail
    BY <1>2, <2>9 DEF MmuFail, InOrder
  <2>10. CASE MmuReplyFrame \/ MmuReplyFault \/ MmuReplyInvalid
    BY <2>7, <2>10 DEF MmuReplyFrame, MmuReplyFault, MmuReplyInvalid, Verdict, Owed, One
  <2>. QED
    BY <1>9, <2>2, <2>3, <2>5, <2>6, <2>8, <2>9, <2>10 DEF Mmu
<1>10. ASSUME NEW p \in Proc, Process(p)
       PROVE  Sum' = Cardinality(Ended)'
  <2>1. CASE ProcStart(p) \/ ProcScheduled(p) \/ ProcAnswered(p)
    <3>1. UNCHANGED <<terminated, msq2, requests, mmu>>
      BY <2>1 DEF ProcStart, ProcScheduled, ProcAnswered, schedVars, mmuVars, queueVars
    <3>. QED
      BY <1>1, <1>2, <1>5, <2>1, <3>1, EndsUnchanged
  <2>2. CASE ProcReceive(p)
    <3>1. /\ pc[p] = "recv" /\ UNCHANGED <<token, requests>>
          /\ \E a \in {"waiting", "answered"} : pc' = [pc EXCEPT ![p] = a]
      BY <1>2, <2>2, ReceiveInTurn
    <3>2. Ended' = Ended
      BY <1>1, <3>1 DEF Ended, Ends, HasExited, ProgramTypes, ProcTypes
    <3>. QED
      BY <1>5, <2>2, <3>1, <3>2 DEF ProcReceive, schedVars, mmuVars
  <2>3. CASE ProcSend(p) \/ ProcComplete(p)
    <3>1. PICK r \in Request : /\ r.pid = p /\ requests' = Append(requests, r)
                               /\ \/ r.num = -9 /\ pc' = [pc EXCEPT ![p] = "completed"] /\ UNCHANGED token
                                  \/ /\ r.num # -9 /\ pc' = [pc EXCEPT ![p] = "recv"]
                                     /\ token' = [token EXCEPT ![p] = r.num]
      BY <1>2, <2>3, Sent DEF InOrder
    <3>2. coming' = coming + One(r \in LastRequests)
      BY <1>1, <3>1, CountAppend DEF coming, One, ProgramTypes, QueueTypes
    <3>3. pc[p] = "send"
      BY <2>3 DEF ProcSend, ProcComplete
    <3>4. Ended' = (IF r \in LastRequests THEN Ended \cup {p} ELSE Ended) /\ p \notin Ended
      <4>1. p \notin Ended
        BY <3>3 DEF Ended, Ends, HasExited
      <4>2. Ends(p)' <=> r \in LastRequests
        BY <1>1, <3>1 DEF LastRequests, Ends, HasExited, ProgramTypes, ProcTypes
      <4>3. ASSUME NEW q \in Proc \ {p}
            PROVE  Ends(q)' <=> Ends(q)
        BY <1>1, <3>1 DEF Ends, HasExited, ProgramTypes, ProcTypes
      <4>. QED
        BY <4>1, <4>2, <4>3 DEF Ended
    <3>5. Cardinality(Ended)' = Cardinality(Ended) + One(r \in LastRequests)
      <4>1. Ended \in SUBSET Proc
        BY DEF Ended
      <4>2. Cardinality(Ended \cup {p}) = Cardinality(Ended) + 1
        BY <3>4, <4>1, SetOfProcesses DEF One
      <4>. QED
        BY <1>3, <3>4, <4>2 DEF One
    <3>6. terminated' = terminated /\ noticed' = noticed /\ Ending' = Ending
      BY <1>4, <2>3 DEF ProcSend, ProcComplete, SendRequest, schedVars, mmuVars
    <3>7. One(r \in LastRequests) \in {0, 1}
      BY DEF One
    <3>. QED
      BY <1>2, <1>3, <3>2, <3>5, <3>6, <3>7
  <2>. QED
    BY <1>10, <2>1, <2>2, <2>3 DEF Process
<1>11. CASE UNCHANGED vars
  BY <1>6, <1>11 DEF vars, schedVars, mmuVars, procVars, queueVars
<1>. QED
  BY <1>7, <1>8, <1>9, <1>10, <1>11 DEF Next, Finished

LEMMA QuietKept ==
  ASSUME IInv, PInv, OInv, [Next]_vars
  PROVE  Quiet'
<1>. USE DEF IInv, OInv
<1>. DEFINE Calm == (\A p \in Proc : Ends(p)) /\ requests = <<>> /\ Busy = 0
<1>1. m_i' = m_i
  BY PagesConstant
<1>2. SUFFICES ASSUME InOrder, InOrder', semsRemoved'
               PROVE  Calm'
  BY StillInOrder DEF Quiet
<1>3. ASSUME Calm, UNCHANGED <<pc, token, requests, mmu>>
      PROVE  Calm'
  BY <1>1, <1>3 DEF Ends, HasExited, Busy
<1>4. CASE ~ semsRemoved
  <2>1. MasterRemoveSems
    BY <1>2, <1>4 DEF Next, Finished, Master, MasterAllot, MasterFork, MasterWait, MasterRemoveSems,
       MasterRemoveQueues, Scheduler, SchedDispatch, SchedRequeue, SchedTerminate, SchedSignal,
       Mmu, MmuEnd, MmuInvalid, MmuHit, MmuFault, Receive,
       MmuNotifyEnd, MmuNotifyInvalid, MmuNotifyLoaded, Notify,
       MmuReplyFrame, MmuReplyFault, MmuReplyInvalid, Reply, MmuReport, MmuFail,
       Process, ProcStart, ProcScheduled, ProcSend, ProcReceive, ProcAnswered,
       ProcComplete, vars, semVars
  <2>2. sched = "exited" /\ terminated >= K
    BY <2>1 DEF MasterRemoveSems, PInv, DoneAtK
  <2>3. \A p \in Proc : Ends(p)
    BY <1>2, <2>2, AllEnded
  <2>4. requests = <<>> /\ Busy = 0
    BY <1>4, <2>2, NothingUnderWay
  <2>5. UNCHANGED <<pc, token, requests, mmu>>
    BY <2>1 DEF MasterRemoveSems, procVars, queueVars, mmuVars
  <2>. QED
    BY <1>3, <2>3, <2>4, <2>5
<1>5. CASE semsRemoved
  <2>1. Calm
    BY <1>2, <1>5 DEF Quiet
  <2>2. CASE Master
    BY <1>2, <1>5, <2>2 DEF Master, MasterAllot, MasterFork, MasterWait, MasterRemoveSems,
                            MasterRemoveQueues, Stages, Removals, InOrder
  <2>3. CASE Scheduler
    BY <1>3, <2>1, <2>3 DEF Scheduler, SchedDispatch, SchedRequeue, SchedTerminate, SchedSignal,
                            procVars, mmuVars, queueVars
  <2>4. CASE Mmu
    <3>1. ~ \E r \in Request : MmuEnd(r) \/ MmuInvalid(r) \/ MmuHit(r) \/ MmuFault(r)
      BY <2>1 DEF MmuEnd, MmuInvalid, MmuHit, MmuFault, Receive
    <3>2. mmu \notin {"notify_end", "notify_invalid", "notify_loaded", "reply_frame", "reply_fault"}
      BY <2>1 DEF Busy, One
    <3>3. CASE MmuReplyInvalid
      <4>1. Reply("invalid", "loop") /\ Owed = 1
        BY <3>3 DEF MmuReplyInvalid, Owed, One
      <4>2. \/ UNCHANGED pc
            \/ /\ cur.pid \in Proc /\ pc[cur.pid] = "waiting"
               /\ pc' = [pc EXCEPT ![cur.pid] = "answered"]
        BY <1>2, <4>1, ReplyGoesHome DEF Verdict
      <4>3. UNCHANGED <<token, requests>> /\ mmu' = "loop"
        BY <4>1 DEF Reply
      <4>4. \A p \in Proc : Ends(p)'
        BY <1>1, <2>1, <4>2, <4>3 DEF Ends, HasExited, ProgramTypes, ProcTypes
      <4>. QED
        BY <2>1, <4>3, <4>4 DEF Busy, One
    <3>4. CASE MmuReport
      <4>1. UNCHANGED <<pc, token, requests>> /\ mmu' = "reported"
        BY <3>4 DEF MmuReport, procVars, queueVars
      <4>. QED
        BY <1>1, <2>1, <4>1 DEF Ends, HasExited, Busy, One
    <3>. QED
      BY <1>2, <2>4, <3>1, <3>2, <3>3, <3>4
         DEF Mmu, MmuNotifyEnd, MmuNotifyInvalid, MmuNotifyLoaded, MmuReplyFrame, MmuReplyFault, MmuFail, InOrder
  <2>5. ASSUME NEW p \in Proc, Process(p)
        PROVE  Calm'
    <3>1. CASE ProcStart(p) \/ ProcScheduled(p) \/ ProcAnswered(p)
      <4>1. Ended' = Ended
        BY <1>1, <1>2, <3>1, EndsUnchanged
      <4>2. UNCHANGED <<requests, mmu>>
        BY <3>1 DEF ProcStart, ProcScheduled, ProcAnswered, mmuVars, queueVars
      <4>. QED
        BY <2>1, <4>1, <4>2 DEF Ended, Busy
    <3>2. CASE ProcReceive(p)
      <4>1. /\ pc[p] = "recv" /\ UNCHANGED <<token, requests>>
            /\ \E a \in {"waiting", "answered"} : pc' = [pc EXCEPT ![p] = a]
        BY <1>2, <3>2, ReceiveInTurn
      <4>2. mmu' = mmu
        BY <3>2 DEF ProcReceive, mmuVars
      <4>3. \A q \in Proc : Ends(q)'
        BY <1>1, <2>1, <4>1 DEF Ends, HasExited, ProgramTypes, ProcTypes
      <4>. QED
        BY <2>1, <4>1, <4>2, <4>3 DEF Busy
    <3>3. CASE ProcSend(p) \/ ProcComplete(p)
      BY <2>1, <3>3 DEF ProcSend, ProcComplete, Ends, HasExited
    <3>. QED
      BY <2>5, <3>1, <3>2, <3>3 DEF Process
  <2>6. CASE UNCHANGED vars
    BY <1>3, <2>1, <2>6 DEF vars, procVars, mmuVars, queueVars
  <2>. QED
    BY <2>2, <2>3, <2>4, <2>5, <2>6 DEF Next, Finished
<1>. QED
  BY <1>4, <1>5

LEMMA InitOInv == Init => OInv
<1>. SUFFICES ASSUME Init
              PROVE  OInv
  OBVIOUS
<1>1. IInv
  BY InitInv
<1>2. OneOrder /\ VerdictTrue
  <2>1. Owed = 0 /\ Pending = 0 /\ Len(waiters) = 0 /\ Len(asked) = 0 /\ Len(replies) = 0
    BY DEF Init, Owed, Pending, One
  <2>. QED
    BY <2>1 DEF Init, OneOrder, VerdictTrue
<1>3. RightUnlessOvertaken /\ Quiet
  BY DEF Init, RightUnlessOvertaken, RightAnswer, Quiet
<1>4. EndsCounted
  <2>1. Count(msq2, EndNotices) = 0
    BY <1>1, CountBounds DEF Init, IInv, ProgramTypes, QueueTypes
  <2>2. Count(requests, LastRequests) = 0
    BY <1>1, CountBounds DEF Init, IInv, ProgramTypes, QueueTypes
  <2>3. Ended = {}
    BY DEF Init, Ended, Ends, HasExited
  <2>4. terminated = 0 /\ Ending = 0 /\ Cardinality(Ended) = 0
    BY <2>3, FS_EmptySet DEF Init, Ending, One
  <2>. QED
    BY <2>1, <2>2, <2>4 DEF EndsCounted
<1>. QED
  BY <1>2, <1>3, <1>4 DEF OInv

LEMMA StepOInv == IInv /\ PInv /\ OInv /\ [Next]_vars => OInv'
<1>. SUFFICES ASSUME IInv, PInv, OInv, [Next]_vars
              PROVE  OInv'
  OBVIOUS
<1>. QED
  BY OneOrderKept, VerdictTrueKept, RightAnswerKept, EndsCountedKept, QuietKept DEF OInv

LEMMA OrderInvariance == Spec => [](IInv /\ PInv /\ OInv)
<1>1. IInv /\ PInv /\ OInv /\ [Next]_vars => (IInv /\ PInv /\ OInv)'
  BY StepInv, StepPInv, StepOInv
<1>. QED
  BY <1>1, InitInv, InitPInv, InitOInv, PTL DEF Spec

--------------------------------------------------------------------------------
(* Theorems *)

(* Every variable has its type: no queue carries a message its receiver does not  *)
(* understand, and no more frames are free than there are.                         *)
THEOREM TypeOKAlways == Spec => []TypeOK
<1>1. IInv /\ PInv /\ OInv => TypeOK
  BY DEF IInv, PInv, TypeOK
<1>. QED
  BY <1>1, OrderInvariance, PTL

(* The scheduler, the semaphores and the notices of the MMU let one process run at *)
(* a time, however slow the processes are to receive.                              *)
THEOREM OneCpuAlways == Spec => []OneCpu
<1>1. IInv => OneCpu
  BY DEF IInv
<1>. QED
  BY <1>1, Invariance, PTL

(* No answer of the MMU is lost and none is sent twice, whoever gets it.           *)
THEOREM OneAnswerPerRequestAlways == Spec => []OneAnswerPerRequest
<1>1. IInv => OneAnswerPerRequest
  BY DEF IInv
<1>. QED
  BY <1>1, Invariance, PTL

(* Every process gets the answers to its own requests and no other, until one is   *)
(* overtaken between its msgsnd and its msgrcv.                                    *)
THEOREM RightUnlessOvertakenAlways == Spec => []RightUnlessOvertaken
<1>1. IInv /\ PInv /\ OInv => RightUnlessOvertaken
  BY DEF OInv
<1>. QED
  BY <1>1, OrderInvariance, PTL

(* Whoever has been overtaken, a process that tries again after a page fault finds *)
(* the page, unless it holds no frame: the CPU is its own until its request is      *)
(* served, and no other process takes its frames.                                   *)
THEOREM RetryFindsPageAlways == Spec => []RetryFindsPage
<1>1. IInv /\ PInv /\ OInv => RetryFindsPage
  <2>. SUFFICES ASSUME IInv, PInv, NEW p \in Proc, pc[p] = "send", token[p] # NoToken,
                       ~ semsRemoved, resident[p] # <<>>
                PROVE  Last(resident[p]) = token[p]
    BY DEF RetryFindsPage
  <2>1. requests = <<>> /\ Busy = 0
    BY OneAtATime DEF Running, Busy, One
  <2>2. ~ Asks(p) /\ ~ IsServed(p)
    BY <2>1 DEF Asks, IsServed, Busy, One
  <2>. QED
    BY <2>2 DEF PInv, Recent
<1>. QED
  BY <1>1, OrderInvariance, PTL

(* Master removes the semaphores and the queues only when every process has sent   *)
(* its last request, unless one was overtaken between its msgsnd and its msgrcv.    *)
THEOREM CleanupUnlessOvertakenAlways == Spec => []CleanupUnlessOvertaken
<1>1. IInv /\ PInv /\ OInv => CleanupUnlessOvertaken
  <2>. SUFFICES ASSUME IInv, PInv, OInv, ~ overtaken, master \in {"rm_sems", "rm_queues"}
                PROVE  \A p \in Proc : Ends(p)
    BY DEF CleanupUnlessOvertaken, CleanupAfterLastRequest, Ends
  <2>1. InOrder
    BY DEF IInv, Stages, Removals, InOrder
  <2>2. CASE master = "rm_sems"
    <3>1. terminated >= K
      BY <2>2 DEF PInv, DoneAtK
    <3>. QED
      BY <2>1, <3>1, AllEnded DEF OInv
  <2>3. CASE master = "rm_queues"
    BY <2>1, <2>3 DEF IInv, Stages, Removals, OInv, Quiet
  <2>. QED
    BY <2>2, <2>3
<1>. QED
  BY <1>1, OrderInvariance, PTL

================================================================================
