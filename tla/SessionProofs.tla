--------------------------- MODULE SessionProofs ----------------------------
(***************************************************************************)
(* Proofs about A6, for any files of events, any quotas and any number of  *)
(* visitors: the invariant of the hand-shakes between the assistant, the   *)
(* doctor and the visitors; the loops of the heap, which stop, rearrange   *)
(* the queue and bring its order about; one lemma for each step of a       *)
(* thread; the properties; and the heap as a bag with a least event.       *)
(***************************************************************************)
EXTENDS Session, FiniteSetTheorems, FunctionTheorems, WellFoundedInduction, TLAPS

----------------------------------------------------------------------------
(* The inductive invariant.                                                 *)

Arrivals(Q) == {i \in DOMAIN Q : Q[i].type # "D"}
One(p) == IF p THEN 1 ELSE 0

Asleep == {"test", "doze", "asleep"}       \* she waits for asst_done
\* A thread has been made for the visitor who came, who is not counted yet.
Fresh == at[Asst] = "admit" \/ (after = "admit" /\ at[Asst] \in Asleep)
\* The doctor has been woken for a visit that is not over.
Waking == after = "call" /\ at[Asst] \in Asleep
Meeting == at[Asst] \in {"barrier", "barred"}
Visiting == Waking \/ at[Asst] = "call" \/ Meeting
\* The visitor of the turn is counted, its event not yet deleted.
Counted == part = "arrival" /\ (Visiting \/ at[Asst] \in {"attend", "note", "turn"})
In == {"inside", "barrier", "barred"}
Untold == {"new", "lock", "tell"}
Outsiders(t) == {k \in DOMAIN thr : thr[k].type = t /\ at[k] \in Outside}
AllNum == num["R"] + num["P"] + num["S"]
Nobody == \A t \in Kinds : waiting[t] = 0

QueueRange ==
  /\ E \in Seq(Event)
  /\ next \in [type : Types \union {"E"}, time : Int, duration : Nat]
CounterRange ==
  /\ num \in [Kinds -> Nat] /\ waiting \in [Kinds -> Nat]
  /\ served \in [{"P", "S"} -> Nat] /\ num_visitors \in Nat
  /\ current_time \in Nat /\ done_time \in Nat /\ count \in Nat
FlagRange ==
  /\ doc_arrived \in {0, 1, 2} /\ after \in {"admit", "call"}
  /\ part \in {"arrival", "queue", "final"} /\ doc_session_done \in BOOLEAN
  /\ asst_done \in BOOLEAN /\ doc_done \in BOOLEAN /\ called \in [Kinds -> BOOLEAN]
ThreadRange ==
  /\ visitor_infos \in [0 .. N -> Nat]
  /\ thr \in Seq([type : Kinds, arg : 0 .. N, duration : Nat, came : Int])
  /\ Len(thr) <= N
Ranges == QueueRange /\ CounterRange /\ FlagRange /\ ThreadRange
Places ==
  /\ at \in [People -> AsstPlaces \union DoctorPlaces \union VisitorPlaces]
  /\ at[Asst] \in AsstPlaces /\ at[Doctor] \in DoctorPlaces
  /\ \A k \in Visitors : at[k] \in VisitorPlaces /\ (at[k] = "unborn" <=> k > Len(thr))

\* Where the doctor can be while the assistant is where she is.
DoctorFollows ==
  /\ Waking =>
       \/ at[Doctor] = "wait" /\ doc_done /\ ~asst_done
       \/ at[Doctor] \in {"woken", "tell"} /\ ~doc_done /\ ~asst_done
       \/ at[Doctor] \in {"ring", "barrier", "barred"} /\ ~doc_done /\ asst_done
  /\ at[Asst] = "call" \/ Meeting =>
       at[Doctor] \in {"ring", "barrier", "barred"} /\ ~doc_done /\ ~asst_done
  /\ at[Asst] = "join" =>
       /\ ~asst_done /\ doc_session_done
       /\ \/ at[Doctor] = "wait" /\ doc_done
          \/ at[Doctor] = "woken" /\ ~doc_done
          \/ at[Doctor] = "gone"
  /\ ~Visiting /\ at[Asst] # "join" =>
       \/ at[Doctor] \in {"wait", "asleep"} /\ ~doc_done
       \/ at[Doctor] = "gone"
  /\ ~Visiting /\ ~Fresh => ~asst_done
  /\ at[Doctor] = "gone" => doc_session_done

\* A thread has told the assistant it is there before anything else happens;
\* one at most has been called, or is inside or at the barrier.
VisitorsFollow ==
  /\ \A k \in DOMAIN thr : at[k] \in Untold => Fresh /\ k = Len(thr) /\ at[Asst] \in Asleep
  /\ Fresh => /\ Len(thr) > 0 /\ thr[Len(thr)].type = next.type
              /\ at[Len(thr)] \in Outside
              /\ asst_done <=> at[Asst] \in Asleep /\ at[Len(thr)] \notin Untold
  /\ \A k \in DOMAIN thr : at[k] \in In => Meeting /\ \A t \in Kinds : ~called[t]
  /\ \A j, k \in DOMAIN thr : at[j] \in In /\ at[k] \in In => j = k
  /\ \A s, t \in Kinds : called[t] => Meeting /\ (called[s] => s = t)
BarrierCounts ==
  /\ count = One(at[Asst] = "barred") + One(at[Doctor] = "barred")
               + One(\E k \in DOMAIN thr : at[k] = "barred")
  /\ count < 3
WaitingExact ==
  \A t \in Kinds :
    Cardinality(Outsiders(t)) = waiting[t] + One(called[t]) + One(Fresh /\ next.type = t)

\* Until the session is over nobody is admitted beyond his quota; reporters
\* go first, so that nobody waits when the quotas are full.
QuotasKept ==
  /\ ~doc_session_done =>
       \A t \in {"P", "S"} : served[t] + waiting[t] <= Quota[t] /\ served[t] + waiting[t] <= num[t]
  /\ doc_session_done =>
       /\ Nobody
       /\ part # "final" =>
            \A t \in {"P", "S"} : served[t] = Quota[t] + 1 /\ Quota[t] <= num[t]
  /\ \A t \in {"P", "S"} : served[t] <= Quota[t] + 1
  /\ Fresh /\ next.type # "R" => num[next.type] < Quota[next.type]
  /\ (\A t \in {"P", "S"} : served[t] = Quota[t]) /\ ~doc_session_done =>
       /\ waiting["R"] = 0
       /\ at[Asst] \in {"barrier", "barred", "note", "attend", "turn", "look", "dismiss"}
\* What the assistant is about follows from the part of the loop she is in.
PartsKnown ==
  /\ Fresh \/ at[Asst] \in {"deal", "turn"} => part = "arrival"
  /\ at[Asst] = "idle" => part = "queue" /\ (Nobody \/ next.time <= current_time)
  /\ at[Asst] = "dismiss" => Nobody /\ (doc_session_done \/ part = "final")
  /\ Fresh \/ Visiting \/ Counted \/ at[Asst] = "note" => ~doc_session_done
  /\ Waking \/ at[Asst] = "call" => ~Nobody
  /\ at[Asst] = "look" => part # "final"
  /\ at[Asst] = "over" => part = "final" /\ at[Doctor] = "gone"
  /\ part # "final" /\ at[Asst] # "look" => next \in Event

\* The event she deals with stays at the head until she deletes it.
HeadKept ==
  /\ part = "arrival" /\ at[Asst] # "look" => E # << >> /\ E[1] = next
  /\ Fresh \/ Counted => next.type # "D" /\ next.time <= current_time
  /\ \A i \in Arrivals(E) : E[i].duration > 0
  /\ part = "final" => Arrivals(E) = {}
\* No more threads are made than there are arrivals in the file.
ArrivalsCounted ==
  /\ AllNum + Cardinality(Arrivals(E)) <= N + One(Counted)
  /\ Len(thr) <= AllNum + One(Fresh)
  /\ num_visitors + One(Fresh \/ Counted) <= Len(thr)

InfoRight ==
  \A k \in DOMAIN thr :
    /\ at[k] = "new" => visitor_infos[thr[k].arg] = next.duration
    /\ at[k] # "new" => thr[k].duration > 0
    /\ thr[k].came <= current_time
RankKept ==
  \A s, t \in Kinds : called[t] /\ Rank[s] < Rank[t] => waiting[s] = 0

IInv ==
  /\ Ranges /\ Places
  /\ DoctorFollows /\ VisitorsFollow /\ BarrierCounts /\ WaitingExact
  /\ QuotasKept /\ PartsKnown
  /\ HeadKept /\ ArrivalsCounted /\ InfoRight /\ RankKept

----------------------------------------------------------------------------
(* Recursion.                                                               *)

\* A nonempty set of numbers has a least one.
LEMMA Least ==
  ASSUME NEW K \in SUBSET Nat, K # {}
  PROVE  \E k \in K : \A j \in K : k <= j
<1>1. PICK k \in K : \A j \in K : ~(<<j, k>> \in OpToRel(<, Nat))
  BY NatLessThanWellFounded, WFMin, Zenon
<1>2. ASSUME NEW j \in K PROVE k <= j
  <2>1. ~(j < k)
    <3>. SUFFICES ASSUME j < k PROVE <<j, k>> \in OpToRel(<, Nat)
      BY <1>1
    <3>. DEFINE p == <<j, k>>
    <3>1. p \in Nat \X Nat /\ p[1] < p[2]
      OBVIOUS
    <3>. QED
      BY <3>1, Zenon DEF OpToRel
  <2>. QED
    BY <2>1
<1>. QED
  BY <1>2

\* A function defined by recursion exists if each call is of a lesser size: it
\* is defined up to every size, in one way only, and so altogether.
Falls(S, V, rest, value, to, op, size) ==
  /\ rest \in SUBSET S /\ value \in [S -> V] /\ to \in [S -> S]
  /\ op \in [S \X V -> V] /\ size \in [S -> Nat]
  /\ \A s \in S : s \notin rest => size[to[s]] < size[s]
Solves(f, S, V, rest, value, to, op) ==
  /\ f \in [S -> V]
  /\ \A s \in S : f[s] = IF s \in rest THEN value[s] ELSE op[<<s, f[to[s]]>>]

\* If every call is of a lesser size than its caller, the recursion has a solution,
\* and a solution is what CHOOSE picks.
LEMMA RecursionDefines ==
  ASSUME NEW S, NEW V, NEW rest, NEW value, NEW to, NEW op, NEW size,
         Falls(S, V, rest, value, to, op, size)
  PROVE  \E f : Solves(f, S, V, rest, value, to, op)
<1>. USE DEF Falls
<1>. DEFINE step(s, h) == IF s \in rest THEN value[s] ELSE op[<<s, h[to[s]]>>]
            Upto(k, h) == \A s \in S : size[s] <= k => h[s] = step(s, h)
            H(k) == CHOOSE h \in [S -> V] : Upto(k, h)
            f == [s \in S |-> H(size[s])[s]]
<1>1. ASSUME NEW s \in S, NEW h \in [S -> V] PROVE step(s, h) \in V
  <2>1. to[s] \in S /\ h[to[s]] \in V
    OBVIOUS
  <2>2. <<s, h[to[s]]>> \in S \X V
    BY <2>1
  <2>. QED
    BY <2>2
<1>2. ASSUME NEW k \in Nat, NEW h \in [S -> V], NEW g \in [S -> V], Upto(k, h), Upto(k, g)
      PROVE  \A s \in S : size[s] <= k => h[s] = g[s]
  <2>. DEFINE K == {j \in Nat : \E s \in S : size[s] = j /\ j <= k /\ h[s] # g[s]}
  <2>. SUFFICES ASSUME K # {} PROVE FALSE
    OBVIOUS
  <2>1. PICK j \in K : \A i \in K : j <= i
    <3>. HIDE DEF K
    <3>1. K \in SUBSET Nat
      BY DEF K
    <3>. QED
      BY <3>1, Least
  <2>2. PICK s \in S : size[s] = j /\ j <= k /\ h[s] # g[s]
    OBVIOUS
  <2>3. s \notin rest
    BY <1>2, <2>2
  <2>4. to[s] \in S /\ size[to[s]] \in Nat /\ size[to[s]] < j
    BY <2>2, <2>3
  <2>5. h[to[s]] = g[to[s]]
    <3>1. size[to[s]] \notin K
      BY <2>1, <2>4
    <3>2. size[to[s]] <= k
      BY <2>2, <2>4
    <3>. QED
      BY <2>4, <3>1, <3>2
  <2>6. h[s] = op[<<s, h[to[s]]>>] /\ g[s] = op[<<s, g[to[s]]>>]
    BY <1>2, <2>2, <2>3
  <2>. QED
    BY <2>2, <2>5, <2>6
<1>. HIDE DEF step
<1>3. \E h \in [S -> V] : Upto(0, h)
  <2>1. CASE S = {}
    <3>. DEFINE h == [s \in S |-> value[s]]
    <3>1. h \in [S -> V] /\ Upto(0, h)
      BY <2>1
    <3>. QED
      BY <3>1
  <2>2. CASE S # {}
    <3>1. \A s \in S : size[s] <= 0 => s \in rest
      <4>. SUFFICES ASSUME NEW s \in S, size[s] <= 0, s \notin rest PROVE FALSE
        OBVIOUS
      <4>1. to[s] \in S /\ size[to[s]] < size[s] /\ size[to[s]] \in Nat /\ size[s] \in Nat
        OBVIOUS
      <4>. QED
        BY <4>1
    <3>2. Upto(0, value)
      BY <3>1 DEF step
    <3>. QED
      BY <3>2
  <2>. QED
    BY <2>1, <2>2
<1>4. ASSUME NEW k \in Nat, NEW h \in [S -> V], Upto(k, h)
      PROVE  \E g \in [S -> V] : Upto(k + 1, g)
  <2>. DEFINE g == [s \in S |-> step(s, h)]
  <2>1. g \in [S -> V]
    BY <1>1
  <2>2. ASSUME NEW s \in S, size[s] <= k + 1 PROVE g[s] = step(s, g)
    <3>1. CASE s \in rest
      BY <3>1 DEF step
    <3>2. CASE s \notin rest
      <4>1. to[s] \in S /\ size[to[s]] \in Nat /\ size[to[s]] < size[s] /\ size[s] \in Nat
        BY <3>2
      <4>2. size[to[s]] <= k
        BY <2>2, <4>1
      <4>3. h[to[s]] = step(to[s], h)
        BY <1>4, <4>1, <4>2
      <4>4. g[to[s]] = h[to[s]]
        BY <4>1, <4>3
      <4>5. step(s, g) = step(s, h)
        BY <3>2, <4>4 DEF step
      <4>. QED
        BY <4>5
    <3>. QED
      BY <3>1, <3>2
  <2>. QED
    BY <2>1, <2>2
<1>5. \A k \in Nat : \E h \in [S -> V] : Upto(k, h)
  <2>. DEFINE K == {k \in Nat : ~\E h \in [S -> V] : Upto(k, h)}
  <2>. HIDE DEF Upto
  <2>. SUFFICES ASSUME K # {} PROVE FALSE
    OBVIOUS
  <2>1. PICK k \in K : \A j \in K : k <= j
    <3>1. K \in SUBSET Nat
      OBVIOUS
    <3>. HIDE DEF K
    <3>. QED
      BY <3>1, Least
  <2>2. k \in Nat /\ k # 0
    BY <1>3
  <2>3. k - 1 \in Nat /\ k - 1 \notin K
    BY <2>1, <2>2
  <2>4. PICK h \in [S -> V] : Upto(k - 1, h)
    BY <2>3
  <2>5. \E g \in [S -> V] : Upto((k - 1) + 1, g)
    BY <1>4, <2>3, <2>4
  <2>6. (k - 1) + 1 = k
    BY <2>2
  <2>. QED
    BY <2>5, <2>6
<1>6. \A k \in Nat : H(k) \in [S -> V] /\ Upto(k, H(k))
  <2>. HIDE DEF Upto
  <2>. SUFFICES ASSUME NEW k \in Nat PROVE H(k) \in [S -> V] /\ Upto(k, H(k))
    OBVIOUS
  <2>1. \E h \in [S -> V] : Upto(k, h)
    BY <1>5
  <2>. QED
    BY <2>1
<1>. HIDE DEF H
<1>7. ASSUME NEW s \in S PROVE f[s] = step(s, f)
  <2>1. size[s] \in Nat /\ H(size[s])[s] = step(s, H(size[s]))
    BY <1>6
  <2>2. CASE s \in rest
    BY <2>1, <2>2 DEF step
  <2>3. CASE s \notin rest
    <3>1. to[s] \in S /\ size[to[s]] \in Nat /\ size[to[s]] < size[s]
      BY <2>3
    <3>2. Upto(size[to[s]], H(size[s]))
      BY <1>6, <2>1, <3>1
    <3>3. H(size[to[s]])[to[s]] = H(size[s])[to[s]]
      <4>. HIDE DEF Upto
      <4>1. size[to[s]] <= size[to[s]]
        BY <3>1
      <4>. QED
        BY <1>2, <1>6, <2>1, <3>1, <3>2, <4>1
    <3>4. step(s, f) = step(s, H(size[s]))
      BY <2>3, <3>1, <3>3 DEF step
    <3>. QED
      BY <2>1, <3>4
  <2>. QED
    BY <2>2, <2>3
<1>8. f \in [S -> V]
  <2>1. \A s \in S : H(size[s])[s] \in V
    BY <1>6
  <2>. QED
    BY <2>1
<1>. HIDE DEF f
<1>9. Solves(f, S, V, rest, value, to, op)
  BY <1>7, <1>8 DEF step, Solves
<1>. QED
  BY <1>9

----------------------------------------------------------------------------
(* The loops of the heap.                                                   *)

\* R has the events of Q, in another order perhaps.
Rearranges(R, Q) ==
  /\ R \in Seq(Event) /\ Len(R) = Len(Q)
  /\ \E p \in Bijection(1 .. Len(Q), 1 .. Len(Q)) : \A i \in 1 .. Len(Q) : R[i] = Q[p[i]]

\* A queue is a rearrangement of itself.
LEMMA RearrangesItself ==
  ASSUME NEW Q \in Seq(Event)
  PROVE  Rearranges(Q, Q)
<1>. DEFINE p == [i \in 1 .. Len(Q) |-> i]
<1>1. p \in Bijection(1 .. Len(Q), 1 .. Len(Q))
  BY DEF Bijection, Injection, Surjection, IsInjective
<1>2. \A i \in 1 .. Len(Q) : Q[i] = Q[p[i]]
  OBVIOUS
<1>. HIDE DEF p
<1>. QED
  BY <1>1, <1>2 DEF Rearranges

\* Rearranging twice is rearranging.
LEMMA RearrangesTwice ==
  ASSUME NEW Q \in Seq(Event), NEW R \in Seq(Event), NEW T \in Seq(Event),
         Rearranges(R, Q), Rearranges(T, R)
  PROVE  Rearranges(T, Q)
<1>. DEFINE D == 1 .. Len(Q)
<1>1. Len(R) = Len(Q) /\ Len(T) = Len(Q)
  BY DEF Rearranges
<1>2. PICK p \in Bijection(D, D) : \A i \in D : R[i] = Q[p[i]]
  BY DEF Rearranges
<1>3. PICK q \in Bijection(D, D) : \A i \in D : T[i] = R[q[i]]
  BY <1>1 DEF Rearranges
<1>. DEFINE r == [i \in D |-> p[q[i]]]
<1>. HIDE DEF D
<1>4. p \in [D -> D] /\ q \in [D -> D]
  BY <1>2, <1>3 DEF Bijection, Injection
<1>5. r \in Bijection(D, D)
  <2>1. r \in [D -> D]
    BY <1>4
  <2>2. \A i, j \in D : p[i] = p[j] => i = j
    BY <1>2 DEF Bijection, Injection, IsInjective
  <2>3. \A i, j \in D : q[i] = q[j] => i = j
    BY <1>3 DEF Bijection, Injection, IsInjective
  <2>4. \A i, j \in D : r[i] = r[j] => i = j
    BY <1>4, <2>2, <2>3
  <2>5. \A k \in D : \E i \in D : p[i] = k
    BY <1>2 DEF Bijection, Surjection
  <2>6. \A k \in D : \E i \in D : q[i] = k
    BY <1>3 DEF Bijection, Surjection
  <2>7. \A k \in D : \E i \in D : r[i] = k
    BY <1>4, <2>5, <2>6
  <2>. QED
    BY <2>1, <2>4, <2>7 DEF Bijection, Injection, Surjection, IsInjective
<1>6. \A i \in D : T[i] = Q[r[i]]
  BY <1>2, <1>3, <1>4
<1>. HIDE DEF r
<1>. QED
  BY <1>1, <1>5, <1>6 DEF Rearranges, D

\* The one step of both loops, an exchange of two events, rearranges.
LEMMA SwapRearranges ==
  ASSUME NEW Q \in Seq(Event), NEW i \in 1 .. Len(Q), NEW j \in 1 .. Len(Q)
  PROVE  Rearranges(Swap(Q, i, j), Q)
<1>. DEFINE D == 1 .. Len(Q)
            p == [k \in D |-> IF k = i THEN j ELSE IF k = j THEN i ELSE k]
<1>1. Swap(Q, i, j) \in Seq(Event) /\ Len(Swap(Q, i, j)) = Len(Q)
  BY DEF Swap
<1>2. p \in Bijection(D, D)
  <2>1. p \in [D -> D]
    OBVIOUS
  <2>2. \A k, l \in D : p[k] = p[l] => k = l
    OBVIOUS
  <2>3. \A k \in D : p[p[k]] = k /\ p[k] \in D
    OBVIOUS
  <2>. HIDE DEF p
  <2>. QED
    BY <2>1, <2>2, <2>3 DEF Bijection, Injection, Surjection, IsInjective
<1>3. \A k \in D : Swap(Q, i, j)[k] = Q[p[k]]
  BY DEF Swap
<1>. HIDE DEF p
<1>. QED
  BY <1>1, <1>2, <1>3 DEF Rearranges

States == Seq(Event) \X Nat
DownRests(Q, i) == 2 * i \notin 2 .. Len(Q) \/ Precedes(Q[i], Q[LesserChild(Q, i)])
UpRests(Q, i) == i \notin 2 .. Len(Q) \/ Precedes(Q[i \div 2], Q[i])

\* The loop down goes on inside the queue, to a greater position.
LEMMA ChildInside ==
  ASSUME NEW Q \in Seq(Event), NEW i \in Nat, ~DownRests(Q, i)
  PROVE  LesserChild(Q, i) \in 1 .. Len(Q) /\ i \in 1 .. Len(Q) /\ i < LesserChild(Q, i)
<1>1. 2 * i \in 2 .. Len(Q) /\ Len(Q) \in Nat
  BY DEF DownRests
<1>2. LesserChild(Q, i) = 2 * i \/ (2 * i # Len(Q) /\ LesserChild(Q, i) = 2 * i + 1)
  BY DEF LesserChild
<1>. QED
  BY <1>1, <1>2

\* The loop up goes on inside the queue, to a lesser position.
LEMMA ParentInside ==
  ASSUME NEW Q \in Seq(Event), NEW i \in Nat, ~UpRests(Q, i)
  PROVE  i \div 2 \in 1 .. Len(Q) /\ i \in 1 .. Len(Q) /\ i \div 2 < i
BY DEF UpRests

\* The loop down stops after finitely many exchanges: its definition may be unfolded.
LEMMA SiftDownUnfolds ==
  \A Q \in Seq(Event), i \in Nat :
    SiftDown[<<Q, i>>] =
      IF DownRests(Q, i) THEN Q
      ELSE SiftDown[<<Swap(Q, i, LesserChild(Q, i)), LesserChild(Q, i)>>]
<1>. DEFINE rest == {s \in States : DownRests(s[1], s[2])}
            value == [s \in States |-> s[1]]
            to == [s \in States |->
                     IF s \in rest THEN s
                     ELSE <<Swap(s[1], s[2], LesserChild(s[1], s[2])), LesserChild(s[1], s[2])>>]
            op == [x \in States \X Seq(Event) |-> x[2]]
            size == [s \in States |-> IF s[2] <= Len(s[1]) THEN Len(s[1]) - s[2] ELSE 0]
<1>1. /\ rest \in SUBSET States /\ value \in [States -> Seq(Event)]
      /\ op \in [States \X Seq(Event) -> Seq(Event)] /\ size \in [States -> Nat]
  BY DEF States, DownRests
<1>2. ASSUME NEW s \in States, s \notin rest
      PROVE  /\ <<Swap(s[1], s[2], LesserChild(s[1], s[2])), LesserChild(s[1], s[2])>> \in States
             /\ size[<<Swap(s[1], s[2], LesserChild(s[1], s[2])), LesserChild(s[1], s[2])>>] < size[s]
  <2>. DEFINE Q == s[1]
              i == s[2]
              m == LesserChild(Q, i)
  <2>1. Q \in Seq(Event) /\ i \in Nat /\ ~DownRests(Q, i)
    BY <1>2 DEF States
  <2>2. m \in 1 .. Len(Q) /\ i \in 1 .. Len(Q) /\ i < m
    BY <2>1, ChildInside
  <2>3. Swap(Q, i, m) \in Seq(Event) /\ Len(Swap(Q, i, m)) = Len(Q) /\ Len(Q) \in Nat
    BY <2>1, <2>2, SwapRearranges DEF Rearranges
  <2>. HIDE DEF m
  <2>4. <<Swap(Q, i, m), m>> \in States
    BY <2>2, <2>3 DEF States
  <2>. QED
    BY <2>1, <2>2, <2>3, <2>4 DEF m
<1>3. to \in [States -> States] /\ \A s \in States : s \notin rest => size[to[s]] < size[s]
  <2>. HIDE DEF rest, size
  <2>. QED
    BY <1>2
<1>. HIDE DEF rest, to, size, value, op
<1>4. Falls(States, Seq(Event), rest, value, to, op, size)
  BY <1>1, <1>3 DEF Falls
<1>40. PICK f : Solves(f, States, Seq(Event), rest, value, to, op)
  BY <1>4, RecursionDefines
<1>41. /\ f \in [States -> Seq(Event)]
      /\ \A s \in States : f[s] = IF s \in rest THEN value[s] ELSE op[<<s, f[to[s]]>>]
  BY <1>40 DEF Solves
<1>. DEFINE body(s, g) == IF 2 * s[2] \notin 2 .. Len(s[1]) \/ Precedes(s[1][s[2]], s[1][LesserChild(s[1], s[2])])
                          THEN s[1]
                          ELSE g[<<Swap(s[1], s[2], LesserChild(s[1], s[2])), LesserChild(s[1], s[2])>>]
<1>5. \A s \in States : f[s] = body(s, f)
  <2>. SUFFICES ASSUME NEW s \in States PROVE f[s] = body(s, f)
    OBVIOUS
  <2>1. CASE s \in rest
    <3>1. f[s] = s[1] /\ DownRests(s[1], s[2])
      BY <1>41, <2>1 DEF rest, value
    <3>. QED
      BY <3>1 DEF DownRests
  <2>2. CASE s \notin rest
    <3>1. to[s] \in States /\ f[to[s]] \in Seq(Event)
      BY <1>3, <1>41
    <3>2. f[s] = f[to[s]] /\ ~DownRests(s[1], s[2])
      BY <1>41, <2>2, <3>1 DEF rest, op
    <3>3. to[s] = <<Swap(s[1], s[2], LesserChild(s[1], s[2])), LesserChild(s[1], s[2])>>
      BY <2>2 DEF to
    <3>. QED
      BY <3>2, <3>3 DEF DownRests
  <2>. QED
    BY <2>1, <2>2
<1>6. f = [s \in Seq(Event) \X Nat |-> body(s, f)]
  <2>. HIDE DEF body, rest, to, size, value, op
  <2>. QED
    BY <1>5, <1>41 DEF States
<1>7. SiftDown = [s \in Seq(Event) \X Nat |-> body(s, SiftDown)]
  <2>. HIDE DEF rest, to, size, value, op
  <2>. QED
    BY <1>6, Zenon DEF SiftDown, body
<1>. HIDE DEF rest, to, size, value, op
<1>8. ASSUME NEW Q \in Seq(Event), NEW i \in Nat
      PROVE  SiftDown[<<Q, i>>] = body(<<Q, i>>, SiftDown)
  <2>. DEFINE s == <<Q, i>>
  <2>1. s \in Seq(Event) \X Nat
    OBVIOUS
  <2>. HIDE DEF s, body
  <2>2. SiftDown[s] = body(s, SiftDown)
    BY <1>7, <2>1, Zenon
  <2>. QED
    BY <2>2 DEF s
<1>9. ASSUME NEW Q \in Seq(Event), NEW i \in Nat
      PROVE  body(<<Q, i>>, SiftDown) =
               IF DownRests(Q, i) THEN Q
               ELSE SiftDown[<<Swap(Q, i, LesserChild(Q, i)), LesserChild(Q, i)>>]
  BY DEF DownRests
<1>. HIDE DEF body
<1>. QED
  BY <1>8, <1>9

\* The loop down rearranges the queue.
LEMMA SiftDownRearranges ==
  ASSUME NEW Q \in Seq(Event), NEW i \in Nat
  PROVE  Rearranges(SiftDown[<<Q, i>>], Q)
<1>. DEFINE Left(R, j) == IF j <= Len(R) THEN Len(R) - j ELSE 0
            K == {n \in Nat : \E R \in Seq(Event), j \in Nat :
                                n = Left(R, j) /\ ~Rearranges(SiftDown[<<R, j>>], R)}
<1>1. \A R \in Seq(Event), j \in Nat : Left(R, j) \in Nat
  OBVIOUS
<1>2. K = {}
  <2>. SUFFICES ASSUME K # {} PROVE FALSE
    OBVIOUS
  <2>1. PICK n \in K : \A l \in K : n <= l
    <3>1. K \in SUBSET Nat
      OBVIOUS
    <3>. HIDE DEF K
    <3>. QED
      BY <3>1, Least
  <2>2. PICK R \in Seq(Event), j \in Nat : n = Left(R, j) /\ ~Rearranges(SiftDown[<<R, j>>], R)
    OBVIOUS
  <2>. DEFINE m == LesserChild(R, j)
              S == Swap(R, j, m)
  <2>3. ~DownRests(R, j)
    BY <2>2, SiftDownUnfolds, RearrangesItself
  <2>4. SiftDown[<<R, j>>] = SiftDown[<<S, m>>]
    BY <2>3, SiftDownUnfolds
  <2>5. m \in 1 .. Len(R) /\ j \in 1 .. Len(R) /\ j < m
    BY <2>3, ChildInside
  <2>. HIDE DEF m
  <2>6. Rearranges(S, R) /\ S \in Seq(Event) /\ Len(S) = Len(R) /\ Len(R) \in Nat
    <3>1. Rearranges(S, R)
      BY <2>5, SwapRearranges, Zenon
    <3>. HIDE DEF S
    <3>. QED
      BY <3>1 DEF Rearranges
  <2>. HIDE DEF S
  <2>7. Left(S, m) \in Nat /\ Left(S, m) < n
    BY <2>2, <2>5, <2>6
  <2>8. Rearranges(SiftDown[<<S, m>>], S)
    <3>1. Left(S, m) \notin K
      <4>. HIDE DEF K
      <4>1. K \in SUBSET Nat
        BY DEF K
      <4>. QED
        BY <2>1, <2>7, <4>1
    <3>2. m \in Nat
      BY <2>5
    <3>. HIDE DEF Left
    <3>. QED
      BY <2>6, <2>7, <3>1, <3>2, Zenon
  <2>9. SiftDown[<<S, m>>] \in Seq(Event)
    BY <2>8 DEF Rearranges
  <2>. QED
    BY <2>2, <2>4, <2>6, <2>8, <2>9, RearrangesTwice
<1>. QED
  BY <1>1, <1>2
\* The loop up stops after finitely many exchanges: its definition may be unfolded.
LEMMA SiftUpUnfolds ==
  \A Q \in Seq(Event), i \in Nat :
    SiftUp[<<Q, i>>] =
      IF UpRests(Q, i) THEN Q
      ELSE SiftUp[<<Swap(Q, i, i \div 2), i \div 2>>]
<1>. DEFINE rest == {s \in States : UpRests(s[1], s[2])}
            value == [s \in States |-> s[1]]
            to == [s \in States |->
                     IF s \in rest THEN s
                     ELSE <<Swap(s[1], s[2], s[2] \div 2), s[2] \div 2>>]
            op == [x \in States \X Seq(Event) |-> x[2]]
            size == [s \in States |-> s[2]]
<1>1. /\ rest \in SUBSET States /\ value \in [States -> Seq(Event)]
      /\ op \in [States \X Seq(Event) -> Seq(Event)] /\ size \in [States -> Nat]
  BY DEF States, UpRests
<1>2. ASSUME NEW s \in States, s \notin rest
      PROVE  /\ <<Swap(s[1], s[2], s[2] \div 2), s[2] \div 2>> \in States
             /\ size[<<Swap(s[1], s[2], s[2] \div 2), s[2] \div 2>>] < size[s]
  <2>. DEFINE Q == s[1]
              i == s[2]
              m == i \div 2
  <2>1. Q \in Seq(Event) /\ i \in Nat /\ ~UpRests(Q, i)
    BY <1>2 DEF States
  <2>2. m \in 1 .. Len(Q) /\ i \in 1 .. Len(Q) /\ m < i
    BY <2>1, ParentInside
  <2>3. Swap(Q, i, m) \in Seq(Event) /\ Len(Swap(Q, i, m)) = Len(Q) /\ Len(Q) \in Nat
    BY <2>1, <2>2, SwapRearranges DEF Rearranges
  <2>. HIDE DEF m
  <2>4. <<Swap(Q, i, m), m>> \in States
    BY <2>2, <2>3 DEF States
  <2>. QED
    BY <2>1, <2>2, <2>3, <2>4 DEF m
<1>3. to \in [States -> States] /\ \A s \in States : s \notin rest => size[to[s]] < size[s]
  <2>. HIDE DEF rest, size
  <2>. QED
    BY <1>2
<1>. HIDE DEF rest, to, size, value, op
<1>4. Falls(States, Seq(Event), rest, value, to, op, size)
  BY <1>1, <1>3 DEF Falls
<1>40. PICK f : Solves(f, States, Seq(Event), rest, value, to, op)
  BY <1>4, RecursionDefines
<1>41. /\ f \in [States -> Seq(Event)]
      /\ \A s \in States : f[s] = IF s \in rest THEN value[s] ELSE op[<<s, f[to[s]]>>]
  BY <1>40 DEF Solves
<1>. DEFINE body(s, g) == IF s[2] \notin 2 .. Len(s[1]) \/ Precedes(s[1][s[2] \div 2], s[1][s[2]])
                          THEN s[1]
                          ELSE g[<<Swap(s[1], s[2], s[2] \div 2), s[2] \div 2>>]
<1>5. \A s \in States : f[s] = body(s, f)
  <2>. SUFFICES ASSUME NEW s \in States PROVE f[s] = body(s, f)
    OBVIOUS
  <2>1. CASE s \in rest
    <3>1. f[s] = s[1] /\ UpRests(s[1], s[2])
      BY <1>41, <2>1 DEF rest, value
    <3>. QED
      BY <3>1 DEF UpRests
  <2>2. CASE s \notin rest
    <3>1. to[s] \in States /\ f[to[s]] \in Seq(Event)
      BY <1>3, <1>41
    <3>2. f[s] = f[to[s]] /\ ~UpRests(s[1], s[2])
      BY <1>41, <2>2, <3>1 DEF rest, op
    <3>3. to[s] = <<Swap(s[1], s[2], s[2] \div 2), s[2] \div 2>>
      BY <2>2 DEF to
    <3>. QED
      BY <3>2, <3>3 DEF UpRests
  <2>. QED
    BY <2>1, <2>2
<1>6. f = [s \in Seq(Event) \X Nat |-> body(s, f)]
  <2>. HIDE DEF body, rest, to, size, value, op
  <2>. QED
    BY <1>5, <1>41 DEF States
<1>7. SiftUp = [s \in Seq(Event) \X Nat |-> body(s, SiftUp)]
  <2>. HIDE DEF rest, to, size, value, op
  <2>. QED
    BY <1>6, Zenon DEF SiftUp, body
<1>. HIDE DEF rest, to, size, value, op
<1>8. ASSUME NEW Q \in Seq(Event), NEW i \in Nat
      PROVE  SiftUp[<<Q, i>>] = body(<<Q, i>>, SiftUp)
  <2>. DEFINE s == <<Q, i>>
  <2>1. s \in Seq(Event) \X Nat
    OBVIOUS
  <2>. HIDE DEF s, body
  <2>2. SiftUp[s] = body(s, SiftUp)
    BY <1>7, <2>1, Zenon
  <2>. QED
    BY <2>2 DEF s
<1>9. ASSUME NEW Q \in Seq(Event), NEW i \in Nat
      PROVE  body(<<Q, i>>, SiftUp) =
               IF UpRests(Q, i) THEN Q
               ELSE SiftUp[<<Swap(Q, i, i \div 2), i \div 2>>]
  BY DEF UpRests
<1>. HIDE DEF body
<1>. QED
  BY <1>8, <1>9

\* The loop up rearranges the queue.
LEMMA SiftUpRearranges ==
  ASSUME NEW Q \in Seq(Event), NEW i \in Nat
  PROVE  /\ Rearranges(SiftUp[<<Q, i>>], Q)
         /\ i \in 2 .. Len(Q) /\ Precedes(Q[1], Q[i]) => SiftUp[<<Q, i>>][1] = Q[1]
<1>. DEFINE Good(R, j) ==
              /\ Rearranges(SiftUp[<<R, j>>], R)
              /\ j \in 2 .. Len(R) /\ Precedes(R[1], R[j]) => SiftUp[<<R, j>>][1] = R[1]
            K == {n \in Nat : \E R \in Seq(Event) : ~Good(R, n)}
<1>1. K = {}
  <2>. SUFFICES ASSUME K # {} PROVE FALSE
    OBVIOUS
  <2>1. PICK j \in K : \A l \in K : j <= l
    <3>1. K \in SUBSET Nat
      OBVIOUS
    <3>. HIDE DEF K
    <3>. QED
      BY <3>1, Least
  <2>2. PICK R \in Seq(Event) : j \in Nat /\ ~Good(R, j)
    OBVIOUS
  <2>. DEFINE m == j \div 2
              S == Swap(R, j, m)
  <2>3. ~UpRests(R, j)
    BY <2>2, SiftUpUnfolds, RearrangesItself
  <2>4. SiftUp[<<R, j>>] = SiftUp[<<S, m>>]
    BY <2>2, <2>3, SiftUpUnfolds
  <2>5. m \in 1 .. Len(R) /\ j \in 1 .. Len(R) /\ m < j /\ m \in Nat /\ j \in 2 .. Len(R)
    BY <2>2, <2>3, ParentInside DEF UpRests
  <2>6. Rearranges(S, R) /\ S \in Seq(Event) /\ Len(S) = Len(R) /\ Len(R) \in Nat
    <3>. HIDE DEF m
    <3>1. Rearranges(S, R)
      BY <2>5, SwapRearranges, Zenon
    <3>. HIDE DEF S
    <3>. QED
      BY <3>1 DEF Rearranges
  <2>7. Precedes(R[1], R[j]) => m # 1 /\ S[1] = R[1] /\ S[m] = R[j] /\ m \in 2 .. Len(S)
    <3>. SUFFICES ASSUME Precedes(R[1], R[j]) PROVE m # 1 /\ S[1] = R[1] /\ S[m] = R[j] /\ m \in 2 .. Len(S)
      OBVIOUS
    <3>1. m # 1
      BY <2>3 DEF UpRests
    <3>2. S[1] = R[1] /\ S[m] = R[j]
      <4>. HIDE DEF m
      <4>. QED
        BY <2>2, <2>5, <3>1 DEF Swap
    <3>. QED
      BY <2>5, <2>6, <3>1, <3>2
  <2>8. Good(S, m)
    <3>1. m \notin K
      <4>. HIDE DEF K, m
      <4>1. K \in SUBSET Nat
        BY DEF K
      <4>. QED
        BY <2>1, <2>5, <4>1
    <3>. HIDE DEF Good, S, m
    <3>. QED
      BY <2>5, <2>6, <3>1
  <2>9. SiftUp[<<S, m>>] \in Seq(Event)
    BY <2>8 DEF Rearranges
  <2>10. Rearranges(SiftUp[<<R, j>>], R)
    <3>. HIDE DEF S, m
    <3>. QED
      BY <2>4, <2>6, <2>8, <2>9, RearrangesTwice
  <2>11. Precedes(R[1], R[j]) => SiftUp[<<R, j>>][1] = R[1]
    <3>. HIDE DEF S, m
    <3>. QED
      BY <2>4, <2>7, <2>8
  <2>. QED
    BY <2>2, <2>10, <2>11
<1>. QED
  BY <1>1

----------------------------------------------------------------------------
(* The order of the heap.                                                   *)

\* eventcmp, and its negation, say which of two events is not after the other.
LEMMA EventOrder ==
  /\ \A e \in Event : Bag!NotAfter(e, e)
  /\ \A e, f, g \in Event : Bag!NotAfter(e, f) /\ Bag!NotAfter(f, g) => Bag!NotAfter(e, g)
  /\ \A e, f \in Event : Precedes(e, f) => Bag!NotAfter(e, f)
  /\ \A e, f \in Event : ~Precedes(e, f) => Bag!NotAfter(f, e)
<1>. DEFINE R(e) == Rank[e.type]
<1>1. \A e \in Event : e.time \in Int /\ R(e) \in 1 .. 4 /\ (e.type = "D" <=> R(e) = 4)
  BY DEF Event, Types, Rank
<1>2. \A e, f : Bag!NotAfter(e, f) <=> e.time < f.time \/ (e.time = f.time /\ R(e) <= R(f))
  BY DEF Bag!NotAfter, Bag!Order, Rank
<1>3. \A e, f : Precedes(e, f) <=> e.time < f.time \/ (e.time = f.time /\ e.type # "D" /\ R(e) <= R(f))
  BY DEF Precedes
<1>. HIDE DEF R
<1>4. \A e \in Event : Bag!NotAfter(e, e)
  BY <1>1, <1>2
<1>5. \A e, f, g \in Event : Bag!NotAfter(e, f) /\ Bag!NotAfter(f, g) => Bag!NotAfter(e, g)
  BY <1>1, <1>2
<1>6. \A e, f \in Event : Precedes(e, f) => Bag!NotAfter(e, f)
  BY <1>1, <1>2, <1>3
<1>7. \A e, f \in Event : ~Precedes(e, f) => Bag!NotAfter(f, e)
  BY <1>1, <1>2, <1>3
<1>. QED
  BY <1>4, <1>5, <1>6, <1>7

\* The parent of a position is half of it.
LEMMA Half == \A j \in Nat : /\ j \div 2 \in Nat
                             /\ j = 2 * (j \div 2) \/ j = 2 * (j \div 2) + 1
OBVIOUS

\* The parents from position lo on have their children after them.
OrderedFrom(Q, lo) ==
  \A j \in 2 .. Len(Q) : j \div 2 >= lo => Bag!NotAfter(Q[j \div 2], Q[j])
\* All but the parent i, whose children are after its own parent.
OrderedBelow(Q, lo, i) ==
  /\ \A j \in 2 .. Len(Q) : j \div 2 >= lo /\ j \div 2 # i => Bag!NotAfter(Q[j \div 2], Q[j])
  /\ i >= 2 /\ i \div 2 >= lo =>
       \A j \in 2 .. Len(Q) : j \div 2 = i => Bag!NotAfter(Q[i \div 2], Q[j])
\* All but the child i, whose children are after its own parent.
OrderedAbove(Q, i) ==
  /\ \A j \in 2 .. Len(Q) : j # i => Bag!NotAfter(Q[j \div 2], Q[j])
  /\ i >= 2 => \A j \in 2 .. Len(Q) : j \div 2 = i => Bag!NotAfter(Q[i \div 2], Q[j])
Ordered(Q) == OrderedFrom(Q, 1)

\* The lesser child is not after either child.
LEMMA LesserChildLeast ==
  ASSUME NEW Q \in Seq(Event), NEW i \in Nat, 2 * i \in 2 .. Len(Q)
  PROVE  /\ LesserChild(Q, i) \in 2 .. Len(Q) /\ LesserChild(Q, i) \div 2 = i
         /\ \A j \in 2 .. Len(Q) : j \div 2 = i => Bag!NotAfter(Q[LesserChild(Q, i)], Q[j])
<1>. DEFINE m == LesserChild(Q, i)
<1>1. Len(Q) \in Nat /\ \A j \in 1 .. Len(Q) : Q[j] \in Event
  OBVIOUS
<1>2. \A j \in 2 .. Len(Q) : j \div 2 = i => j = 2 * i \/ j = 2 * i + 1
  BY Half, <1>1
<1>3. (2 * i) \div 2 = i /\ (2 * i + 1) \div 2 = i
  OBVIOUS
<1>4. CASE 2 * i = Len(Q)
  <2>1. m = 2 * i
    BY <1>4 DEF LesserChild
  <2>2. \A j \in 2 .. Len(Q) : j \div 2 = i => j = m
    BY <1>1, <1>2, <1>4, <2>1
  <2>. HIDE DEF m
  <2>3. m \in 1 .. Len(Q)
    BY <2>1
  <2>4. Bag!NotAfter(Q[m], Q[m])
    BY <1>1, <2>3, EventOrder
  <2>5. \A j \in 2 .. Len(Q) : j \div 2 = i => Bag!NotAfter(Q[m], Q[j])
    BY <2>2, <2>4
  <2>6. m \in 2 .. Len(Q) /\ m \div 2 = i
    BY <1>3, <2>1
  <2>. QED
    BY <2>5, <2>6 DEF m
<1>5. CASE 2 * i # Len(Q)
  <2>1. 2 * i \in 1 .. Len(Q) /\ 2 * i + 1 \in 1 .. Len(Q) /\ 2 * i + 1 \in 2 .. Len(Q)
    BY <1>1, <1>5
  <2>2. Q[2 * i] \in Event /\ Q[2 * i + 1] \in Event
    BY <1>1, <2>1
  <2>3. CASE Precedes(Q[2 * i], Q[2 * i + 1])
    <3>1. m = 2 * i
      BY <2>3 DEF LesserChild
    <3>2. Bag!NotAfter(Q[2 * i], Q[2 * i]) /\ Bag!NotAfter(Q[2 * i], Q[2 * i + 1])
      BY <2>2, <2>3, EventOrder
    <3>. HIDE DEF m
    <3>3. \A j \in 2 .. Len(Q) : j \div 2 = i => Bag!NotAfter(Q[m], Q[j])
      BY <1>2, <3>1, <3>2
    <3>4. m \in 2 .. Len(Q) /\ m \div 2 = i
      BY <1>3, <3>1
    <3>. QED
      BY <3>3, <3>4 DEF m
  <2>4. CASE ~Precedes(Q[2 * i], Q[2 * i + 1])
    <3>1. m = 2 * i + 1
      BY <1>5, <2>4 DEF LesserChild
    <3>2. Bag!NotAfter(Q[2 * i + 1], Q[2 * i + 1]) /\ Bag!NotAfter(Q[2 * i + 1], Q[2 * i])
      BY <2>2, <2>4, EventOrder
    <3>. HIDE DEF m
    <3>3. \A j \in 2 .. Len(Q) : j \div 2 = i => Bag!NotAfter(Q[m], Q[j])
      BY <1>2, <3>1, <3>2
    <3>4. m \in 2 .. Len(Q) /\ m \div 2 = i
      BY <1>3, <2>1, <3>1
    <3>. QED
      BY <3>3, <3>4 DEF m
  <2>. QED
    BY <2>3, <2>4
<1>. QED
  BY <1>4, <1>5

\* Where the loop down stops the order holds.
LEMMA DownEndsOrdered ==
  ASSUME NEW Q \in Seq(Event), NEW lo \in Nat, NEW i \in Nat, lo > 0, i >= lo,
         OrderedBelow(Q, lo, i), DownRests(Q, i)
  PROVE  OrderedFrom(Q, lo)
<1>. SUFFICES ASSUME NEW j \in 2 .. Len(Q), j \div 2 >= lo
              PROVE  Bag!NotAfter(Q[j \div 2], Q[j])
  BY DEF OrderedFrom
<1>1. CASE j \div 2 # i
  BY <1>1 DEF OrderedBelow
<1>2. CASE j \div 2 = i
  <2>. DEFINE m == LesserChild(Q, i)
  <2>1. Len(Q) \in Nat /\ 2 * i \in 2 .. Len(Q)
    <3>1. Len(Q) \in Nat /\ (j = 2 * i \/ j = 2 * i + 1)
      BY <1>2, Half
    <3>. QED
      BY <3>1
  <2>2. /\ m \in 2 .. Len(Q) /\ Bag!NotAfter(Q[m], Q[j])
    BY <1>2, <2>1, LesserChildLeast
  <2>3. Precedes(Q[i], Q[m])
    BY <2>1 DEF DownRests
  <2>. HIDE DEF m
  <2>4. i \in 1 .. Len(Q)
    BY <2>1
  <2>5. Q[i] \in Event /\ Q[m] \in Event /\ Q[j] \in Event
    BY <2>1, <2>2, <2>4
  <2>6. Bag!NotAfter(Q[i], Q[j])
    BY <2>2, <2>3, <2>5, EventOrder
  <2>. QED
    BY <1>2, <2>6
<1>. QED
  BY <1>1, <1>2

\* The queue after an exchange.
LEMMA Swapped ==
  ASSUME NEW Q \in Seq(Event), NEW i \in 1 .. Len(Q), NEW j \in 1 .. Len(Q)
  PROVE  /\ Swap(Q, i, j) \in Seq(Event) /\ Len(Swap(Q, i, j)) = Len(Q)
         /\ Swap(Q, i, j)[i] = Q[j] /\ Swap(Q, i, j)[j] = Q[i]
         /\ \A k \in 1 .. Len(Q) : k # i /\ k # j => Swap(Q, i, j)[k] = Q[k]
BY DEF Swap

\* An exchange on the way down leaves the lower of the two as the exception.
LEMMA DownSwapOrdered ==
  ASSUME NEW Q \in Seq(Event), NEW lo \in Nat, NEW i \in Nat, lo > 0, i >= lo,
         OrderedBelow(Q, lo, i), ~DownRests(Q, i)
  PROVE  OrderedBelow(Swap(Q, i, LesserChild(Q, i)), lo, LesserChild(Q, i))
<1>. DEFINE m == LesserChild(Q, i)
            S == Swap(Q, i, m)
<1>1. /\ m \in 2 .. Len(Q) /\ m \div 2 = i
      /\ \A j \in 2 .. Len(Q) : j \div 2 = i => Bag!NotAfter(Q[m], Q[j])
  BY LesserChildLeast DEF DownRests
<1>2. m \in 1 .. Len(Q) /\ i \in 1 .. Len(Q) /\ i < m /\ Len(Q) \in Nat
  BY ChildInside
<1>3. Bag!NotAfter(Q[m], Q[i])
  <2>1. ~Precedes(Q[i], Q[m]) /\ Q[i] \in Event /\ Q[m] \in Event
    BY <1>2 DEF DownRests
  <2>. QED
    BY <2>1, EventOrder
<1>. HIDE DEF m
<1>4. /\ S \in Seq(Event) /\ Len(S) = Len(Q) /\ S[i] = Q[m] /\ S[m] = Q[i]
      /\ \A k \in 1 .. Len(Q) : k # i /\ k # m => S[k] = Q[k]
  BY <1>2, Swapped
<1>. HIDE DEF S
<1>5. \A j \in 2 .. Len(Q) : j \in 1 .. Len(Q) /\ j \div 2 \in 1 .. Len(Q) /\ j \div 2 < j
  BY <1>2, Half
<1>6. ASSUME NEW j \in 2 .. Len(Q), j \div 2 >= lo, j \div 2 # m
      PROVE  Bag!NotAfter(S[j \div 2], S[j])
  <2>1. CASE j \div 2 = i
    <3>1. CASE j = m
      BY <1>3, <1>4, <2>1, <3>1
    <3>2. CASE j # m
      <4>1. S[j] = Q[j]
        BY <1>4, <1>5, <2>1, <3>2
      <4>. QED
        BY <1>1, <1>4, <2>1, <4>1
    <3>. QED
      BY <3>1, <3>2
  <2>2. CASE j \div 2 # i
    <3>1. S[j \div 2] = Q[j \div 2]
      BY <1>4, <1>5, <1>6, <2>2
    <3>2. CASE j = i
      <4>1. Bag!NotAfter(Q[i \div 2], Q[m])
        BY <1>1, <1>6, <3>2 DEF OrderedBelow
      <4>. QED
        BY <1>4, <3>1, <3>2, <4>1
    <3>3. CASE j # i
      <4>1. j # m
        BY <1>1, <2>2
      <4>2. S[j] = Q[j]
        BY <1>4, <1>5, <3>3, <4>1
      <4>3. Bag!NotAfter(Q[j \div 2], Q[j])
        BY <1>6, <2>2 DEF OrderedBelow
      <4>. QED
        BY <3>1, <4>2, <4>3
    <3>. QED
      BY <3>2, <3>3
  <2>. QED
    BY <2>1, <2>2
<1>7. ASSUME NEW j \in 2 .. Len(Q), j \div 2 = m PROVE Bag!NotAfter(S[m \div 2], S[j])
  <2>1. j # m /\ j # i
    BY <1>2, <1>5, <1>7
  <2>2. S[j] = Q[j]
    BY <1>4, <1>5, <2>1
  <2>3. m >= lo /\ m # i
    BY <1>2
  <2>4. Bag!NotAfter(Q[m], Q[j])
    BY <1>7, <2>3 DEF OrderedBelow
  <2>. QED
    BY <1>1, <1>4, <2>2, <2>4
<1>8. OrderedBelow(S, lo, m)
  BY <1>4, <1>6, <1>7 DEF OrderedBelow
<1>. QED
  BY <1>8 DEF S, m

\* Where the loop up stops the order holds.
LEMMA UpEndsOrdered ==
  ASSUME NEW Q \in Seq(Event), NEW i \in Nat, OrderedAbove(Q, i), UpRests(Q, i)
  PROVE  Ordered(Q)
<1>. SUFFICES ASSUME NEW j \in 2 .. Len(Q)
              PROVE  Bag!NotAfter(Q[j \div 2], Q[j])
  BY DEF Ordered, OrderedFrom
<1>1. CASE j # i
  BY <1>1 DEF OrderedAbove
<1>2. CASE j = i
  <2>1. Precedes(Q[i \div 2], Q[i])
    BY <1>2 DEF UpRests
  <2>2. j \in 1 .. Len(Q) /\ j \div 2 \in 1 .. Len(Q)
    BY Half
  <2>3. Q[j] \in Event /\ Q[j \div 2] \in Event
    BY <2>2
  <2>. QED
    BY <1>2, <2>1, <2>3, EventOrder
<1>. QED
  BY <1>1, <1>2

\* An exchange on the way up leaves the upper of the two as the exception.
LEMMA UpSwapOrdered ==
  ASSUME NEW Q \in Seq(Event), NEW i \in Nat, OrderedAbove(Q, i), ~UpRests(Q, i)
  PROVE  OrderedAbove(Swap(Q, i, i \div 2), i \div 2)
<1>. DEFINE p == i \div 2
            S == Swap(Q, i, p)
<1>1. p \in 1 .. Len(Q) /\ i \in 1 .. Len(Q) /\ p < i /\ i \in 2 .. Len(Q) /\ Len(Q) \in Nat
  BY ParentInside DEF UpRests
<1>2. Bag!NotAfter(Q[i], Q[p])
  <2>1. ~Precedes(Q[p], Q[i]) /\ Q[i] \in Event /\ Q[p] \in Event
    BY <1>1 DEF UpRests
  <2>. QED
    BY <2>1, EventOrder
<1>3. \A j \in 2 .. Len(Q) : j \in 1 .. Len(Q) /\ j \div 2 \in 1 .. Len(Q) /\ j \div 2 < j
  BY <1>1, Half
<1>4. \A j \in 2 .. Len(Q) : j \div 2 = i => Bag!NotAfter(Q[p], Q[j])
  BY <1>1 DEF OrderedAbove
<1>5. p = i \div 2
  OBVIOUS
<1>. HIDE DEF p
<1>6. /\ S \in Seq(Event) /\ Len(S) = Len(Q) /\ S[i] = Q[p] /\ S[p] = Q[i]
      /\ \A k \in 1 .. Len(Q) : k # i /\ k # p => S[k] = Q[k]
  BY <1>1, Swapped
<1>. HIDE DEF S
<1>7. ASSUME NEW j \in 2 .. Len(Q), j # i
      PROVE  Bag!NotAfter(Q[j \div 2], Q[j])
  BY <1>7 DEF OrderedAbove
<1>8. ASSUME NEW j \in 2 .. Len(Q), j # p
      PROVE  Bag!NotAfter(S[j \div 2], S[j])
  <2>1. CASE j = i
    BY <1>2, <1>5, <1>6, <2>1
  <2>2. CASE j # i
    <3>1. S[j] = Q[j] /\ Bag!NotAfter(Q[j \div 2], Q[j])
      BY <1>3, <1>6, <1>7, <1>8, <2>2
    <3>2. CASE j \div 2 = p
      <4>1. Q[i] \in Event /\ Q[p] \in Event /\ Q[j] \in Event
        BY <1>1, <1>3
      <4>2. Bag!NotAfter(Q[i], Q[j])
        BY <1>2, <3>1, <3>2, <4>1, EventOrder
      <4>. QED
        BY <1>6, <3>1, <3>2, <4>2
    <3>3. CASE j \div 2 = i
      BY <1>4, <1>6, <3>1, <3>3
    <3>4. CASE j \div 2 # p /\ j \div 2 # i
      <4>1. S[j \div 2] = Q[j \div 2]
        BY <1>3, <1>6, <3>4
      <4>. QED
        BY <3>1, <4>1
    <3>. QED
      BY <3>2, <3>3, <3>4
  <2>. QED
    BY <2>1, <2>2
<1>9. ASSUME p >= 2, NEW j \in 2 .. Len(Q), j \div 2 = p
      PROVE  Bag!NotAfter(S[p \div 2], S[j])
  <2>1. p \in 2 .. Len(Q) /\ p # i
    BY <1>1, <1>9
  <2>2. p \div 2 \in 1 .. Len(Q) /\ p \div 2 < p /\ p \div 2 < i
    BY <1>1, <1>3, <2>1
  <2>3. S[p \div 2] = Q[p \div 2]
    BY <1>1, <1>6, <2>2
  <2>4. Bag!NotAfter(Q[p \div 2], Q[p])
    BY <1>7, <2>1
  <2>5. CASE j = i
    BY <1>6, <2>3, <2>4, <2>5
  <2>6. CASE j # i
    <3>1. j # p
      BY <1>3, <1>9, <2>2
    <3>2. S[j] = Q[j] /\ Bag!NotAfter(Q[p], Q[j])
      BY <1>3, <1>6, <1>7, <1>9, <2>6, <3>1
    <3>3. Q[p \div 2] \in Event /\ Q[p] \in Event /\ Q[j] \in Event
      BY <1>1, <1>3, <2>2
    <3>4. Bag!NotAfter(Q[p \div 2], Q[j])
      BY <2>4, <3>2, <3>3, EventOrder
    <3>. QED
      BY <2>3, <3>2, <3>4
  <2>. QED
    BY <2>5, <2>6
<1>10. OrderedAbove(S, p)
  BY <1>6, <1>8, <1>9 DEF OrderedAbove
<1>. QED
  BY <1>10 DEF S, p

\* The loop down brings the order about from lo on, where only i lacked it.
LEMMA SiftDownOrders ==
  ASSUME NEW Q \in Seq(Event), NEW lo \in Nat, NEW i \in Nat, lo > 0, i >= lo,
         OrderedBelow(Q, lo, i)
  PROVE  OrderedFrom(SiftDown[<<Q, i>>], lo)
<1>. DEFINE Left(R, j) == IF j <= Len(R) THEN Len(R) - j ELSE 0
            Bad(R, j) == /\ j >= lo /\ OrderedBelow(R, lo, j)
                         /\ ~OrderedFrom(SiftDown[<<R, j>>], lo)
            K == {n \in Nat : \E R \in Seq(Event), j \in Nat : n = Left(R, j) /\ Bad(R, j)}
<1>1. \A R \in Seq(Event), j \in Nat : Left(R, j) \in Nat
  OBVIOUS
<1>2. K = {}
  <2>. SUFFICES ASSUME K # {} PROVE FALSE
    OBVIOUS
  <2>1. PICK n \in K : \A l \in K : n <= l
    <3>1. K \in SUBSET Nat
      OBVIOUS
    <3>. HIDE DEF K
    <3>. QED
      BY <3>1, Least
  <2>2. PICK R \in Seq(Event), j \in Nat : n = Left(R, j) /\ Bad(R, j)
    OBVIOUS
  <2>. DEFINE m == LesserChild(R, j)
              S == Swap(R, j, m)
  <2>3. ~DownRests(R, j)
    BY <2>2, SiftDownUnfolds, DownEndsOrdered
  <2>4. SiftDown[<<R, j>>] = SiftDown[<<S, m>>]
    BY <2>3, SiftDownUnfolds
  <2>5. m \in 1 .. Len(R) /\ j \in 1 .. Len(R) /\ j < m
    BY <2>3, ChildInside
  <2>6. OrderedBelow(S, lo, m)
    BY <2>2, <2>3, DownSwapOrdered
  <2>. HIDE DEF m
  <2>7. S \in Seq(Event) /\ Len(S) = Len(R) /\ Len(R) \in Nat /\ m \in Nat /\ m >= lo
    <3>1. S \in Seq(Event) /\ Len(S) = Len(R)
      BY <2>5, Swapped
    <3>. QED
      BY <2>2, <2>5, <3>1
  <2>. HIDE DEF S
  <2>8. Left(S, m) \in Nat /\ Left(S, m) < n
    BY <2>2, <2>5, <2>7
  <2>9. ~Bad(S, m)
    <3>1. Left(S, m) \notin K
      <4>. HIDE DEF K
      <4>1. K \in SUBSET Nat
        BY DEF K
      <4>. QED
        BY <2>1, <2>8, <4>1
    <3>. HIDE DEF Left, Bad
    <3>. QED
      BY <2>7, <2>8, <3>1, Zenon
  <2>. QED
    BY <2>2, <2>4, <2>6, <2>7, <2>9
<1>. HIDE DEF Left
<1>. QED
  BY <1>1, <1>2

\* The loop up brings the order about, where only i lacked it.
LEMMA SiftUpOrders ==
  ASSUME NEW Q \in Seq(Event), NEW i \in Nat, OrderedAbove(Q, i)
  PROVE  Ordered(SiftUp[<<Q, i>>])
<1>. DEFINE Bad(R, j) == OrderedAbove(R, j) /\ ~Ordered(SiftUp[<<R, j>>])
            K == {n \in Nat : \E R \in Seq(Event) : Bad(R, n)}
<1>1. K = {}
  <2>. SUFFICES ASSUME K # {} PROVE FALSE
    OBVIOUS
  <2>1. PICK j \in K : \A l \in K : j <= l
    <3>1. K \in SUBSET Nat
      OBVIOUS
    <3>. HIDE DEF K
    <3>. QED
      BY <3>1, Least
  <2>2. PICK R \in Seq(Event) : j \in Nat /\ Bad(R, j)
    OBVIOUS
  <2>. DEFINE m == j \div 2
              S == Swap(R, j, m)
  <2>3. ~UpRests(R, j)
    BY <2>2, SiftUpUnfolds, UpEndsOrdered
  <2>4. SiftUp[<<R, j>>] = SiftUp[<<S, m>>]
    BY <2>2, <2>3, SiftUpUnfolds
  <2>5. m \in 1 .. Len(R) /\ j \in 1 .. Len(R) /\ m < j /\ m \in Nat
    BY <2>2, <2>3, ParentInside
  <2>6. OrderedAbove(S, m)
    BY <2>2, <2>3, UpSwapOrdered
  <2>. HIDE DEF m
  <2>7. S \in Seq(Event)
    BY <2>5, Swapped
  <2>. HIDE DEF S
  <2>8. ~Bad(S, m)
    <3>1. m \notin K
      <4>. HIDE DEF K
      <4>1. K \in SUBSET Nat
        BY DEF K
      <4>. QED
        BY <2>1, <2>2, <2>5, <4>1
    <3>. HIDE DEF Bad
    <3>. QED
      BY <2>5, <2>7, <3>1
  <2>. QED
    BY <2>2, <2>4, <2>6, <2>8
<1>. QED
  BY <1>1

\* initEQ: the first queue holds the file's events and no other, in the heap's order.
LEMMA InitEQMakesHeap ==
  ASSUME NEW file \in Seq(Event)
  PROVE  Rearranges(initEQ(file), file) /\ Ordered(initEQ(file))
<1>. DEFINE half == Len(file) \div 2
            rest == {i \in Nat : i > half}
            value == [i \in Nat |-> file]
            to == [i \in Nat |-> i + 1]
            op == [x \in Nat \X Seq(Event) |-> SiftDown[<<x[2], x[1]>>]]
            size == [i \in Nat |-> IF i > half THEN 0 ELSE half + 1 - i]
            body(i, h) == IF i > half THEN file ELSE SiftDown[<<h[i + 1], i>>]
            Heapify == CHOOSE h : h = [i \in Nat |-> body(i, h)]
<1>1. half \in Nat
  BY DEF half
<1>2. op \in [Nat \X Seq(Event) -> Seq(Event)]
  <2>1. \A x \in Nat \X Seq(Event) : SiftDown[<<x[2], x[1]>>] \in Seq(Event)
    BY SiftDownRearranges DEF Rearranges
  <2>. QED
    BY <2>1
<1>3. Falls(Nat, Seq(Event), rest, value, to, op, size)
  <2>. HIDE DEF op, half
  <2>. QED
    BY <1>1, <1>2 DEF Falls
<1>4. PICK f : Solves(f, Nat, Seq(Event), rest, value, to, op)
  <2>. HIDE DEF rest, value, to, op, size
  <2>. QED
    BY <1>3, RecursionDefines
<1>5. f \in [Nat -> Seq(Event)] /\ \A i \in Nat : f[i] = body(i, f)
  <2>1. /\ f \in [Nat -> Seq(Event)]
        /\ \A s \in Nat : f[s] = IF s \in rest THEN value[s] ELSE op[<<s, f[to[s]]>>]
    <3>. HIDE DEF rest, value, to, op
    <3>. QED
      BY <1>4, Zenon DEF Solves
  <2>. SUFFICES ASSUME NEW i \in Nat PROVE f[i] = body(i, f)
    BY <2>1
  <2>2. CASE i > half
    <3>. HIDE DEF half
    <3>. QED
      BY <1>1, <2>1, <2>2
  <2>3. CASE ~(i > half)
    <3>. HIDE DEF half
    <3>1. i \notin rest /\ to[i] = i + 1 /\ i + 1 \in Nat
      BY <2>3
    <3>2. f[i] = op[<<i, f[i + 1]>>] /\ f[i + 1] \in Seq(Event)
      <4>. HIDE DEF rest, value, op, to
      <4>. QED
        BY <2>1, <3>1
    <3>3. <<i, f[i + 1]>> \in Nat \X Seq(Event)
      BY <3>2
    <3>. QED
      BY <2>3, <3>2, <3>3
  <2>. QED
    BY <2>2, <2>3
<1>6. f = [i \in Nat |-> body(i, f)]
  <2>. HIDE DEF body
  <2>. QED
    BY <1>5
<1>7. Heapify = [i \in Nat |-> body(i, Heapify)]
  <2>. HIDE DEF body
  <2>. QED
    BY <1>6, Zenon
<1>. HIDE DEF Heapify
<1>8. \A i \in Nat : Heapify[i] = body(i, Heapify)
  <2>. HIDE DEF body
  <2>. QED
    BY <1>7, Zenon
<1>9. initEQ(file) = Heapify[1]
  BY DEF initEQ, Heapify
<1>. DEFINE Good(i) == Rearranges(Heapify[i], file) /\ OrderedFrom(Heapify[i], i)
            K == {n \in Nat : ~(\A i \in Nat : i > 0 /\ size[i] = n => Good(i))}
<1>10. K = {}
  <2>. SUFFICES ASSUME K # {} PROVE FALSE
    OBVIOUS
  <2>1. PICK n \in K : \A l \in K : n <= l
    <3>1. K \in SUBSET Nat
      OBVIOUS
    <3>. HIDE DEF K
    <3>. QED
      BY <3>1, Least
  <2>2. PICK i \in Nat : i > 0 /\ n = size[i] /\ ~Good(i)
    OBVIOUS
  <2>. HIDE DEF half, K
  <2>3. i <= half
    <3>. SUFFICES ASSUME i > half PROVE FALSE
      BY <1>1
    <3>1. Heapify[i] = file
      BY <1>8
    <3>2. OrderedFrom(file, i)
      <4>1. Len(file) \in Nat /\ i > Len(file) \div 2
        BY DEF half
      <4>2. \A j \in 2 .. Len(file) : ~(j \div 2 >= i)
        BY <4>1, Half
      <4>. QED
        BY <4>2 DEF OrderedFrom
    <3>. HIDE DEF size
    <3>. QED
      BY <2>2, <3>1, <3>2, RearrangesItself
  <2>4. Heapify[i] = SiftDown[<<Heapify[i + 1], i>>]
    BY <1>1, <1>8, <2>3
  <2>5. size[i + 1] \in Nat /\ size[i + 1] < n /\ n \in Nat
    BY <1>1, <2>2, <2>3
  <2>6. Good(i + 1)
    <3>1. size[i + 1] \notin K
      <4>1. K \in SUBSET Nat
        BY DEF K
      <4>. HIDE DEF size
      <4>. QED
        BY <2>1, <2>5, <4>1
    <3>2. i + 1 \in Nat /\ i + 1 > 0
      OBVIOUS
    <3>. HIDE DEF size, Good
    <3>. QED
      BY <2>5, <3>1, <3>2 DEF K
  <2>7. Heapify[i + 1] \in Seq(Event)
    BY <2>6 DEF Rearranges
  <2>8. Rearranges(Heapify[i], Heapify[i + 1])
    BY <2>4, <2>7, SiftDownRearranges
  <2>9. Heapify[i] \in Seq(Event)
    BY <2>8 DEF Rearranges
  <2>10. Rearranges(Heapify[i], file)
    BY <2>6, <2>7, <2>8, <2>9, RearrangesTwice
  <2>11. OrderedBelow(Heapify[i + 1], i, i)
    <3>1. \A j \in 2 .. Len(Heapify[i + 1]) : j \div 2 >= i /\ j \div 2 # i => j \div 2 >= i + 1
      BY <2>7, Half
    <3>2. i >= 2 => ~(i \div 2 >= i)
      BY Half
    <3>. QED
      BY <2>6, <3>1, <3>2 DEF OrderedBelow, OrderedFrom
  <2>12. OrderedFrom(Heapify[i], i)
    BY <2>2, <2>4, <2>7, <2>11, SiftDownOrders
  <2>. QED
    BY <2>2, <2>10, <2>12
<1>11. size[1] \in Nat
  <2>. HIDE DEF half
  <2>. QED
    BY <1>1
<1>12. Good(1)
  <2>. HIDE DEF Good, size
  <2>. QED
    BY <1>10, <1>11
<1>. QED
  BY <1>9, <1>12 DEF Ordered

\* The root is not after any other event.
LEMMA RootLeast ==
  ASSUME NEW Q \in Seq(Event), Ordered(Q)
  PROVE  \A i \in 1 .. Len(Q) : Bag!NotAfter(Q[1], Q[i])
<1>. DEFINE K == {i \in 1 .. Len(Q) : ~Bag!NotAfter(Q[1], Q[i])}
<1>1. K = {}
  <2>. SUFFICES ASSUME K # {} PROVE FALSE
    OBVIOUS
  <2>1. PICK i \in K : \A l \in K : i <= l
    <3>1. K \in SUBSET Nat
      OBVIOUS
    <3>. HIDE DEF K
    <3>. QED
      BY <3>1, Least
  <2>2. Len(Q) \in Nat /\ i \in 1 .. Len(Q) /\ ~Bag!NotAfter(Q[1], Q[i])
    OBVIOUS
  <2>3. i # 1
    <3>. SUFFICES ASSUME i = 1 PROVE FALSE
      OBVIOUS
    <3>1. Q[1] \in Event
      BY <2>2
    <3>. QED
      BY <2>2, <3>1, EventOrder
  <2>4. i \in 2 .. Len(Q) /\ i \div 2 \in 1 .. Len(Q) /\ i \div 2 < i
    BY <2>2, <2>3, Half
  <2>5. i \div 2 \notin K
    <3>. HIDE DEF K
    <3>. QED
      BY <2>1, <2>2, <2>4
  <2>6. Bag!NotAfter(Q[1], Q[i \div 2])
    BY <2>4, <2>5
  <2>7. Bag!NotAfter(Q[i \div 2], Q[i])
    BY <2>4 DEF Ordered, OrderedFrom
  <2>8. Q[1] \in Event /\ Q[i \div 2] \in Event /\ Q[i] \in Event
    BY <2>2, <2>4
  <2>. QED
    BY <2>2, <2>6, <2>7, <2>8, EventOrder
<1>. QED
  BY <1>1

\* addevent keeps the order.
LEMMA AddOrdered ==
  ASSUME NEW Q \in Seq(Event), NEW e \in Event, Ordered(Q)
  PROVE  /\ Ordered(addevent(Q, e)) /\ Rearranges(addevent(Q, e), Append(Q, e))
<1>. DEFINE A == Append(Q, e)
            n == Len(Q) + 1
<1>1. /\ A \in Seq(Event) /\ n \in Nat /\ Len(A) = n /\ Len(Q) \in Nat
      /\ \A i \in 1 .. Len(Q) : A[i] = Q[i]
  OBVIOUS
<1>. HIDE DEF A
<1>2. OrderedAbove(A, n)
  <2>1. ASSUME NEW j \in 2 .. n, j # n PROVE Bag!NotAfter(A[j \div 2], A[j])
    <3>1. j \in 2 .. Len(Q) /\ j \in 1 .. Len(Q) /\ j \div 2 \in 1 .. Len(Q) /\ j \div 2 >= 1
      BY <1>1, <2>1, Half
    <3>2. Bag!NotAfter(Q[j \div 2], Q[j])
      BY <3>1 DEF Ordered, OrderedFrom
    <3>. QED
      BY <1>1, <3>1, <3>2
  <2>2. \A j \in 2 .. n : j \div 2 # n
    BY <1>1, Half
  <2>. QED
    BY <1>1, <2>1, <2>2 DEF OrderedAbove
<1>3. addevent(Q, e) = SiftUp[<<A, n>>]
  BY DEF addevent, A
<1>. HIDE DEF n
<1>. QED
  BY <1>1, <1>2, <1>3, SiftUpOrders, SiftUpRearranges DEF A

\* What delevent lets sink: the last event in the place of the first.
Sunk(Q) == SubSeq([Q EXCEPT ![1] = Q[Len(Q)]], 1, Len(Q) - 1)

\* What delevent lets sink is the queue without its first event.
LEMMA SunkFacts ==
  ASSUME NEW Q \in Seq(Event), Q # << >>
  PROVE  /\ Sunk(Q) \in Seq(Event) /\ Len(Sunk(Q)) = Len(Q) - 1 /\ Len(Q) \in Nat \ {0}
         /\ \A i \in 1 .. Len(Q) - 1 : Sunk(Q)[i] = IF i = 1 THEN Q[Len(Q)] ELSE Q[i]
         /\ delevent(Q) = SiftDown[<<Sunk(Q), 1>>]
<1>. DEFINE n == Len(Q)
            T == [Q EXCEPT ![1] = Q[n]]
<1>1. n \in Nat \ {0} /\ Q[n] \in Event
  OBVIOUS
<1>2. T \in Seq(Event) /\ Len(T) = n /\ \A i \in 1 .. n : T[i] = IF i = 1 THEN Q[n] ELSE Q[i]
  BY <1>1
<1>3. delevent(Q) = SiftDown[<<Sunk(Q), 1>>]
  BY DEF delevent, emptyQ, Sunk
<1>. HIDE DEF T
<1>4. /\ SubSeq(T, 1, n - 1) \in Seq(Event) /\ Len(SubSeq(T, 1, n - 1)) = n - 1
      /\ \A i \in 1 .. n - 1 : SubSeq(T, 1, n - 1)[i] = T[i]
  BY <1>1, <1>2
<1>. QED
  BY <1>1, <1>2, <1>3, <1>4 DEF Sunk, T

\* delevent keeps the order.
LEMMA DelOrdered ==
  ASSUME NEW Q \in Seq(Event), Q # << >>, Ordered(Q)
  PROVE  Ordered(delevent(Q)) /\ Rearranges(delevent(Q), Sunk(Q))
<1>1. /\ Sunk(Q) \in Seq(Event) /\ Len(Sunk(Q)) = Len(Q) - 1 /\ Len(Q) \in Nat \ {0}
      /\ \A i \in 1 .. Len(Q) - 1 : Sunk(Q)[i] = IF i = 1 THEN Q[Len(Q)] ELSE Q[i]
      /\ delevent(Q) = SiftDown[<<Sunk(Q), 1>>]
  BY SunkFacts
<1>. DEFINE T == Sunk(Q)
<1>. HIDE DEF T
<1>2. OrderedBelow(T, 1, 1)
  <2>1. ASSUME NEW j \in 2 .. Len(T), j \div 2 >= 1, j \div 2 # 1
        PROVE  Bag!NotAfter(T[j \div 2], T[j])
    <3>1. j \in 2 .. Len(Q) /\ j \in 1 .. Len(Q) - 1 /\ j \div 2 \in 1 .. Len(Q) - 1
      BY <1>1, <2>1, Half DEF T
    <3>2. T[j] = Q[j] /\ T[j \div 2] = Q[j \div 2]
      BY <1>1, <2>1, <3>1 DEF T
    <3>. QED
      BY <2>1, <3>1, <3>2 DEF Ordered, OrderedFrom
  <2>. QED
    BY <2>1 DEF OrderedBelow
<1>. QED
  BY <1>1, <1>2, SiftDownOrders, SiftDownRearranges DEF T, Ordered

----------------------------------------------------------------------------
(* The arrivals in a queue.                                                 *)

\* The arrivals of a queue are as many as its events at most.
LEMMA ArrivalsFinite ==
  ASSUME NEW Q \in Seq(Event)
  PROVE  IsFiniteSet(Arrivals(Q)) /\ Cardinality(Arrivals(Q)) \in Nat /\ Cardinality(Arrivals(Q)) <= Len(Q)
<1>1. IsFiniteSet(1 .. Len(Q)) /\ Cardinality(1 .. Len(Q)) = Len(Q)
  <2>1. 1 \in Int /\ Len(Q) \in Int /\ Len(Q) \in Nat
    OBVIOUS
  <2>. QED
    BY <2>1, FS_Interval
<1>2. Arrivals(Q) \subseteq 1 .. Len(Q)
  BY DEF Arrivals
<1>. QED
  BY <1>1, <1>2, FS_Subset, FS_CardinalityType

\* Places of arrivals matched one to one.
LEMMA MatchedArrivals ==
  ASSUME NEW A, NEW B, IsFiniteSet(A), NEW p \in [A -> B],
         \A i, j \in A : p[i] = p[j] => i = j,
         \A k \in B : \E i \in A : p[i] = k
  PROVE  Cardinality(B) = Cardinality(A)
<1>1. p \in Bijection(A, B)
  BY DEF Bijection, Injection, Surjection, IsInjective
<1>. QED
  BY <1>1, FS_Bijection DEF ExistsBijection

\* A rearrangement has as many arrivals, and the same events.
LEMMA ArrivalsKept ==
  ASSUME NEW Q \in Seq(Event), NEW R, Rearranges(R, Q)
  PROVE  /\ R \in Seq(Event)
         /\ Cardinality(Arrivals(R)) = Cardinality(Arrivals(Q))
         /\ \A i \in 1 .. Len(R) : \E j \in 1 .. Len(Q) : R[i] = Q[j]
<1>. DEFINE D == 1 .. Len(Q)
<1>1. R \in Seq(Event) /\ DOMAIN R = D /\ DOMAIN Q = D
  BY DEF Rearranges
<1>2. PICK p \in Bijection(D, D) : \A i \in D : R[i] = Q[p[i]]
  BY DEF Rearranges
<1>. HIDE DEF D
<1>3. /\ p \in [D -> D]
      /\ \A i, j \in D : p[i] = p[j] => i = j
      /\ \A k \in D : \E i \in D : p[i] = k
  BY <1>2 DEF Bijection, Injection, Surjection, IsInjective
<1>. DEFINE q == [i \in Arrivals(R) |-> p[i]]
<1>4. q \in [Arrivals(R) -> Arrivals(Q)]
  BY <1>1, <1>2, <1>3 DEF Arrivals
<1>5. \A i, j \in Arrivals(R) : q[i] = q[j] => i = j
  BY <1>1, <1>3 DEF Arrivals
<1>6. \A k \in Arrivals(Q) : \E i \in Arrivals(R) : q[i] = k
  <2>. SUFFICES ASSUME NEW k \in Arrivals(Q) PROVE \E i \in Arrivals(R) : q[i] = k
    OBVIOUS
  <2>1. PICK i \in D : p[i] = k
    BY <1>1, <1>3 DEF Arrivals
  <2>2. i \in Arrivals(R)
    BY <1>1, <1>2, <2>1 DEF Arrivals
  <2>. QED
    BY <2>1, <2>2
<1>. HIDE DEF q
<1>7. Cardinality(Arrivals(Q)) = Cardinality(Arrivals(R))
  BY <1>1, <1>4, <1>5, <1>6, ArrivalsFinite, MatchedArrivals
<1>8. \A i \in D : \E j \in D : R[i] = Q[j]
  BY <1>2, <1>3
<1>9. Len(R) = Len(Q)
  BY DEF Rearranges
<1>. QED
  BY <1>1, <1>7, <1>8, <1>9 DEF D

\* The head leaves the queue; the other arrivals stay.
LEMMA HeadLeaves ==
  ASSUME NEW Q \in Seq(Event), Q # << >>
  PROVE  /\ delevent(Q) \in Seq(Event)
         /\ Cardinality(Arrivals(delevent(Q))) = Cardinality(Arrivals(Q)) - One(Q[1].type # "D")
         /\ \A i \in DOMAIN delevent(Q) : \E j \in DOMAIN Q : delevent(Q)[i] = Q[j]
<1>. DEFINE n == Len(Q)
            T == SubSeq([Q EXCEPT ![1] = Q[n]], 1, n - 1)
<1>1. n \in Nat \ {0} /\ DOMAIN Q = 1 .. n
  OBVIOUS
<1>2. T \in Seq(Event) /\ DOMAIN T = 1 .. n - 1 /\ \A i \in 1 .. n - 1 : T[i] = IF i = 1 THEN Q[n] ELSE Q[i]
  OBVIOUS
<1>3. delevent(Q) = SiftDown[<<T, 1>>]
  BY DEF delevent, emptyQ
<1>. HIDE DEF T, n
<1>4. Rearranges(delevent(Q), T)
  BY <1>2, <1>3, SiftDownRearranges
<1>. DEFINE p == [i \in Arrivals(T) |-> IF i = 1 THEN n ELSE i]
            B == Arrivals(Q) \ {1}
<1>5. p \in [Arrivals(T) -> B]
  BY <1>1, <1>2 DEF Arrivals
<1>6. \A i, j \in Arrivals(T) : p[i] = p[j] => i = j
  BY <1>1, <1>2 DEF Arrivals
<1>7. \A k \in B : \E i \in Arrivals(T) : p[i] = k
  <2>. SUFFICES ASSUME NEW k \in B PROVE \E i \in Arrivals(T) : p[i] = k
    OBVIOUS
  <2>1. k \in 2 .. n /\ Q[k].type # "D"
    BY <1>1 DEF Arrivals
  <2>2. CASE k = n
    <3>1. 1 \in Arrivals(T) /\ p[1] = n
      BY <1>1, <1>2, <2>1, <2>2 DEF Arrivals
    <3>. QED
      BY <2>2, <3>1
  <2>3. CASE k # n
    <3>1. k \in Arrivals(T) /\ p[k] = k
      BY <1>1, <1>2, <2>1, <2>3 DEF Arrivals
    <3>. QED
      BY <3>1
  <2>. QED
    BY <2>2, <2>3
<1>8. Cardinality(B) = Cardinality(Arrivals(T))
  <2>1. IsFiniteSet(Arrivals(T))
    BY <1>2, ArrivalsFinite
  <2>. HIDE DEF p, B
  <2>. QED
    BY <1>5, <1>6, <1>7, <2>1, MatchedArrivals
<1>9. Cardinality(B) = Cardinality(Arrivals(Q)) - One(Q[1].type # "D")
  <2>1. IsFiniteSet(Arrivals(Q)) /\ Cardinality(Arrivals(Q)) \in Nat
    BY ArrivalsFinite
  <2>2. 1 \in Arrivals(Q) <=> Q[1].type # "D"
    BY <1>1 DEF Arrivals
  <2>3. Cardinality(B) = IF 1 \in Arrivals(Q) THEN Cardinality(Arrivals(Q)) - 1 ELSE Cardinality(Arrivals(Q))
    BY <2>1, FS_RemoveElement, Zenon
  <2>. QED
    BY <2>1, <2>2, <2>3 DEF One
<1>10. ASSUME NEW i \in DOMAIN delevent(Q) PROVE \E j \in DOMAIN Q : delevent(Q)[i] = Q[j]
  <2>1. PICK j \in DOMAIN T : delevent(Q)[i] = T[j]
    <3>0. T \in Seq(Event) /\ Rearranges(delevent(Q), T)
      BY <1>2, <1>4
    <3>1. \A l \in 1 .. Len(delevent(Q)) : \E j \in 1 .. Len(T) : delevent(Q)[l] = T[j]
      BY <3>0, ArrivalsKept
    <3>. QED
      <4>1. delevent(Q) \in Seq(Event)
        BY <3>0 DEF Rearranges
      <4>2. i \in 1 .. Len(delevent(Q))
        BY <1>10, <4>1
      <4>3. PICK j \in 1 .. Len(T) : delevent(Q)[i] = T[j]
        BY <3>1, <4>2
      <4>4. j \in DOMAIN T
        BY <3>0, <4>3
      <4>. QED
        BY <4>3, <4>4
  <2>. QED
    BY <1>1, <1>2, <2>1
<1>. QED
  BY <1>2, <1>4, <1>8, <1>9, <1>10, ArrivalsKept

\* The event that ends a visit is no arrival, and does not come before a head
\* that it does not precede.
LEMMA DoneJoins ==
  ASSUME NEW Q \in Seq(Event), NEW e \in Event, e.type = "D"
  PROVE  /\ addevent(Q, e) \in Seq(Event)
         /\ addevent(Q, e) # << >>
         /\ Cardinality(Arrivals(addevent(Q, e))) = Cardinality(Arrivals(Q))
         /\ \A i \in Arrivals(addevent(Q, e)) : \E j \in Arrivals(Q) : addevent(Q, e)[i] = Q[j]
         /\ Q # << >> /\ Precedes(Q[1], e) => addevent(Q, e)[1] = Q[1]
<1>. DEFINE n == Len(Q) + 1
            T == Append(Q, e)
            R == addevent(Q, e)
<1>1. n \in Nat /\ DOMAIN Q = 1 .. n - 1
  OBVIOUS
<1>2. T \in Seq(Event) /\ Len(T) = n /\ DOMAIN T = 1 .. n /\ T[n] = e /\ \A i \in 1 .. n - 1 : T[i] = Q[i]
  OBVIOUS
<1>3. R = SiftUp[<<T, n>>]
  BY DEF addevent
<1>. HIDE DEF T, n, R
<1>4. Rearranges(R, T) /\ (n \in 2 .. Len(T) /\ Precedes(T[1], T[n]) => R[1] = T[1])
  BY <1>1, <1>2, <1>3, SiftUpRearranges
<1>5. Arrivals(T) = Arrivals(Q)
  BY <1>1, <1>2 DEF Arrivals
<1>6. R \in Seq(Event) /\ Cardinality(Arrivals(R)) = Cardinality(Arrivals(Q))
  BY <1>2, <1>4, <1>5, ArrivalsKept
<1>7. R # << >>
  <2>1. Len(R) = n
    BY <1>2, <1>4 DEF Rearranges
  <2>2. n # 0
    BY DEF n
  <2>. QED
    BY <2>1, <2>2
<1>8. ASSUME NEW i \in Arrivals(R) PROVE \E j \in Arrivals(Q) : R[i] = Q[j]
  <2>1. PICK j \in DOMAIN T : R[i] = T[j]
    <3>0. T \in Seq(Event) /\ Rearranges(R, T)
      BY <1>2, <1>4
    <3>1. \A l \in 1 .. Len(R) : \E j \in 1 .. Len(T) : R[l] = T[j]
      BY <3>0, ArrivalsKept
    <3>2. i \in DOMAIN R
      BY <1>8 DEF Arrivals
    <3>. QED
      BY <1>2, <1>6, <3>1, <3>2
  <2>2. j \in Arrivals(T)
    BY <2>1 DEF Arrivals
  <2>. QED
    BY <1>1, <1>2, <1>5, <2>1, <2>2 DEF Arrivals
<1>9. Q # << >> /\ Precedes(Q[1], e) => R[1] = Q[1]
  <2>. SUFFICES ASSUME Q # << >>, Precedes(Q[1], e) PROVE R[1] = Q[1]
    OBVIOUS
  <2>1. n \in 2 .. Len(T) /\ T[1] = Q[1]
    BY <1>1, <1>2 DEF n
  <2>. QED
    BY <1>2, <1>4, <2>1
<1>. QED
  BY <1>6, <1>7, <1>8, <1>9 DEF R

----------------------------------------------------------------------------
(* First facts, and the start.                                              *)

\* The two quotas, written out.
LEMMA QuotaFacts ==
  /\ DOMAIN Quota = {"P", "S"} /\ Quota["P"] = MAX_PATIENTS /\ Quota["S"] = MAX_SALESREPS
  /\ MAX_PATIENTS \in Nat \ {0} /\ MAX_SALESREPS \in Nat \ {0}
  /\ \A f \in [{"P", "S"} -> Nat] : f = Quota <=> f["P"] = MAX_PATIENTS /\ f["S"] = MAX_SALESREPS
<1>1. DOMAIN Quota = {"P", "S"} /\ Quota["P"] = MAX_PATIENTS /\ Quota["S"] = MAX_SALESREPS
  BY DEF Quota
<1>2. Quota \in [{"P", "S"} -> Nat]
  BY SessionAssumption DEF Quota
<1>. QED
  BY <1>1, <1>2, SessionAssumption

\* The assistant, the doctor and the visitors are different threads.
LEMMA PeopleFacts ==
  /\ Asst \in People /\ Doctor \in People /\ Asst # Doctor /\ N \in Nat
  /\ \A k \in 1 .. N : k \in People /\ k # Asst /\ k # Doctor
  /\ Visitors = 1 .. N
BY SessionAssumption DEF People, Visitors

\* The visitors of a kind who are outside can be counted.
LEMMA OutsidersFinite ==
  ASSUME ThreadRange, NEW t
  PROVE  IsFiniteSet(Outsiders(t)) /\ Cardinality(Outsiders(t)) \in Nat
<1>1. DOMAIN thr = 1 .. Len(thr) /\ Len(thr) \in Nat
  BY DEF ThreadRange
<1>2. IsFiniteSet(DOMAIN thr)
  BY <1>1, FS_Interval
<1>3. Outsiders(t) \subseteq DOMAIN thr
  BY DEF Outsiders
<1>. QED
  BY <1>2, <1>3, FS_Subset, FS_CardinalityType

\* What ranges and places say of the visitors' threads.
LEMMA ThreadFacts ==
  ASSUME ThreadRange, Places
  PROVE  /\ DOMAIN thr = 1 .. Len(thr) /\ Len(thr) \in Nat /\ Len(thr) <= N
         /\ \A k \in DOMAIN thr :
              /\ k \in 1 .. N /\ k \in People /\ k # Asst /\ k # Doctor
              /\ thr[k].type \in Kinds /\ thr[k].arg \in 0 .. N
              /\ thr[k].duration \in Nat /\ thr[k].came \in Int
              /\ at[k] \in Outside \union In \union {"gone"}
<1>1. DOMAIN thr = 1 .. Len(thr) /\ Len(thr) \in Nat /\ Len(thr) <= N
  BY DEF ThreadRange
<1>2. \A k \in DOMAIN thr : thr[k] \in [type : Kinds, arg : 0 .. N, duration : Nat, came : Int]
  <2>. DEFINE T == [type : Kinds, arg : 0 .. N, duration : Nat, came : Int]
  <2>1. thr \in Seq(T)
    BY DEF ThreadRange
  <2>. HIDE DEF T
  <2>2. \A k \in DOMAIN thr : thr[k] \in T
    BY <2>1
  <2>. QED
    BY <2>2 DEF T
<1>3. \A k \in DOMAIN thr : k \in 1 .. N /\ k <= Len(thr)
  BY <1>1, PeopleFacts
<1>. QED
  BY <1>1, <1>2, <1>3, PeopleFacts DEF Places, VisitorPlaces, In, Outside

\* The invariant holds when main has read the file.
LEMMA InitIInv == Init => IInv
<1>. SUFFICES ASSUME Init PROVE IInv
  OBVIOUS
<1>. USE PeopleFacts
<1>1. PICK file \in Files : E = initEQ(file)
  BY DEF Init
<1>2. /\ file \in Seq(Event) /\ Len(file) \in Nat /\ Len(file) <= N
      /\ \A i \in 1 .. Len(file) : file[i].type \in Kinds /\ file[i].duration > 0
  BY SessionAssumption
<1>3. /\ E \in Seq(Event) /\ Cardinality(Arrivals(E)) = Cardinality(Arrivals(file))
      /\ \A i \in 1 .. Len(E) : \E j \in 1 .. Len(file) : E[i] = file[j]
  <2>1. Rearranges(E, file)
    BY <1>1, <1>2, InitEQMakesHeap
  <2>. QED
    BY <1>2, <2>1, ArrivalsKept
<1>4. Cardinality(Arrivals(E)) \in Nat /\ Cardinality(Arrivals(E)) <= N
  BY <1>2, <1>3, ArrivalsFinite
<1>5. \A i \in DOMAIN E : E[i].duration > 0
  BY <1>2, <1>3
<1>6. next \in [type : Types \union {"E"}, time : Int, duration : Nat]
  <2>1. CASE E = << >>
    BY <2>1 DEF Init, nextevent, emptyQ
  <2>2. CASE E # << >>
    <3>1. next = E[1] /\ E[1] \in Event
      BY <1>3, <2>2 DEF Init, nextevent, emptyQ
    <3>. QED
      BY <3>1 DEF Event
  <2>. QED
    BY <2>1, <2>2
<1>7. Ranges
  <2>1. num \in [Kinds -> Nat] /\ waiting \in [Kinds -> Nat] /\ called \in [Kinds -> BOOLEAN]
    BY DEF Init
  <2>2. served \in [{"P", "S"} -> Nat] /\ visitor_infos \in [0 .. N -> Nat]
    BY QuotaFacts DEF Init
  <2>3. thr \in Seq([type : Kinds, arg : 0 .. N, duration : Nat, came : Int]) /\ Len(thr) = 0
    BY DEF Init
  <2>4. /\ doc_arrived \in {0, 1, 2} /\ after \in {"admit", "call"}
        /\ part \in {"arrival", "queue", "final"} /\ num_visitors \in Nat
        /\ current_time \in Nat /\ done_time \in Nat /\ doc_session_done \in BOOLEAN
        /\ asst_done \in BOOLEAN /\ doc_done \in BOOLEAN /\ count \in Nat
    BY DEF Init
  <2>5. Len(thr) <= N
    BY <2>3
  <2>. QED
    BY <1>3, <1>6, <2>1, <2>2, <2>3, <2>4, <2>5, Zenon DEF Ranges, QueueRange, CounterRange, FlagRange, ThreadRange
<1>8. Places
  BY DEF Init, Places, AsstPlaces, DoctorPlaces, VisitorPlaces, People, Visitors
<1>9. at[Asst] = "look" /\ at[Doctor] = "wait" /\ thr = << >> /\ Len(thr) = 0 /\ DOMAIN thr = {}
  BY DEF Init
<1>10. DoctorFollows /\ VisitorsFollow /\ BarrierCounts
  BY <1>9 DEF Init, DoctorFollows, VisitorsFollow, BarrierCounts, Waking, Visiting, Fresh, Meeting, Asleep, One, Kinds
<1>11. WaitingExact
  <2>1. \A t \in Kinds : Outsiders(t) = {}
    BY <1>9 DEF Outsiders
  <2>2. \A t \in Kinds : Cardinality(Outsiders(t)) = 0
    BY <2>1, FS_EmptySet
  <2>3. ~Fresh
    BY <1>9 DEF Fresh, Asleep
  <2>4. \A t \in Kinds : waiting[t] = 0 /\ ~called[t]
    BY DEF Init
  <2>. QED
    BY <2>2, <2>3, <2>4 DEF WaitingExact, One
<1>12. QuotasKept /\ PartsKnown
  BY <1>9, QuotaFacts DEF Init, QuotasKept, PartsKnown, Fresh, Asleep, Visiting, Waking, Meeting, Counted, Kinds, Nobody
<1>13. HeadKept
  BY <1>5, <1>9 DEF Init, HeadKept, Fresh, Asleep, Counted, Visiting, Waking, Meeting, Arrivals
<1>14. ArrivalsCounted
  BY <1>4, <1>9 DEF Init, ArrivalsCounted, AllNum, One, Fresh, Asleep, Counted, Visiting, Waking, Meeting, Kinds
<1>15. InfoRight /\ RankKept
  BY <1>9 DEF Init, InfoRight, RankKept, Kinds
<1>. QED
  BY <1>7, <1>8, <1>10, <1>11, <1>12, <1>13, <1>14, <1>15 DEF IInv

----------------------------------------------------------------------------
(* Steps of the doctor and of the visitors.                                 *)

\* The assistant goes on waiting where she waits, and nothing of hers changes.
Undisturbed ==
  /\ \/ at'[Asst] = at[Asst]
     \/ at[Asst] \in Asleep /\ at'[Asst] \in Asleep
     \/ at[Asst] = "barrier" /\ at'[Asst] = "barred"
  /\ at[Doctor] = "gone" => at'[Doctor] = "gone"
  /\ Len(thr') = Len(thr)
  /\ current_time' \in Nat /\ current_time' >= current_time
  /\ UNCHANGED <<queue, own, counters, doc_session_done>>

\* Where the assistant is in her turn does not change while she is undisturbed.
LEMMA Phases ==
  ASSUME Undisturbed
  PROVE  /\ Fresh' <=> Fresh
         /\ Waking' <=> Waking
         /\ Meeting' <=> Meeting
         /\ Visiting' <=> Visiting
         /\ Counted' <=> Counted
BY DEF Undisturbed, own, Fresh, Waking, Meeting, Visiting, Counted, Asleep

\* Those outside are the same if nobody leaves or comes.
LEMMA SameOutsiders ==
  ASSUME DOMAIN thr' = DOMAIN thr,
         \A k \in DOMAIN thr : thr'[k].type = thr[k].type /\ (at'[k] \in Outside <=> at[k] \in Outside)
  PROVE  \A t : Outsiders(t)' = Outsiders(t)
BY DEF Outsiders

\* While the assistant is undisturbed, what is hers is kept.
LEMMA AsstUndisturbed ==
  ASSUME IInv, Undisturbed
  PROVE  QuotasKept' /\ PartsKnown' /\ HeadKept' /\ ArrivalsCounted'
<1>. USE Phases
<1>1. QuotasKept'
  BY DEF IInv, Undisturbed, QuotasKept, Quota, Nobody, queue, own, counters, Asleep
<1>2. PartsKnown'
  <2>1. next.time \in Int /\ current_time \in Nat
    BY DEF IInv, Ranges, QueueRange, CounterRange
  <2>. QED
    BY <2>1 DEF IInv, Undisturbed, PartsKnown, Nobody, queue, own, counters, Asleep
<1>3. HeadKept'
  <2>1. next.time \in Int /\ current_time \in Nat
    BY DEF IInv, Ranges, QueueRange, CounterRange
  <2>. QED
    BY <2>1 DEF IInv, Undisturbed, HeadKept, Arrivals, queue, own, counters, Asleep
<1>4. ArrivalsCounted'
  BY DEF IInv, Undisturbed, ArrivalsCounted, AllNum, Arrivals, One, queue, own, counters
<1>. QED
  BY <1>1, <1>2, <1>3, <1>4

\* A new thread reads its duration.
LEMMA VisitorReadsStep ==
  ASSUME IInv, NEW k \in DOMAIN thr, VisitorReads(k)
  PROVE  IInv'
<1>. USE PeopleFacts DEF IInv, Ranges
<1>1. k \in 1 .. N /\ k \in People /\ k # Asst /\ k # Doctor /\ k \in 1 .. Len(thr)
  BY ThreadFacts
<1>2. /\ at' = [at EXCEPT ![k] = "lock"] /\ at \in [People -> AsstPlaces \union DoctorPlaces \union VisitorPlaces]
      /\ at[k] = "new" /\ at'[k] = "lock" /\ \A y \in People \ {k} : at'[y] = at[y]
  BY <1>1 DEF VisitorReads, Goto, Places
<1>3. /\ DOMAIN thr' = DOMAIN thr /\ Len(thr') = Len(thr)
      /\ thr'[k] = [thr[k] EXCEPT !.duration = visitor_infos[thr[k].arg]]
      /\ \A j \in DOMAIN thr \ {k} : thr'[j] = thr[j]
      /\ thr[k] \in [type : Kinds, arg : 0 .. N, duration : Nat, came : Int]
  <2>. DEFINE T == [type : Kinds, arg : 0 .. N, duration : Nat, came : Int]
  <2>1. thr \in Seq(T) /\ thr' = [thr EXCEPT ![k].duration = visitor_infos[thr[k].arg]]
    BY DEF VisitorReads, ThreadRange
  <2>2. thr[k] \in T
    <3>. HIDE DEF T
    <3>. QED
      BY <1>1, <2>1
  <2>3. DOMAIN thr' = DOMAIN thr /\ Len(thr') = Len(thr)
    <3>. HIDE DEF T
    <3>. QED
      BY <1>1, <2>1
  <2>. QED
    BY <1>1, <2>1, <2>2, <2>3
<1>4. Undisturbed
  BY <1>1, <1>2, <1>3 DEF VisitorReads, Undisturbed, queue, own, counters, clock, CounterRange
<1>5. ThreadRange'
  <2>1. visitor_infos[thr[k].arg] \in Nat
    BY <1>3 DEF ThreadRange
  <2>. DEFINE T == [type : Kinds, arg : 0 .. N, duration : Nat, came : Int]
  <2>2. [thr[k] EXCEPT !.duration = visitor_infos[thr[k].arg]] \in T /\ thr \in Seq(T)
    BY <1>3, <2>1 DEF ThreadRange
  <2>. HIDE DEF T
  <2>3. thr' \in Seq(T)
    BY <1>1, <2>2 DEF VisitorReads
  <2>. QED
    BY <1>3, <2>3 DEF VisitorReads, ThreadRange, T
<1>6. Ranges'
  BY <1>5 DEF VisitorReads, QueueRange, CounterRange, FlagRange, queue, own, counters, clock, flags
<1>7. Places'
  BY <1>1, <1>2, <1>3 DEF Places, VisitorPlaces, Outside, Visitors
<1>8. DoctorFollows'
  BY <1>1, <1>2, <1>4, Phases DEF DoctorFollows, VisitorReads, clock, flags
<1>9. VisitorsFollow'
  BY <1>1, <1>2, <1>3, <1>4, Phases, ThreadFacts DEF VisitorsFollow, VisitorReads, clock, flags, queue, own, Untold, In, Outside
<1>10. BarrierCounts'
  BY <1>1, <1>2, <1>3 DEF BarrierCounts, VisitorReads, One
<1>11. WaitingExact'
  <2>1. \A t : Outsiders(t)' = Outsiders(t)
    BY <1>1, <1>2, <1>3, ThreadFacts, SameOutsiders DEF Outside
  <2>. QED
    BY <1>4, <2>1, Phases DEF WaitingExact, VisitorReads, One, counters, flags, queue
<1>12. InfoRight'
  <2>1. visitor_infos[thr[k].arg] = next.duration
    BY <1>2 DEF InfoRight
  <2>2. next.duration > 0
    <3>1. Fresh
      BY <1>2 DEF VisitorsFollow, Untold
    <3>2. E # << >> /\ E[1] = next /\ next.type # "D"
      BY <3>1 DEF HeadKept, PartsKnown, Fresh, Asleep
    <3>3. 1 \in Arrivals(E)
      BY <3>2 DEF Arrivals, QueueRange
    <3>. QED
      BY <3>2, <3>3 DEF HeadKept
  <2>. QED
    BY <1>1, <1>2, <1>3, <2>1, <2>2, ThreadFacts DEF InfoRight, VisitorReads, queue, clock
<1>13. RankKept'
  BY DEF RankKept, VisitorReads, counters, flags
<1>. QED
  BY <1>4, <1>6, <1>7, <1>8, <1>9, <1>10, <1>11, <1>12, <1>13, AsstUndisturbed

\* The doctor, or a visitor outside, goes on to a place where nobody waits at
\* the barrier; asst_done, doc_done and done_time may change.
Calm(x, to) ==
  /\ x = Doctor => at[x] \notin {"barred", "gone"} /\ to \in DoctorPlaces \ {"barred"}
  /\ x # Doctor => at[x] \in Outside \ {"new"} /\ to \in Outside \ {"new"}
  /\ at' \in [People -> AsstPlaces \union DoctorPlaces \union VisitorPlaces]
  /\ at'[x] = to /\ \A y \in People \ {x, Asst} : at'[y] = at[y]
  /\ at'[Asst] = at[Asst] \/ (at[Asst] \in Asleep /\ at'[Asst] \in Asleep)
  /\ UNCHANGED <<queue, own, counters, current_time, doc_session_done, called, visits, count>>
  /\ asst_done' \in BOOLEAN /\ doc_done' \in BOOLEAN /\ done_time' \in Nat

\* A calm step keeps all but the hand-shakes.
LEMMA CalmStep ==
  ASSUME IInv, NEW x \in {Doctor} \union DOMAIN thr, NEW to, Calm(x, to)
  PROVE  /\ Undisturbed
         /\ DoctorFollows' /\ VisitorsFollow' => IInv'
<1>. USE PeopleFacts DEF IInv, Ranges
<1>1. /\ x \in People \ {Asst} /\ Len(thr) \in Nat /\ (x # Doctor => x \in 1 .. Len(thr))
      /\ \A k \in DOMAIN thr : k \in People /\ k # Asst /\ k # Doctor /\ k \in 1 .. N
  BY ThreadFacts
<1>2. thr' = thr /\ visitor_infos' = visitor_infos /\ next' = next /\ current_time' = current_time
  BY DEF Calm, visits, queue
<1>3. Undisturbed
  BY <1>1, <1>2 DEF Calm, Undisturbed, CounterRange
<1>4. Ranges'
  BY DEF Calm, QueueRange, CounterRange, FlagRange, ThreadRange, queue, own, counters, visits
<1>5. Places'
  BY <1>1, <1>2 DEF Calm, Places, VisitorPlaces, AsstPlaces, Outside, Visitors, Asleep
<1>6. BarrierCounts'
  BY <1>1, <1>2 DEF Calm, BarrierCounts, One, Outside, Asleep
<1>7. WaitingExact'
  <2>1. \A t : Outsiders(t)' = Outsiders(t)
    BY <1>1, <1>2, SameOutsiders DEF Calm
  <2>. QED
    BY <1>3, <2>1, Phases DEF WaitingExact, Calm, One, counters, queue
<1>8. InfoRight'
  BY <1>1, <1>2 DEF InfoRight, Calm
<1>9. RankKept'
  BY DEF RankKept, Calm, counters
<1>. QED
  BY <1>3, <1>4, <1>5, <1>6, <1>7, <1>8, <1>9, AsstUndisturbed

\* The doctor or a visitor sets asst_done.
LEMMA TellStep ==
  ASSUME IInv, NEW x \in {Doctor} \union DOMAIN thr, Tell(x)
  PROVE  IInv'
<1>. USE PeopleFacts DEF IInv, Ranges
<1>1. /\ x \in People \ {Asst} /\ Len(thr) \in Nat /\ (x # Doctor => x \in 1 .. Len(thr))
      /\ \A k \in DOMAIN thr : k \in People /\ k # Asst /\ k # Doctor /\ k \in 1 .. N
  BY ThreadFacts
<1>2. /\ at' = [at EXCEPT ![x] = "ring"] /\ at[x] = "tell" /\ at'[x] = "ring" /\ asst_done' = TRUE
      /\ \A y \in People \ {x} : at'[y] = at[y]
  BY <1>1 DEF Tell, Goto, Places
<1>3. Calm(x, "ring")
  <2>1. at' \in [People -> AsstPlaces \union DoctorPlaces \union VisitorPlaces]
    BY <1>1, <1>2 DEF Places, DoctorPlaces
  <2>. QED
    BY <1>1, <1>2, <2>1 DEF Calm, Tell, DoctorPlaces, Outside, clock, flags, FlagRange, CounterRange
<1>4. Undisturbed /\ thr' = thr /\ next' = next /\ called' = called
  BY <1>3, CalmStep DEF Calm, visits, queue
<1>5. doc_done' = doc_done /\ doc_session_done' = doc_session_done /\ after' = after /\ at'[Asst] = at[Asst]
  BY <1>1, <1>2 DEF Tell, clock, own
<1>6. CASE x = Doctor
  <2>1. Waking /\ Visiting /\ ~Fresh /\ at[Asst] # "join" /\ at[Asst] # "call" /\ ~Meeting /\ ~doc_done
    BY <1>2, <1>6 DEF DoctorFollows, Waking, Visiting, Fresh, Meeting, Asleep
  <2>2. DoctorFollows'
    BY <1>2, <1>4, <1>5, <1>6, <2>1, Phases DEF DoctorFollows
  <2>3. VisitorsFollow'
    BY <1>1, <1>2, <1>4, <1>5, <1>6, <2>1, Phases DEF VisitorsFollow
  <2>. QED
    BY <1>3, <2>2, <2>3, CalmStep
<1>7. CASE x # Doctor
  <2>1. Fresh /\ x = Len(thr) /\ at[Asst] \in Asleep /\ x \in DOMAIN thr /\ ~Visiting /\ at[Asst] # "join"
    BY <1>2, <1>7 DEF VisitorsFollow, Untold, Fresh, Visiting, Waking, Meeting, Asleep
  <2>2. DoctorFollows'
    BY <1>1, <1>2, <1>4, <1>5, <1>7, <2>1, Phases DEF DoctorFollows, Visiting, Fresh, Asleep
  <2>3. VisitorsFollow'
    BY <1>1, <1>2, <1>4, <1>5, <1>7, <2>1, Phases DEF VisitorsFollow, Untold, In, Outside
  <2>. QED
    BY <1>3, <2>2, <2>3, CalmStep
<1>. QED
  BY <1>6, <1>7

\* He signals asst_cond: the doctor then goes to the barrier, a visitor asks.
LEMMA RingStep ==
  ASSUME IInv, NEW x \in {Doctor} \union DOMAIN thr,
         Ring(x, IF x = Doctor THEN "barrier" ELSE "ask")
  PROVE  IInv'
<1>. USE PeopleFacts DEF IInv, Ranges
<1>. DEFINE to == IF x = Doctor THEN "barrier" ELSE "ask"
<1>1. /\ x \in People \ {Asst} /\ Len(thr) \in Nat /\ (x # Doctor => x \in 1 .. Len(thr))
      /\ \A k \in DOMAIN thr : k \in People /\ k # Asst /\ k # Doctor /\ k \in 1 .. N
  BY ThreadFacts
<1>2. /\ at' = [at EXCEPT ![x] = to, ![Asst] = IF @ = "asleep" THEN "test" ELSE @]
      /\ at[x] = "ring" /\ at'[x] = to
      /\ at'[Asst] = IF at[Asst] = "asleep" THEN "test" ELSE at[Asst]
      /\ \A y \in People \ {x, Asst} : at'[y] = at[y]
  BY <1>1 DEF Ring, Places
<1>3. Calm(x, to)
  <2>1. at' \in [People -> AsstPlaces \union DoctorPlaces \union VisitorPlaces]
    BY <1>1, <1>2 DEF Places, DoctorPlaces, VisitorPlaces, AsstPlaces, Outside
  <2>. QED
    BY <1>1, <1>2, <2>1 DEF Calm, Ring, DoctorPlaces, Outside, Asleep, clock, flags, FlagRange, CounterRange
<1>4. /\ Undisturbed /\ thr' = thr /\ next' = next /\ called' = called /\ asst_done' = asst_done
      /\ doc_done' = doc_done /\ doc_session_done' = doc_session_done
  BY <1>3, CalmStep DEF Calm, visits, queue, Ring, flags
<1>5. /\ at'[Asst] \in Asleep <=> at[Asst] \in Asleep
      /\ at'[Asst] = "call" <=> at[Asst] = "call"
      /\ at'[Asst] = "join" <=> at[Asst] = "join"
  BY <1>2 DEF Asleep
<1>6. DoctorFollows'
  <2>1. \/ at'[Doctor] = at[Doctor]
        \/ at[Doctor] = "ring" /\ at'[Doctor] = "barrier"
    BY <1>1, <1>2
  <2>. QED
    BY <1>4, <1>5, <2>1, Phases DEF DoctorFollows
<1>7. VisitorsFollow'
  <2>1. \A k \in DOMAIN thr : at'[k] = at[k] \/ (at[k] = "ring" /\ at'[k] = "ask")
    BY <1>1, <1>2
  <2>2. Fresh => Len(thr) \in DOMAIN thr
    BY <1>1, ThreadFacts DEF VisitorsFollow
  <2>3. \A k \in DOMAIN thr : /\ at'[k] \in Untold <=> at[k] \in Untold
                              /\ at'[k] \in Outside <=> at[k] \in Outside
                              /\ at'[k] \in In <=> at[k] \in In
    BY <2>1 DEF Untold, In, Outside
  <2>. QED
    BY <1>4, <1>5, <2>2, <2>3, Phases DEF VisitorsFollow
<1>. QED
  BY <1>3, <1>6, <1>7, CalmStep

\* The doctor's steps on his own: test, go on, leave.
LEMMA DoctorAloneStep ==
  ASSUME IInv, DoctorTests \/ DoctorGoesOn \/ DoctorLeaves
  PROVE  IInv'
<1>. USE PeopleFacts DEF IInv, Ranges
<1>. DEFINE to == at'[Doctor]
<1>1. /\ Doctor \in People \ {Asst} /\ Len(thr) \in Nat
      /\ \A k \in DOMAIN thr : k \in People /\ k # Asst /\ k # Doctor /\ k \in 1 .. N
  BY ThreadFacts
<1>2. /\ to \in {"woken", "asleep", "tell", "gone"}
      /\ at' = [at EXCEPT ![Doctor] = to]
      /\ at[Doctor] \in {"wait", "woken"} /\ \A y \in People \ {Doctor} : at'[y] = at[y]
  BY <1>1 DEF DoctorTests, DoctorGoesOn, DoctorLeaves, Goto, Places
<1>3. Calm(Doctor, to)
  <2>1. at' \in [People -> AsstPlaces \union DoctorPlaces \union VisitorPlaces]
    <3>. HIDE DEF to
    <3>. QED
      BY <1>1, <1>2 DEF Places, DoctorPlaces
  <2>2. UNCHANGED <<queue, own, counters, current_time, doc_session_done, called, visits, count>>
    BY DEF DoctorTests, DoctorGoesOn, DoctorLeaves, clock, flags
  <2>3. asst_done' \in BOOLEAN /\ doc_done' \in BOOLEAN /\ done_time' \in Nat
    BY DEF DoctorTests, DoctorGoesOn, DoctorLeaves, clock, flags, FlagRange, CounterRange
  <2>. QED
    BY <1>1, <1>2, <2>1, <2>2, <2>3 DEF Calm, DoctorPlaces
<1>4. /\ Undisturbed /\ thr' = thr /\ next' = next /\ called' = called /\ asst_done' = asst_done
      /\ doc_session_done' = doc_session_done /\ at'[Asst] = at[Asst]
  BY <1>1, <1>2, <1>3, CalmStep DEF Calm, visits, queue, DoctorTests, DoctorGoesOn, DoctorLeaves, flags
<1>5. DoctorFollows'
  <2>1. CASE DoctorTests
    <3>1. doc_done' = FALSE /\ to = IF doc_done THEN "woken" ELSE "asleep"
      BY <1>1, <2>1 DEF DoctorTests, Goto, Places
    <3>. QED
      BY <1>2, <1>4, <2>1, <3>1, Phases DEF DoctorFollows, DoctorTests, Visiting
  <2>2. CASE DoctorGoesOn
    <3>1. to = "tell" /\ doc_done' = doc_done
      BY <1>1, <2>2 DEF DoctorGoesOn, Goto, Places, flags
    <3>. QED
      BY <1>2, <1>4, <2>2, <3>1, Phases DEF DoctorFollows, DoctorGoesOn, Visiting
  <2>3. CASE DoctorLeaves
    <3>1. to = "gone" /\ doc_done' = doc_done
      BY <1>1, <2>3 DEF DoctorLeaves, Goto, Places, flags
    <3>. QED
      BY <1>2, <1>4, <2>3, <3>1, Phases DEF DoctorFollows, DoctorLeaves, Visiting, PartsKnown
  <2>. QED
    BY <2>1, <2>2, <2>3
<1>6. VisitorsFollow'
  BY <1>1, <1>2, <1>4, Phases DEF VisitorsFollow
<1>. QED
  BY <1>3, <1>5, <1>6, CalmStep

\* A visitor's steps on its own: lock, sleep, wake.
LEMMA VisitorAloneStep ==
  ASSUME IInv, NEW k \in DOMAIN thr, VisitorLocks(k) \/ VisitorSleeps(k) \/ VisitorWakes(k)
  PROVE  IInv'
<1>. USE PeopleFacts DEF IInv, Ranges
<1>. DEFINE to == at'[k]
<1>1. /\ k \in People \ {Asst, Doctor} /\ Len(thr) \in Nat /\ k \in 1 .. Len(thr)
      /\ \A j \in DOMAIN thr : j \in People /\ j # Asst /\ j # Doctor /\ j \in 1 .. N
  BY ThreadFacts
<1>2. /\ \/ at[k] = "lock" /\ to = "tell"
         \/ at[k] = "ask" /\ to = "asleep"
         \/ at[k] = "awake" /\ to = "ask"
      /\ at' = [at EXCEPT ![k] = to]
      /\ \A y \in People \ {k} : at'[y] = at[y]
  BY <1>1 DEF VisitorLocks, VisitorSleeps, VisitorWakes, Goto, Places
<1>3. UNCHANGED <<queue, own, counters, clock, flags, visits, count>>
  BY DEF VisitorLocks, VisitorSleeps, VisitorWakes
<1>4. Calm(k, to)
  <2>1. at' \in [People -> AsstPlaces \union DoctorPlaces \union VisitorPlaces]
    <3>. HIDE DEF to
    <3>. QED
      BY <1>1, <1>2 DEF Places, VisitorPlaces, Outside
  <2>. QED
    BY <1>1, <1>2, <1>3, <2>1 DEF Calm, Outside, clock, flags, FlagRange, CounterRange
<1>5. /\ Undisturbed /\ thr' = thr /\ next' = next /\ called' = called /\ asst_done' = asst_done
      /\ doc_done' = doc_done /\ doc_session_done' = doc_session_done
      /\ at'[Asst] = at[Asst] /\ at'[Doctor] = at[Doctor]
  BY <1>1, <1>2, <1>3, <1>4, CalmStep DEF visits, queue, flags, clock
<1>6. DoctorFollows'
  BY <1>5, Phases DEF DoctorFollows
<1>7. VisitorsFollow'
  BY <1>1, <1>2, <1>5, Phases DEF VisitorsFollow, Untold, In, Outside
<1>. QED
  BY <1>4, <1>6, <1>7, CalmStep

\* A visitor who has been called goes in.
LEMMA VisitorGoesInStep ==
  ASSUME IInv, NEW k \in DOMAIN thr, VisitorGoesIn(k)
  PROVE  IInv'
<1>. USE PeopleFacts DEF IInv, Ranges
<1>. DEFINE t == thr[k].type
<1>1. /\ k \in People \ {Asst, Doctor} /\ Len(thr) \in Nat /\ k \in 1 .. Len(thr) /\ t \in Kinds
      /\ \A j \in DOMAIN thr : j \in People /\ j # Asst /\ j # Doctor /\ j \in 1 .. N
  BY ThreadFacts
<1>2. /\ at' = [at EXCEPT ![k] = "inside"]
      /\ at[k] = "ask" /\ at'[k] = "inside" /\ \A y \in People \ {k} : at'[y] = at[y]
  BY <1>1 DEF VisitorGoesIn, Goto, Places
<1>3. called[t] /\ called' = [called EXCEPT ![t] = FALSE]
  BY DEF VisitorGoesIn
<1>4. Meeting /\ ~Fresh
  BY <1>1, <1>3 DEF VisitorsFollow, Fresh, Meeting, Asleep
<1>5. called' \in [Kinds -> BOOLEAN] /\ \A s \in Kinds : ~called'[s] /\ (called[s] <=> s = t)
  BY <1>1, <1>3 DEF VisitorsFollow, FlagRange
<1>6. \A j \in DOMAIN thr : at[j] \notin In
  BY <1>1, <1>3 DEF VisitorsFollow
<1>7. /\ thr' = thr /\ visitor_infos' = visitor_infos /\ next' = next /\ current_time' = current_time
      /\ asst_done' = asst_done /\ doc_done' = doc_done /\ doc_session_done' = doc_session_done
      /\ waiting' = waiting /\ count' = count /\ at'[Asst] = at[Asst] /\ at'[Doctor] = at[Doctor]
  BY <1>1, <1>2 DEF VisitorGoesIn, queue, visits, clock, counters
<1>8. Undisturbed
  BY <1>7 DEF VisitorGoesIn, Undisturbed, CounterRange, clock
<1>9. Ranges'
  BY <1>5, <1>7 DEF VisitorGoesIn, QueueRange, CounterRange, FlagRange, ThreadRange, queue, own, counters, visits, clock
<1>10. Places'
  BY <1>1, <1>2, <1>7 DEF Places, VisitorPlaces, Outside, Visitors
<1>11. DoctorFollows'
  BY <1>7, <1>8, Phases DEF DoctorFollows
<1>12. VisitorsFollow'
  BY <1>1, <1>2, <1>4, <1>5, <1>6, <1>7, <1>8, Phases DEF VisitorsFollow, Untold, In
<1>13. BarrierCounts'
  BY <1>1, <1>2, <1>7 DEF BarrierCounts, One
<1>14. WaitingExact'
  <2>1. \A s \in Kinds : Outsiders(s)' = IF s = t THEN Outsiders(s) \ {k} ELSE Outsiders(s)
    BY <1>1, <1>2, <1>7 DEF Outsiders, Outside
  <2>2. k \in Outsiders(t)
    BY <1>2 DEF Outsiders, Outside
  <2>3. \A s \in Kinds : Cardinality(Outsiders(s)') =
                           IF s = t THEN Cardinality(Outsiders(s)) - 1 ELSE Cardinality(Outsiders(s))
    BY <2>1, <2>2, OutsidersFinite, FS_RemoveElement
  <2>. QED
    BY <1>1, <1>4, <1>5, <1>7, <1>8, <2>3, OutsidersFinite, Phases DEF WaitingExact, One, CounterRange
<1>15. InfoRight'
  BY <1>1, <1>2, <1>7 DEF InfoRight
<1>16. RankKept'
  BY <1>5 DEF RankKept
<1>. QED
  BY <1>8, <1>9, <1>10, <1>11, <1>12, <1>13, <1>14, <1>15, <1>16, AsstUndisturbed

\* The visitor inside adds its duration to the clock.
LEMMA VisitorTalksStep ==
  ASSUME IInv, NEW k \in DOMAIN thr, VisitorTalks(k)
  PROVE  IInv'
<1>. USE PeopleFacts DEF IInv, Ranges
<1>1. /\ k \in People \ {Asst, Doctor} /\ Len(thr) \in Nat /\ k \in 1 .. Len(thr) /\ thr[k].duration \in Nat
      /\ \A j \in DOMAIN thr : j \in People /\ j # Asst /\ j # Doctor /\ j \in 1 .. N /\ thr[j].came \in Int
  BY ThreadFacts
<1>2. /\ at' = [at EXCEPT ![k] = "barrier"]
      /\ at[k] = "inside" /\ at'[k] = "barrier" /\ \A y \in People \ {k} : at'[y] = at[y]
  BY <1>1 DEF VisitorTalks, Goto, Places
<1>3. /\ thr' = thr /\ visitor_infos' = visitor_infos /\ next' = next /\ called' = called
      /\ asst_done' = asst_done /\ doc_done' = doc_done /\ doc_session_done' = doc_session_done
      /\ waiting' = waiting /\ count' = count /\ at'[Asst] = at[Asst] /\ at'[Doctor] = at[Doctor]
  BY <1>1, <1>2 DEF VisitorTalks, queue, visits, flags, counters
<1>4. current_time' = current_time + thr[k].duration /\ current_time \in Nat /\ current_time' \in Nat
      /\ current_time' >= current_time
  BY <1>1 DEF VisitorTalks, CounterRange
<1>5. Undisturbed
  BY <1>3, <1>4 DEF VisitorTalks, Undisturbed
<1>6. Ranges'
  BY <1>3, <1>4 DEF VisitorTalks, QueueRange, CounterRange, FlagRange, ThreadRange, queue, own, counters
<1>7. Places'
  BY <1>1, <1>2, <1>3 DEF Places, VisitorPlaces, Outside, Visitors
<1>8. DoctorFollows'
  BY <1>3, <1>5, Phases DEF DoctorFollows
<1>9. VisitorsFollow'
  BY <1>1, <1>2, <1>3, <1>5, Phases DEF VisitorsFollow, Untold, In, Outside
<1>10. BarrierCounts'
  BY <1>1, <1>2, <1>3 DEF BarrierCounts, One
<1>11. WaitingExact'
  <2>1. \A s : Outsiders(s)' = Outsiders(s)
    BY <1>1, <1>2, <1>3, SameOutsiders DEF Outside
  <2>. QED
    BY <1>3, <1>5, <2>1, Phases DEF WaitingExact, One
<1>12. InfoRight'
  <2>. SUFFICES ASSUME NEW j \in DOMAIN thr
                PROVE  /\ at'[j] = "new" => visitor_infos'[thr'[j].arg] = next'.duration
                       /\ at'[j] # "new" => thr'[j].duration > 0
                       /\ thr'[j].came <= current_time'
    BY <1>3 DEF InfoRight
  <2>1. at'[j] = "new" <=> at[j] = "new"
    BY <1>1, <1>2
  <2>2. thr[j].came <= current_time /\ thr[j].came \in Int
    BY <1>1 DEF InfoRight
  <2>. QED
    BY <1>3, <1>4, <2>1, <2>2 DEF InfoRight
<1>13. RankKept'
  BY <1>3 DEF RankKept
<1>. QED
  BY <1>5, <1>6, <1>7, <1>8, <1>9, <1>10, <1>11, <1>12, <1>13, AsstUndisturbed

----------------------------------------------------------------------------
(* The barrier.                                                             *)

\* The first and the second to come to the barrier wait.
LEMMA MeetWaits ==
  ASSUME IInv, NEW x \in {Asst, Doctor} \union DOMAIN thr, Meet(x), count + 1 < 3
  PROVE  IInv'
<1>. USE PeopleFacts DEF IInv, Ranges
<1>1. /\ x \in People /\ Len(thr) \in Nat /\ (x \notin {Asst, Doctor} => x \in 1 .. Len(thr))
      /\ \A k \in DOMAIN thr : k \in People /\ k # Asst /\ k # Doctor /\ k \in 1 .. N
  BY ThreadFacts
<1>2. count \in Nat /\ count' = count + 1 /\ count' < 3 /\ at' = [at EXCEPT ![x] = "barred"]
  BY DEF Meet, Goto, CounterRange
<1>3. at[x] = "barrier" /\ at'[x] = "barred" /\ \A y \in People \ {x} : at'[y] = at[y]
  BY <1>1, <1>2 DEF Meet, Places
<1>4. UNCHANGED <<queue, own, counters, clock, flags, visits>>
  BY DEF Meet
<1>5. /\ thr' = thr /\ visitor_infos' = visitor_infos /\ next' = next /\ called' = called
      /\ asst_done' = asst_done /\ doc_done' = doc_done /\ doc_session_done' = doc_session_done
      /\ waiting' = waiting /\ current_time' = current_time
  BY <1>4 DEF queue, counters, clock, flags, visits
<1>6. Undisturbed
  BY <1>1, <1>3, <1>4, <1>5 DEF Undisturbed, CounterRange
<1>7. Ranges'
  BY <1>2, <1>4 DEF QueueRange, CounterRange, FlagRange, ThreadRange, queue, own, counters, clock, flags, visits
<1>8. Places'
  BY <1>1, <1>2, <1>3, <1>5 DEF Places, VisitorPlaces, AsstPlaces, DoctorPlaces, Outside, Visitors
<1>9. DoctorFollows'
  <2>1. \/ at'[Doctor] = at[Doctor]
        \/ at[Doctor] = "barrier" /\ at'[Doctor] = "barred"
    BY <1>3
  <2>2. \/ at'[Asst] = at[Asst]
        \/ at[Asst] = "barrier" /\ at'[Asst] = "barred"
    BY <1>3
  <2>. QED
    BY <1>5, <1>6, <2>1, <2>2, Phases DEF DoctorFollows
<1>10. VisitorsFollow'
  <2>1. \A k \in DOMAIN thr : at'[k] = at[k] \/ (at[k] = "barrier" /\ at'[k] = "barred")
    BY <1>1, <1>3
  <2>2. Fresh => Len(thr) \in DOMAIN thr
    BY <1>1, ThreadFacts DEF VisitorsFollow
  <2>3. \A k \in DOMAIN thr : /\ at'[k] \in Untold <=> at[k] \in Untold
                              /\ at'[k] \in Outside <=> at[k] \in Outside
                              /\ at'[k] \in In <=> at[k] \in In
    BY <2>1 DEF Untold, In, Outside
  <2>4. at'[Asst] \in Asleep <=> at[Asst] \in Asleep
    BY <1>3 DEF Asleep
  <2>. QED
    BY <1>5, <1>6, <2>2, <2>3, <2>4, Phases DEF VisitorsFollow
<1>11. BarrierCounts'
  <2>1. CASE x \in {Asst, Doctor}
    <3>1. \A k \in DOMAIN thr : at'[k] = at[k]
      BY <1>1, <1>3, <2>1
    <3>. QED
      BY <1>2, <1>3, <1>5, <2>1, <3>1 DEF BarrierCounts, One
  <2>2. CASE x \notin {Asst, Doctor}
    <3>1. x \in DOMAIN thr /\ \A k \in DOMAIN thr : at[k] # "barred"
      BY <1>3, <2>2 DEF VisitorsFollow, In
    <3>2. at'[Asst] = at[Asst] /\ at'[Doctor] = at[Doctor]
      BY <1>3, <2>2
    <3>. QED
      BY <1>2, <1>3, <1>5, <3>1, <3>2 DEF BarrierCounts, One
  <2>. QED
    BY <2>1, <2>2
<1>12. WaitingExact'
  <2>1. \A k \in DOMAIN thr : at'[k] \in Outside <=> at[k] \in Outside
    BY <1>1, <1>3 DEF Outside
  <2>2. \A s : Outsiders(s)' = Outsiders(s)
    BY <1>5, <2>1, SameOutsiders
  <2>. QED
    BY <1>5, <1>6, <2>2, Phases DEF WaitingExact, One
<1>13. InfoRight'
  <2>1. \A k \in DOMAIN thr : at'[k] = "new" <=> at[k] = "new"
    BY <1>1, <1>3
  <2>. QED
    BY <1>5, <2>1 DEF InfoRight
<1>14. RankKept'
  BY <1>5 DEF RankKept
<1>. QED
  BY <1>6, <1>7, <1>8, <1>9, <1>10, <1>11, <1>12, <1>13, <1>14, AsstUndisturbed

\* The third to come is the third of the assistant, the doctor and one visitor.
LEMMA ThirdCame ==
  ASSUME IInv, NEW x \in {Asst, Doctor} \union DOMAIN thr, Meet(x), count + 1 >= 3
  PROVE  \E k \in DOMAIN thr :
           /\ at[Asst] \in {"barrier", "barred"} /\ at[Doctor] \in {"barrier", "barred"}
           /\ at[k] \in {"barrier", "barred"}
           /\ at'[Asst] = "note" /\ at'[Doctor] = "wait" /\ at'[k] = "gone"
           /\ \A y \in People \ {Asst, Doctor, k} : at'[y] = at[y] /\ at[y] # "barred"
<1>. USE PeopleFacts DEF IInv, Ranges
<1>1. /\ x \in People /\ Len(thr) \in Nat /\ DOMAIN thr = 1 .. Len(thr)
      /\ \A k \in DOMAIN thr : k \in People /\ k # Asst /\ k # Doctor /\ k \in 1 .. N
  BY ThreadFacts
<1>2. at[x] = "barrier"
  BY DEF Meet
<1>3. \A y \in People : at'[y] = IF at[y] = "barred" \/ y = x THEN Beyond(y) ELSE at[y]
  BY <1>1 DEF Meet
<1>4. One(at[Asst] = "barred") + One(at[Doctor] = "barred") + One(\E k \in DOMAIN thr : at[k] = "barred") >= 2
  <2>1. count \in Nat /\ count >= 2
    BY DEF CounterRange
  <2>2. count = One(at[Asst] = "barred") + One(at[Doctor] = "barred") + One(\E k \in DOMAIN thr : at[k] = "barred")
    BY DEF BarrierCounts
  <2>. QED
    BY <2>1, <2>2, Zenon
<1>5. /\ at[Asst] \in {"barrier", "barred"} /\ at[Doctor] \in {"barrier", "barred"}
      /\ at[Asst] = "barred" \/ x = Asst
      /\ at[Doctor] = "barred" \/ x = Doctor
  BY <1>1, <1>2, <1>4 DEF One, VisitorsFollow, In
<1>6. PICK k \in DOMAIN thr : at[k] \in {"barrier", "barred"} /\ (at[k] = "barred" \/ x = k)
  BY <1>1, <1>2, <1>4 DEF One
<1>7. \A y \in People \ {Asst, Doctor, k} : at[y] # "barred" /\ y # x
  <2>. SUFFICES ASSUME NEW y \in People \ {Asst, Doctor, k}, at[y] = "barred" \/ y = x PROVE FALSE
    OBVIOUS
  <2>1. y \in 1 .. N /\ at[y] \in {"barrier", "barred"}
    BY <1>2, PeopleFacts DEF People
  <2>2. y \in DOMAIN thr
    BY <1>1, <2>1 DEF Places, Visitors
  <2>. QED
    BY <1>6, <2>1, <2>2 DEF VisitorsFollow, In
<1>8. at'[Asst] = "note" /\ at'[Doctor] = "wait" /\ at'[k] = "gone"
  BY <1>1, <1>3, <1>5, <1>6 DEF Beyond
<1>. QED
  BY <1>3, <1>5, <1>6, <1>7, <1>8

\* The third opens the barrier.
LEMMA MeetOpens ==
  ASSUME IInv, NEW x \in {Asst, Doctor} \union DOMAIN thr, Meet(x), count + 1 >= 3
  PROVE  IInv'
<1>. USE PeopleFacts DEF IInv, Ranges
<1>1. /\ Len(thr) \in Nat /\ DOMAIN thr = 1 .. Len(thr)
      /\ \A k \in DOMAIN thr : k \in People /\ k # Asst /\ k # Doctor /\ k \in 1 .. N
  BY ThreadFacts
<1>2. PICK k \in DOMAIN thr :
        /\ at[Asst] \in {"barrier", "barred"} /\ at[Doctor] \in {"barrier", "barred"}
        /\ at[k] \in {"barrier", "barred"}
        /\ at'[Asst] = "note" /\ at'[Doctor] = "wait" /\ at'[k] = "gone"
        /\ \A y \in People \ {Asst, Doctor, k} : at'[y] = at[y] /\ at[y] # "barred"
  BY ThirdCame
<1>3. /\ count' = 0 /\ UNCHANGED <<queue, own, counters, clock, flags, visits>>
      /\ at' = [y \in People |-> at'[y]]
  BY DEF Meet, CounterRange
<1>4. /\ thr' = thr /\ visitor_infos' = visitor_infos /\ next' = next /\ called' = called
      /\ asst_done' = asst_done /\ doc_done' = doc_done /\ doc_session_done' = doc_session_done
      /\ waiting' = waiting /\ current_time' = current_time /\ part' = part /\ after' = after
      /\ num' = num /\ served' = served /\ E' = E /\ num_visitors' = num_visitors
  BY <1>3 DEF queue, own, counters, clock, flags, visits
<1>5. Meeting /\ Visiting /\ ~Fresh
  BY <1>2 DEF Meeting, Visiting, Fresh, Asleep
<1>6. ~Fresh' /\ ~Visiting' /\ ~Waking' /\ ~Meeting'
  BY <1>2 DEF Meeting, Visiting, Waking, Fresh, Asleep
<1>7. Counted' <=> Counted
  BY <1>2, <1>4, <1>5 DEF Counted, Visiting, Meeting, Waking, Asleep
<1>8. \A j \in DOMAIN thr : \/ at'[j] = at[j] /\ j # k
                            \/ j = k /\ at[j] \in In /\ at'[j] = "gone"
  BY <1>1, <1>2 DEF In
<1>9. \A t \in Kinds : ~called[t]
  BY <1>2 DEF VisitorsFollow, In
<1>10. \A j \in DOMAIN thr : at'[j] \notin Untold \union In
  BY <1>2, <1>5, <1>8 DEF VisitorsFollow, Untold, In
<1>11. Ranges'
  BY <1>3, <1>4 DEF QueueRange, CounterRange, FlagRange, ThreadRange, queue, own, counters, clock, flags, visits
<1>12. Places'
  <2>1. \A y \in Visitors : at'[y] = at[y] \/ (y = k /\ at'[y] = "gone")
    BY <1>2 DEF Visitors
  <2>2. \A y \in People : at'[y] \in AsstPlaces \union DoctorPlaces \union VisitorPlaces
    BY <1>2 DEF Places, AsstPlaces, DoctorPlaces, VisitorPlaces
  <2>3. at' \in [People -> AsstPlaces \union DoctorPlaces \union VisitorPlaces]
    BY <1>3, <2>2
  <2>4. k \in 1 .. Len(thr) /\ k \in Visitors
    BY <1>1 DEF Visitors
  <2>. QED
    BY <1>1, <1>2, <1>4, <2>1, <2>3, <2>4 DEF Places, AsstPlaces, DoctorPlaces, VisitorPlaces
<1>13. DoctorFollows'
  BY <1>2, <1>4, <1>5, <1>6 DEF DoctorFollows
<1>14. VisitorsFollow'
  BY <1>4, <1>6, <1>9, <1>10 DEF VisitorsFollow
<1>15. BarrierCounts'
  BY <1>2, <1>3, <1>4, <1>8, <1>10 DEF BarrierCounts, One, In
<1>16. WaitingExact'
  <2>1. \A j \in DOMAIN thr : at'[j] \in Outside <=> at[j] \in Outside
    BY <1>8 DEF Outside, In
  <2>2. \A s : Outsiders(s)' = Outsiders(s)
    BY <1>4, <2>1, SameOutsiders
  <2>. QED
    BY <1>4, <1>5, <1>6, <2>2 DEF WaitingExact, One
<1>17. QuotasKept'
  BY <1>2, <1>4, <1>6 DEF QuotasKept, Nobody, Quota
<1>18. PartsKnown'
  BY <1>2, <1>4, <1>5, <1>6 DEF PartsKnown, Nobody, Counted
<1>19. HeadKept'
  BY <1>2, <1>4, <1>5, <1>6, <1>7 DEF HeadKept, Arrivals
<1>20. ArrivalsCounted'
  BY <1>4, <1>5, <1>6, <1>7 DEF ArrivalsCounted, AllNum, Arrivals, One
<1>21. InfoRight'
  <2>1. \A j \in DOMAIN thr : at'[j] # "new" /\ at[j] # "new"
    BY <1>5, <1>10 DEF Untold, VisitorsFollow
  <2>. QED
    BY <1>4, <2>1 DEF InfoRight
<1>22. RankKept'
  BY <1>4 DEF RankKept
<1>. QED
  BY <1>11, <1>12, <1>13, <1>14, <1>15, <1>16, <1>17, <1>18, <1>19, <1>20, <1>21, <1>22

----------------------------------------------------------------------------
(* Steps of the assistant between two events.                               *)

\* Where the assistant is when no visit and no new thread is under way.
QuietPlaces == {"look", "dismiss", "join", "deal", "attend", "note", "turn", "idle", "over"}

\* Where she neither waits for a thread nor meets anybody, no visitor has been
\* called, is inside, or has not reported.
LEMMA QuietNow ==
  ASSUME IInv, at[Asst] \in QuietPlaces
  PROVE  /\ ~Fresh /\ ~Waking /\ ~Meeting /\ ~Visiting /\ ~asst_done
         /\ Counted <=> part = "arrival" /\ at[Asst] \in {"attend", "note", "turn"}
         /\ \A k \in DOMAIN thr : at[k] \notin Untold \union In
         /\ \A t \in Kinds : ~called[t]
<1>1. ~Fresh /\ ~Waking /\ ~Meeting /\ ~Visiting
  BY DEF QuietPlaces, Fresh, Waking, Meeting, Visiting, Asleep
<1>2. Counted <=> part = "arrival" /\ at[Asst] \in {"attend", "note", "turn"}
  BY <1>1 DEF Counted
<1>. QED
  BY <1>1, <1>2 DEF IInv, DoctorFollows, VisitorsFollow

\* She goes from one of them to another, and leaves the visitors alone.
QuietMove(to) ==
  /\ at[Asst] \in QuietPlaces /\ to \in QuietPlaces \ {"join"}
  /\ at[Asst] = "join" => at[Doctor] = "gone"
  /\ at' = [at EXCEPT ![Asst] = to]
  /\ doc_session_done => doc_session_done'
  /\ current_time' \in Nat /\ current_time' >= current_time
  /\ UNCHANGED <<thr, visitor_infos, waiting, called, asst_done, doc_done, count>>

\* A step of hers between two such places, which changes no visit, keeps what is
\* about the threads.
LEMMA QuietStep ==
  ASSUME IInv, NEW to, QuietMove(to)
  PROVE  /\ at'[Asst] = to /\ at'[Doctor] = at[Doctor]
         /\ ~Fresh' /\ ~Waking' /\ ~Meeting' /\ ~Visiting'
         /\ Counted' <=> part' = "arrival" /\ to \in {"attend", "note", "turn"}
         /\ Places' /\ DoctorFollows' /\ VisitorsFollow' /\ BarrierCounts' /\ WaitingExact'
         /\ InfoRight' /\ RankKept'
<1>. USE PeopleFacts DEF IInv, Ranges
<1>1. /\ Len(thr) \in Nat /\ DOMAIN thr = 1 .. Len(thr) /\ current_time \in Nat
      /\ \A k \in DOMAIN thr : k \in People /\ k # Asst /\ k # Doctor /\ k \in 1 .. N /\ thr[k].came \in Int
  BY ThreadFacts DEF CounterRange
<1>2. /\ at[Asst] \in QuietPlaces /\ at'[Asst] = to /\ at'[Doctor] = at[Doctor]
      /\ \A y \in People \ {Asst} : at'[y] = at[y]
  BY DEF QuietMove, Places
<1>3. /\ ~Fresh /\ ~Waking /\ ~Meeting /\ ~Visiting /\ ~asst_done
      /\ \A k \in DOMAIN thr : at[k] \notin Untold \union In
      /\ \A t \in Kinds : ~called[t]
  BY <1>2, QuietNow
<1>4. thr' = thr /\ called' = called /\ asst_done' = asst_done /\ doc_done' = doc_done
      /\ waiting' = waiting /\ count' = count
  BY DEF QuietMove
<1>5. \A k \in DOMAIN thr : at'[k] = at[k]
  BY <1>1, <1>2
<1>6. ~Fresh' /\ ~Waking' /\ ~Meeting' /\ ~Visiting' /\ to # "join" /\ to # "call"
  BY <1>2 DEF QuietMove, QuietPlaces, Fresh, Waking, Meeting, Visiting, Asleep
<1>7. Counted' <=> part' = "arrival" /\ to \in {"attend", "note", "turn"}
  BY <1>2, <1>6 DEF Counted
<1>8. Places'
  BY <1>1, <1>2, <1>4 DEF Places, QuietMove, QuietPlaces, AsstPlaces, Visitors
<1>9. DoctorFollows'
  BY <1>2, <1>3, <1>4, <1>6 DEF DoctorFollows, QuietMove
<1>10. VisitorsFollow'
  BY <1>3, <1>4, <1>5, <1>6 DEF VisitorsFollow
<1>11. BarrierCounts'
  BY <1>2, <1>4, <1>5 DEF BarrierCounts, QuietMove, QuietPlaces
<1>12. WaitingExact'
  <2>1. \A s : Outsiders(s)' = Outsiders(s)
    BY <1>4, <1>5, SameOutsiders
  <2>. QED
    BY <1>3, <1>4, <1>6, <2>1 DEF WaitingExact
<1>13. InfoRight'
  <2>. SUFFICES ASSUME NEW k \in DOMAIN thr
                PROVE  at'[k] # "new" /\ thr'[k].duration > 0 /\ thr'[k].came <= current_time'
    BY <1>4 DEF InfoRight
  <2>1. at[k] # "new" /\ at'[k] # "new"
    BY <1>3, <1>5 DEF Untold
  <2>. QED
    BY <1>1, <1>4, <2>1 DEF InfoRight, QuietMove
<1>14. RankKept'
  BY <1>4 DEF RankKept
<1>. QED
  BY <1>2, <1>6, <1>7, <1>8, <1>9, <1>10, <1>11, <1>12, <1>13, <1>14

\* The session ends exactly when both quotas are served; nobody waits then.
LEMMA QuotasChecked ==
  ASSUME IInv, CheckQuotas, UNCHANGED <<num, waiting>>, part # "final"
  PROVE  /\ served' \in [{"P", "S"} -> Nat] /\ done_time' \in Nat /\ doc_session_done' \in BOOLEAN
         /\ doc_session_done => doc_session_done'
         /\ doc_session_done' => Nobody
         /\ doc_session_done' => \A t \in {"P", "S"} : served'[t] = Quota[t] + 1 /\ Quota[t] <= num[t]
         /\ ~doc_session_done' => served' = served /\ ~(\A t \in {"P", "S"} : served'[t] = Quota[t])
         /\ \A t \in {"P", "S"} : served'[t] <= Quota[t] + 1
<1>. USE DEF IInv, Ranges
<1>1. /\ served \in [{"P", "S"} -> Nat] /\ done_time \in Nat /\ doc_session_done \in BOOLEAN
      /\ waiting \in [Kinds -> Nat] /\ num \in [Kinds -> Nat] /\ current_time \in Nat
  BY DEF CounterRange, FlagRange
<1>2. CASE ~doc_session_done /\ served = Quota
  <2>1. /\ doc_session_done' = TRUE /\ done_time' = current_time
        /\ served' = [t \in {"P", "S"} |-> served[t] + 1]
    BY <1>2, QuotaFacts DEF CheckQuotas
  <2>2. \A t \in {"P", "S"} : served[t] = Quota[t] /\ waiting[t] = 0 /\ Quota[t] <= num[t]
    BY <1>1, <1>2, QuotaFacts DEF QuotasKept, Kinds
  <2>3. waiting["R"] = 0
    BY <1>2, <2>2 DEF QuotasKept
  <2>. QED
    BY <1>1, <2>1, <2>2, <2>3 DEF Nobody, Kinds
<1>3. CASE ~(~doc_session_done /\ served = Quota)
  <2>1. doc_session_done' = doc_session_done /\ done_time' = done_time /\ served' = served
    BY <1>3 DEF CheckQuotas
  <2>2. ~doc_session_done => ~(\A t \in {"P", "S"} : served[t] = Quota[t])
    BY <1>1, <1>3, QuotaFacts
  <2>. QED
    BY <1>1, <2>1, <2>2 DEF QuotasKept
<1>. QED
  BY <1>2, <1>3

\* An event is looked at.
LEMMA LookStep == IInv /\ Look => IInv'
<1>. SUFFICES ASSUME IInv, Look PROVE IInv'
  OBVIOUS
<1>. USE DEF IInv, Ranges
<1>. DEFINE to == IF doc_session_done' /\ next'.time > done_time' THEN "dismiss" ELSE "deal"
<1>1. /\ at[Asst] = "look" /\ E # << >> /\ next' = E[1] /\ part' = "arrival" /\ CheckQuotas
      /\ at' = [at EXCEPT ![Asst] = to]
      /\ UNCHANGED <<E, doc_arrived, after, num, waiting, num_visitors, current_time, flags, visits, count>>
  BY DEF Look, emptyQ, nextevent, Goto
<1>2. part # "final" /\ E \in Seq(Event) /\ E[1] \in Event /\ next' \in Event
  BY <1>1 DEF PartsKnown, QueueRange
<1>3. /\ served' \in [{"P", "S"} -> Nat] /\ done_time' \in Nat /\ doc_session_done' \in BOOLEAN
      /\ doc_session_done => doc_session_done'
      /\ doc_session_done' => Nobody
      /\ doc_session_done' => \A t \in {"P", "S"} : served'[t] = Quota[t] + 1 /\ Quota[t] <= num[t]
      /\ ~doc_session_done' => served' = served /\ ~(\A t \in {"P", "S"} : served'[t] = Quota[t])
      /\ \A t \in {"P", "S"} : served'[t] <= Quota[t] + 1
  BY <1>1, <1>2, QuotasChecked
<1>4. QuietMove(to)
  BY <1>1, <1>3 DEF QuietMove, QuietPlaces, CounterRange, flags, visits
<1>5. /\ at'[Asst] = to /\ at'[Doctor] = at[Doctor]
      /\ ~Fresh' /\ ~Waking' /\ ~Meeting' /\ ~Visiting' /\ ~Counted'
      /\ Places' /\ DoctorFollows' /\ VisitorsFollow' /\ BarrierCounts' /\ WaitingExact'
      /\ InfoRight' /\ RankKept'
  <2>. HIDE DEF to
  <2>1. to \notin {"attend", "note", "turn"}
    BY DEF to
  <2>. QED
    BY <1>4, <2>1, QuietStep
<1>6. Ranges'
  BY <1>1, <1>2, <1>3 DEF QueueRange, CounterRange, FlagRange, ThreadRange, Event, flags, visits
<1>7. QuotasKept'
  BY <1>1, <1>3, <1>5 DEF QuotasKept, Nobody, Quota
<1>8. PartsKnown'
  BY <1>1, <1>2, <1>3, <1>5 DEF PartsKnown, Nobody
<1>9. HeadKept'
  BY <1>1, <1>2, <1>5 DEF HeadKept, Arrivals
<1>10. ArrivalsCounted'
  <2>1. ~Fresh /\ ~Counted
    BY <1>1, QuietNow DEF QuietPlaces
  <2>. QED
    BY <1>1, <1>5, <2>1 DEF ArrivalsCounted, AllNum, Arrivals, One, visits
<1>. QED
  BY <1>5, <1>6, <1>7, <1>8, <1>9, <1>10

\* No event is left.
LEMMA LookLastStep == IInv /\ LookLast => IInv'
<1>. SUFFICES ASSUME IInv, LookLast PROVE IInv'
  OBVIOUS
<1>. USE DEF IInv, Ranges
<1>1. /\ at[Asst] = "look" /\ E = << >> /\ part' = "final" /\ at' = [at EXCEPT ![Asst] = "attend"]
      /\ UNCHANGED <<queue, doc_arrived, after, counters, clock, flags, visits, count>>
  BY DEF LookLast, emptyQ, Goto
<1>2. QuietMove("attend")
  BY <1>1 DEF QuietMove, QuietPlaces, CounterRange, flags, visits, counters, clock
<1>3. /\ at'[Asst] = "attend" /\ at'[Doctor] = at[Doctor]
      /\ ~Fresh' /\ ~Waking' /\ ~Meeting' /\ ~Visiting' /\ ~Counted'
      /\ Places' /\ DoctorFollows' /\ VisitorsFollow' /\ BarrierCounts' /\ WaitingExact'
      /\ InfoRight' /\ RankKept'
  BY <1>1, <1>2, QuietStep
<1>4. Ranges'
  BY <1>1 DEF QueueRange, CounterRange, FlagRange, ThreadRange, queue, counters, clock, flags, visits
<1>5. QuotasKept'
  BY <1>1, <1>3 DEF QuotasKept, Nobody, Quota, counters, clock
<1>6. PartsKnown'
  BY <1>1, <1>3 DEF PartsKnown
<1>7. HeadKept'
  <2>1. Arrivals(E) = {}
    BY <1>1 DEF Arrivals
  <2>2. Arrivals(E)' = {}
    BY <1>1, <2>1 DEF Arrivals, queue
  <2>. QED
    BY <1>1, <1>3, <2>2 DEF HeadKept
<1>8. ArrivalsCounted'
  <2>1. ~Fresh /\ ~Counted
    BY <1>1, QuietNow DEF QuietPlaces
  <2>. QED
    BY <1>1, <1>3, <2>1 DEF ArrivalsCounted, AllNum, Arrivals, One, queue, counters, visits
<1>. QED
  BY <1>3, <1>4, <1>5, <1>6, <1>7, <1>8

\* When delevent removes the head, one arrival less is in the queue, or none less.
LEMMA HeadDealtWith ==
  ASSUME IInv, part = "arrival", at[Asst] # "look", E' = delevent(E)
  PROVE  /\ E' \in Seq(Event)
         /\ Cardinality(Arrivals(E)) \in Nat
         /\ Cardinality(Arrivals(E)') = Cardinality(Arrivals(E)) - One(next.type # "D")
         /\ \A i \in Arrivals(E)' : E'[i].duration > 0
<1>1. E \in Seq(Event) /\ E # << >> /\ E[1] = next /\ \A i \in Arrivals(E) : E[i].duration > 0
  BY DEF IInv, Ranges, QueueRange, HeadKept
<1>2. /\ E' \in Seq(Event)
      /\ Cardinality(Arrivals(E)') = Cardinality(Arrivals(E)) - One(next.type # "D")
      /\ \A i \in DOMAIN E' : \E j \in DOMAIN E : E'[i] = E[j]
  BY <1>1, HeadLeaves DEF Arrivals
<1>3. Cardinality(Arrivals(E)) \in Nat
  BY <1>1, ArrivalsFinite
<1>4. \A i \in Arrivals(E)' : E'[i].duration > 0
  BY <1>1, <1>2 DEF Arrivals
<1>. QED
  BY <1>2, <1>3, <1>4

\* The doctor has been joined.
LEMMA JoinStep == IInv /\ Join => IInv'
<1>. SUFFICES ASSUME IInv, Join PROVE IInv'
  OBVIOUS
<1>. USE DEF IInv, Ranges
<1>. DEFINE to == CASE part = "arrival" -> "deal" [] part = "queue" -> "idle" [] part = "final" -> "over"
<1>1. /\ at[Asst] = "join" /\ at[Doctor] = "gone" /\ at' = [at EXCEPT ![Asst] = to]
      /\ UNCHANGED <<queue, own, counters, clock, flags, visits, count>>
  BY DEF Join, Goto
<1>2. \/ part = "arrival" /\ to = "deal"
      \/ part = "queue" /\ to = "idle"
      \/ part = "final" /\ to = "over"
  BY DEF FlagRange
<1>3. QuietMove(to)
  BY <1>1, <1>2 DEF QuietMove, QuietPlaces, CounterRange, flags, visits, counters, clock
<1>. HIDE DEF to
<1>4. /\ at'[Asst] = to /\ at'[Doctor] = at[Doctor]
      /\ ~Fresh' /\ ~Waking' /\ ~Meeting' /\ ~Visiting' /\ ~Counted'
      /\ Places' /\ DoctorFollows' /\ VisitorsFollow' /\ BarrierCounts' /\ WaitingExact'
      /\ InfoRight' /\ RankKept'
  BY <1>2, <1>3, QuietStep
<1>5. Ranges'
  BY <1>1 DEF QueueRange, CounterRange, FlagRange, ThreadRange, queue, own, counters, clock, flags, visits
<1>6. doc_session_done /\ Nobody /\ ~Fresh /\ ~Counted
  BY <1>1, QuietNow DEF DoctorFollows, QuotasKept, QuietPlaces
<1>7. QuotasKept'
  BY <1>1, <1>4, <1>6 DEF QuotasKept, Nobody, Quota, counters, clock, own
<1>8. PartsKnown'
  BY <1>1, <1>2, <1>4, <1>6 DEF PartsKnown, Nobody, own, queue, counters
<1>9. HeadKept'
  BY <1>1, <1>2, <1>4 DEF HeadKept, Arrivals, own, queue
<1>10. ArrivalsCounted'
  BY <1>1, <1>4, <1>6 DEF ArrivalsCounted, AllNum, Arrivals, One, queue, counters, visits
<1>. QED
  BY <1>4, <1>5, <1>7, <1>8, <1>9, <1>10

\* The end of a visit is dropped.
LEMMA DropDoneStep == IInv /\ DropDone => IInv'
<1>. SUFFICES ASSUME IInv, DropDone PROVE IInv'
  OBVIOUS
<1>. USE DEF IInv, Ranges
<1>1. /\ at[Asst] = "deal" /\ next.type = "D" /\ at' = [at EXCEPT ![Asst] = "look"]
      /\ E' = delevent(E) /\ next' = next
      /\ UNCHANGED <<own, counters, clock, flags, visits, count>>
  BY DEF DropDone, NextEvent, Goto
<1>2. part = "arrival" /\ ~Fresh /\ ~Counted
  BY <1>1, QuietNow DEF PartsKnown, QuietPlaces
<1>3. /\ E' \in Seq(Event) /\ Cardinality(Arrivals(E)) \in Nat
      /\ Cardinality(Arrivals(E)') = Cardinality(Arrivals(E)) /\ \A i \in Arrivals(E)' : E'[i].duration > 0
  BY <1>1, <1>2, HeadDealtWith DEF One
<1>4. QuietMove("look")
  BY <1>1 DEF QuietMove, QuietPlaces, CounterRange, flags, visits, counters, clock
<1>5. /\ at'[Asst] = "look" /\ at'[Doctor] = at[Doctor]
      /\ ~Fresh' /\ ~Waking' /\ ~Meeting' /\ ~Visiting' /\ ~Counted'
      /\ Places' /\ DoctorFollows' /\ VisitorsFollow' /\ BarrierCounts' /\ WaitingExact'
      /\ InfoRight' /\ RankKept'
  BY <1>4, QuietStep
<1>6. Ranges'
  BY <1>1, <1>3 DEF QueueRange, CounterRange, FlagRange, ThreadRange, own, counters, clock, flags, visits
<1>7. QuotasKept'
  BY <1>1, <1>5 DEF QuotasKept, Nobody, Quota, counters, clock, own
<1>8. PartsKnown'
  BY <1>1, <1>2, <1>5 DEF PartsKnown, own
<1>9. HeadKept'
  BY <1>1, <1>2, <1>3, <1>5 DEF HeadKept, Arrivals, own
<1>10. ArrivalsCounted'
  BY <1>1, <1>2, <1>3, <1>5 DEF ArrivalsCounted, AllNum, One, counters, visits
<1>. QED
  BY <1>5, <1>6, <1>7, <1>8, <1>9, <1>10

\* An arrival in the future is put off.
LEMMA PostponeStep == IInv /\ Postpone => IInv'
<1>. SUFFICES ASSUME IInv, Postpone PROVE IInv'
  OBVIOUS
<1>. USE DEF IInv, Ranges
<1>1. /\ at[Asst] = "deal" /\ at' = [at EXCEPT ![Asst] = "attend"] /\ part' = "queue" /\ doc_arrived' = 1
      /\ UNCHANGED <<queue, after, counters, clock, flags, visits, count>>
  BY DEF Postpone, Goto
<1>2. part = "arrival" /\ ~Fresh /\ ~Counted
  BY <1>1, QuietNow DEF PartsKnown, QuietPlaces
<1>3. QuietMove("attend")
  BY <1>1 DEF QuietMove, QuietPlaces, CounterRange, flags, visits, counters, clock
<1>4. /\ at'[Asst] = "attend" /\ at'[Doctor] = at[Doctor]
      /\ ~Fresh' /\ ~Waking' /\ ~Meeting' /\ ~Visiting' /\ ~Counted'
      /\ Places' /\ DoctorFollows' /\ VisitorsFollow' /\ BarrierCounts' /\ WaitingExact'
      /\ InfoRight' /\ RankKept'
  BY <1>1, <1>3, QuietStep
<1>5. Ranges'
  BY <1>1 DEF QueueRange, CounterRange, FlagRange, ThreadRange, queue, counters, clock, flags, visits
<1>6. QuotasKept'
  BY <1>1, <1>2, <1>4 DEF QuotasKept, Nobody, Quota, counters, clock
<1>7. PartsKnown'
  BY <1>1, <1>2, <1>4 DEF PartsKnown, queue
<1>8. HeadKept'
  BY <1>1, <1>4 DEF HeadKept, Arrivals, queue
<1>9. ArrivalsCounted'
  BY <1>1, <1>2, <1>4 DEF ArrivalsCounted, AllNum, Arrivals, One, queue, counters, visits
<1>. QED
  BY <1>4, <1>5, <1>6, <1>7, <1>8, <1>9

\* An arrival is refused.
LEMMA RefuseStep == IInv /\ Refuse => IInv'
<1>. SUFFICES ASSUME IInv, Refuse PROVE IInv'
  OBVIOUS
<1>. USE DEF IInv, Ranges
<1>1. /\ at[Asst] = "deal" /\ next.type # "D" /\ at' = [at EXCEPT ![Asst] = "look"]
      /\ E' = delevent(E) /\ next' = next /\ num' = [num EXCEPT ![next.type] = @ + 1]
      /\ UNCHANGED <<own, waiting, served, num_visitors, clock, flags, visits, count>>
  BY DEF Refuse, Arrives, NextEvent, Goto
<1>2. part = "arrival" /\ ~Fresh /\ ~Counted
  BY <1>1, QuietNow DEF PartsKnown, QuietPlaces
<1>3. /\ E' \in Seq(Event) /\ Cardinality(Arrivals(E)) \in Nat
      /\ Cardinality(Arrivals(E)') = Cardinality(Arrivals(E)) - 1 /\ \A i \in Arrivals(E)' : E'[i].duration > 0
  BY <1>1, <1>2, HeadDealtWith DEF One
<1>4. next.type \in Kinds
  BY <1>1, <1>2 DEF PartsKnown, Event, Types, Kinds
<1>5. /\ num \in [Kinds -> Nat] /\ num' \in [Kinds -> Nat] /\ num'[next.type] = num[next.type] + 1
      /\ \A t \in Kinds \ {next.type} : num'[t] = num[t]
  BY <1>1, <1>4 DEF CounterRange
<1>6. QuietMove("look")
  BY <1>1 DEF QuietMove, QuietPlaces, CounterRange, flags, visits, clock
<1>7. /\ at'[Asst] = "look" /\ at'[Doctor] = at[Doctor]
      /\ ~Fresh' /\ ~Waking' /\ ~Meeting' /\ ~Visiting' /\ ~Counted'
      /\ Places' /\ DoctorFollows' /\ VisitorsFollow' /\ BarrierCounts' /\ WaitingExact'
      /\ InfoRight' /\ RankKept'
  BY <1>6, QuietStep
<1>8. Ranges'
  BY <1>1, <1>3, <1>5 DEF QueueRange, CounterRange, FlagRange, ThreadRange, own, clock, flags, visits
<1>9. QuotasKept'
  <2>1. \A t \in {"P", "S"} : num'[t] \in Nat /\ num[t] \in Nat /\ num'[t] >= num[t]
                              /\ served[t] \in Nat /\ waiting[t] \in Nat /\ Quota[t] \in Nat
    BY <1>5, QuotaFacts DEF Kinds, CounterRange
  <2>. QED
    BY <1>1, <1>2, <1>7, <2>1 DEF QuotasKept, Nobody, Quota, clock, own
<1>10. PartsKnown'
  BY <1>1, <1>2, <1>7 DEF PartsKnown, own
<1>11. HeadKept'
  BY <1>1, <1>2, <1>3, <1>7 DEF HeadKept, Arrivals, own
<1>12. ArrivalsCounted'
  <2>1. AllNum' = AllNum + 1 /\ AllNum \in Nat
    BY <1>4, <1>5 DEF AllNum, Kinds
  <2>2. thr' = thr /\ Len(thr) \in Nat
    BY <1>1, ThreadFacts DEF visits
  <2>. QED
    BY <1>1, <1>2, <1>3, <1>7, <2>1, <2>2, PeopleFacts DEF ArrivalsCounted, One, CounterRange
<1>. QED
  BY <1>7, <1>8, <1>9, <1>10, <1>11, <1>12

\* No more visitors are called now.
LEMMA AttendNoMoreStep == IInv /\ AttendNoMore => IInv'
<1>. SUFFICES ASSUME IInv, AttendNoMore PROVE IInv'
  OBVIOUS
<1>. USE DEF IInv, Ranges
<1>. DEFINE to == at'[Asst]
<1>1. /\ at[Asst] = "attend" /\ ~MayCall
      /\ UNCHANGED <<queue, own, num, waiting, num_visitors, current_time, flags, visits, count>>
  BY DEF AttendNoMore
<1>2. part \in {"arrival", "queue", "final"} /\ ~Fresh /\ ~Visiting
  BY <1>1, QuietNow DEF FlagRange, QuietPlaces
<1>3. /\ at' = [at EXCEPT ![Asst] = to]
      /\ \/ part = "arrival" /\ to = "turn"
         \/ part = "queue" /\ to = "idle"
         \/ part = "queue" /\ to = "dismiss" /\ doc_session_done'
         \/ part = "final" /\ to = "dismiss"
      /\ IF part = "queue" THEN CheckQuotas ELSE UNCHANGED <<served, clock>>
  BY <1>1, <1>2, PeopleFacts DEF AttendNoMore, Goto, Places
<1>4. /\ served' \in [{"P", "S"} -> Nat] /\ done_time' \in Nat /\ doc_session_done' \in BOOLEAN
      /\ doc_session_done => doc_session_done'
      /\ doc_session_done' => Nobody
      /\ doc_session_done' /\ part # "final" =>
           \A t \in {"P", "S"} : served'[t] = Quota[t] + 1 /\ Quota[t] <= num[t]
      /\ ~doc_session_done' => served' = served
      /\ \A t \in {"P", "S"} : served'[t] <= Quota[t] + 1
      /\ ~doc_session_done' /\ (\A t \in {"P", "S"} : served'[t] = Quota[t]) =>
           part # "queue" /\ waiting["R"] = 0
  <2>1. CASE part = "queue"
    BY <1>1, <1>3, <2>1, QuotasChecked
  <2>2. CASE part # "queue"
    BY <1>3, <2>2 DEF QuotasKept, CounterRange, FlagRange, clock
  <2>. QED
    BY <2>1, <2>2
<1>5. QuietMove(to)
  <2>1. to \in {"turn", "idle", "dismiss"}
    BY <1>3
  <2>. HIDE DEF to
  <2>. QED
    BY <1>1, <1>3, <1>4, <2>1 DEF QuietMove, QuietPlaces, CounterRange, flags, visits
<1>6. /\ at'[Doctor] = at[Doctor]
      /\ ~Fresh' /\ ~Waking' /\ ~Meeting' /\ ~Visiting'
      /\ Counted' <=> part' = "arrival" /\ to \in {"attend", "note", "turn"}
      /\ Places' /\ DoctorFollows' /\ VisitorsFollow' /\ BarrierCounts' /\ WaitingExact'
      /\ InfoRight' /\ RankKept'
  <2>. HIDE DEF to
  <2>. QED
    BY <1>5, QuietStep
<1>7. /\ Counted <=> part = "arrival"
      /\ Counted' <=> Counted
  BY <1>1, <1>2, <1>3, <1>6 DEF Counted, own
<1>8. Ranges'
  BY <1>1, <1>4 DEF QueueRange, CounterRange, FlagRange, ThreadRange, queue, own, flags, visits
<1>9. QuotasKept'
  BY <1>1, <1>3, <1>4, <1>6 DEF QuotasKept, Nobody, Quota, own
<1>10. PartsKnown'
  <2>1. next.time \in Int /\ current_time \in Nat
    BY DEF QueueRange, CounterRange
  <2>2. Nobody \/ (part = "queue" /\ next.time <= current_time)
    BY <1>1, <2>1 DEF MayCall, AnyWaiting, Nobody, CounterRange
  <2>3. part = "arrival" => ~doc_session_done /\ doc_session_done' = doc_session_done
    BY <1>3, <1>7 DEF PartsKnown, clock
  <2>. QED
    BY <1>1, <1>3, <1>4, <1>6, <1>7, <2>2, <2>3 DEF PartsKnown, Nobody, own, queue
<1>11. HeadKept'
  BY <1>1, <1>3, <1>6, <1>7 DEF HeadKept, Arrivals, own, queue
<1>12. ArrivalsCounted'
  BY <1>1, <1>2, <1>6, <1>7 DEF ArrivalsCounted, AllNum, Arrivals, One, queue, visits
<1>. QED
  BY <1>6, <1>8, <1>9, <1>10, <1>11, <1>12

\* The end of a visit is added, which leaves the head where it is.
LEMMA NoteStep == IInv /\ Note => IInv'
<1>. SUFFICES ASSUME IInv, Note PROVE IInv'
  OBVIOUS
<1>. USE DEF IInv, Ranges
<1>. DEFINE e == [type |-> "D", time |-> current_time, duration |-> 0]
            to == IF part = "arrival" THEN "turn" ELSE "attend"
<1>1. /\ at[Asst] = "note" /\ E' = addevent(E, e) /\ at' = [at EXCEPT ![Asst] = to]
      /\ UNCHANGED <<next, own, counters, clock, flags, visits, count>>
  BY DEF Note, Goto
<1>2. e \in Event /\ e.type = "D" /\ E \in Seq(Event)
  BY DEF Event, Types, CounterRange, QueueRange
<1>3. /\ E' \in Seq(Event) /\ E' # << >> /\ Cardinality(Arrivals(E)') = Cardinality(Arrivals(E))
      /\ \A i \in Arrivals(E)' : \E j \in Arrivals(E) : E'[i] = E[j]
      /\ E # << >> /\ Precedes(E[1], e) => E'[1] = E[1]
  <2>. HIDE DEF e
  <2>. DEFINE R == addevent(E, e)
  <2>1. /\ R \in Seq(Event) /\ R # << >> /\ Cardinality(Arrivals(R)) = Cardinality(Arrivals(E))
        /\ \A i \in Arrivals(R) : \E j \in Arrivals(E) : R[i] = E[j]
        /\ E # << >> /\ Precedes(E[1], e) => R[1] = E[1]
    BY <1>2, DoneJoins
  <2>2. E' = R /\ Arrivals(E)' = Arrivals(R)
    BY <1>1 DEF Arrivals
  <2>. HIDE DEF R
  <2>. QED
    BY <2>1, <2>2
<1>4. ~Fresh /\ (Counted <=> part = "arrival") /\ ~doc_session_done
  BY <1>1, QuietNow DEF QuietPlaces, PartsKnown
<1>5. QuietMove(to)
  BY <1>1 DEF QuietMove, QuietPlaces, CounterRange, flags, visits, counters, clock
<1>6. /\ at'[Asst] = to /\ at'[Doctor] = at[Doctor]
      /\ ~Fresh' /\ ~Waking' /\ ~Meeting' /\ ~Visiting' /\ (Counted' <=> Counted)
      /\ Places' /\ DoctorFollows' /\ VisitorsFollow' /\ BarrierCounts' /\ WaitingExact'
      /\ InfoRight' /\ RankKept'
  <2>1. Counted <=> part' = "arrival" /\ to \in {"attend", "note", "turn"}
    BY <1>1, <1>4 DEF own
  <2>. HIDE DEF to
  <2>. QED
    BY <1>5, <2>1, QuietStep
<1>7. Ranges'
  BY <1>1, <1>3 DEF QueueRange, CounterRange, FlagRange, ThreadRange, own, counters, clock, flags, visits
<1>8. QuotasKept'
  BY <1>1, <1>6 DEF QuotasKept, Nobody, Quota, counters, clock, own
<1>9. PartsKnown'
  BY <1>1, <1>4, <1>6 DEF PartsKnown, own, clock
<1>10. HeadKept'
  <2>1. part = "arrival" => E'[1] = next
    <3>. SUFFICES ASSUME part = "arrival" PROVE E'[1] = next
      OBVIOUS
    <3>1. E # << >> /\ E[1] = next /\ next.type # "D" /\ next.time <= current_time
      BY <1>1, <1>4 DEF HeadKept
    <3>2. next \in Event
      BY <1>1 DEF PartsKnown
    <3>3. Rank[next.type] <= Rank["D"] /\ next.time \in Int /\ current_time \in Nat
      BY <3>1, <3>2 DEF Event, Types, Rank, CounterRange
    <3>4. Precedes(next, e)
      BY <3>1, <3>3 DEF Precedes
    <3>. HIDE DEF e
    <3>. QED
      BY <1>3, <3>1, <3>4
  <2>2. \A i \in Arrivals(E)' : E'[i].duration > 0
    BY <1>3 DEF HeadKept
  <2>3. part = "final" => Arrivals(E)' = {}
    BY <1>3 DEF HeadKept
  <2>. QED
    BY <1>1, <1>3, <1>6, <2>1, <2>2, <2>3 DEF HeadKept, own, clock
<1>11. ArrivalsCounted'
  BY <1>1, <1>3, <1>4, <1>6 DEF ArrivalsCounted, AllNum, One, counters, visits
<1>. QED
  BY <1>6, <1>7, <1>8, <1>9, <1>10, <1>11

\* The clock is never set back.
LEMMA LaterFacts ==
  ASSUME IInv
  PROVE  Later \in Nat /\ Later >= current_time /\ current_time \in Nat /\ next.time \in Int
BY DEF IInv, Ranges, QueueRange, CounterRange, Later

\* The arrival that was dealt with is deleted.
LEMMA EndTurnStep == IInv /\ EndTurn => IInv'
<1>. SUFFICES ASSUME IInv, EndTurn PROVE IInv'
  OBVIOUS
<1>. USE DEF IInv, Ranges
<1>1. /\ at[Asst] = "turn" /\ at' = [at EXCEPT ![Asst] = "look"] /\ E' = delevent(E) /\ next' = next
      /\ num_visitors' = num_visitors + 1 /\ current_time' = Later
      /\ UNCHANGED <<own, num, waiting, served, done_time, doc_session_done, flags, visits, count>>
  BY DEF EndTurn, NextEvent, Goto
<1>2. part = "arrival" /\ ~Fresh /\ Counted /\ next.type # "D"
  BY <1>1, QuietNow DEF PartsKnown, HeadKept, QuietPlaces
<1>3. /\ E' \in Seq(Event) /\ Cardinality(Arrivals(E)) \in Nat
      /\ Cardinality(Arrivals(E)') = Cardinality(Arrivals(E)) - 1 /\ \A i \in Arrivals(E)' : E'[i].duration > 0
  BY <1>1, <1>2, HeadDealtWith DEF One
<1>4. QuietMove("look")
  BY <1>1, LaterFacts DEF QuietMove, QuietPlaces, flags, visits
<1>5. /\ at'[Asst] = "look" /\ at'[Doctor] = at[Doctor]
      /\ ~Fresh' /\ ~Waking' /\ ~Meeting' /\ ~Visiting' /\ ~Counted'
      /\ Places' /\ DoctorFollows' /\ VisitorsFollow' /\ BarrierCounts' /\ WaitingExact'
      /\ InfoRight' /\ RankKept'
  BY <1>4, QuietStep
<1>6. Ranges'
  BY <1>1, <1>3, LaterFacts DEF QueueRange, CounterRange, FlagRange, ThreadRange, own, flags, visits
<1>7. QuotasKept'
  BY <1>1, <1>5 DEF QuotasKept, Nobody, Quota, own
<1>8. PartsKnown'
  BY <1>1, <1>2, <1>5 DEF PartsKnown, own
<1>9. HeadKept'
  BY <1>1, <1>2, <1>3, <1>5 DEF HeadKept, Arrivals, own
<1>10. ArrivalsCounted'
  <2>1. AllNum' = AllNum /\ AllNum \in Nat
    BY <1>1 DEF AllNum, Kinds, CounterRange
  <2>2. thr' = thr /\ Len(thr) \in Nat /\ num_visitors \in Nat
    BY <1>1, ThreadFacts DEF visits, CounterRange
  <2>. QED
    BY <1>1, <1>2, <1>3, <1>5, <2>1, <2>2, PeopleFacts DEF ArrivalsCounted, One
<1>. QED
  BY <1>5, <1>6, <1>7, <1>8, <1>9, <1>10

\* The clock is set to the next event.
LEMMA IdleStep == IInv /\ Idle => IInv'
<1>. SUFFICES ASSUME IInv, Idle PROVE IInv'
  OBVIOUS
<1>. USE DEF IInv, Ranges
<1>1. /\ at[Asst] = "idle" /\ at' = [at EXCEPT ![Asst] = "look"] /\ current_time' = Later /\ doc_arrived' = 2
      /\ UNCHANGED <<queue, after, part, counters, done_time, doc_session_done, flags, visits, count>>
  BY DEF Idle, Goto
<1>2. part = "queue" /\ ~Fresh /\ ~Counted
  BY <1>1, QuietNow DEF PartsKnown, QuietPlaces
<1>3. QuietMove("look")
  BY <1>1, LaterFacts DEF QuietMove, QuietPlaces, flags, visits, counters
<1>4. /\ at'[Asst] = "look" /\ at'[Doctor] = at[Doctor]
      /\ ~Fresh' /\ ~Waking' /\ ~Meeting' /\ ~Visiting' /\ ~Counted'
      /\ Places' /\ DoctorFollows' /\ VisitorsFollow' /\ BarrierCounts' /\ WaitingExact'
      /\ InfoRight' /\ RankKept'
  BY <1>3, QuietStep
<1>5. Ranges'
  BY <1>1, LaterFacts DEF QueueRange, CounterRange, FlagRange, ThreadRange, queue, counters, flags, visits
<1>6. QuotasKept'
  BY <1>1, <1>4 DEF QuotasKept, Nobody, Quota, counters
<1>7. PartsKnown'
  BY <1>1, <1>2, <1>4 DEF PartsKnown
<1>8. HeadKept'
  BY <1>1, <1>2, <1>4 DEF HeadKept, Arrivals, queue
<1>9. ArrivalsCounted'
  BY <1>1, <1>2, <1>4 DEF ArrivalsCounted, AllNum, Arrivals, One, queue, counters, visits
<1>. QED
  BY <1>4, <1>5, <1>6, <1>7, <1>8, <1>9

----------------------------------------------------------------------------
(* Steps of the assistant with a thread.                                    *)

\* She goes on waiting for asst_done.
LEMMA StaysAsleepStep ==
  ASSUME IInv, NEW to \in Asleep, at[Asst] \in Asleep, at' = [at EXCEPT ![Asst] = to],
         UNCHANGED <<queue, own, counters, clock, flags, visits, count>>
  PROVE  IInv'
<1>. USE PeopleFacts DEF IInv, Ranges
<1>1. /\ Len(thr) \in Nat
      /\ \A k \in DOMAIN thr : k \in People /\ k # Asst /\ k # Doctor /\ k \in 1 .. N
  BY ThreadFacts
<1>2. at'[Asst] = to /\ at'[Doctor] = at[Doctor] /\ \A y \in People \ {Asst} : at'[y] = at[y]
  BY DEF Places
<1>3. /\ thr' = thr /\ visitor_infos' = visitor_infos /\ next' = next /\ called' = called
      /\ asst_done' = asst_done /\ doc_done' = doc_done /\ doc_session_done' = doc_session_done
      /\ waiting' = waiting /\ current_time' = current_time /\ count' = count
  BY DEF queue, counters, clock, flags, visits
<1>4. Undisturbed
  BY <1>2, <1>3 DEF Undisturbed, CounterRange
<1>5. \A k \in DOMAIN thr : at'[k] = at[k]
  BY <1>1, <1>2
<1>6. Ranges'
  BY DEF QueueRange, CounterRange, FlagRange, ThreadRange, queue, own, counters, clock, flags, visits
<1>7. Places'
  BY <1>1, <1>2, <1>3 DEF Places, AsstPlaces, Asleep, Visitors
<1>8. at[Asst] \notin {"call", "join", "barred"} /\ at'[Asst] \notin {"call", "join", "barred"}
  BY <1>2 DEF Asleep
<1>9. DoctorFollows'
  BY <1>2, <1>3, <1>4, <1>8, Phases DEF DoctorFollows
<1>10. VisitorsFollow'
  <2>1. Fresh => Len(thr) \in DOMAIN thr
    BY <1>1, ThreadFacts DEF VisitorsFollow
  <2>. QED
    BY <1>2, <1>3, <1>4, <1>5, <2>1, Phases DEF VisitorsFollow
<1>11. BarrierCounts'
  BY <1>2, <1>3, <1>5, <1>8 DEF BarrierCounts
<1>12. WaitingExact'
  <2>1. \A s : Outsiders(s)' = Outsiders(s)
    BY <1>3, <1>5, SameOutsiders
  <2>. QED
    BY <1>3, <1>4, <2>1, Phases DEF WaitingExact, One
<1>13. InfoRight' /\ RankKept'
  BY <1>3, <1>5 DEF InfoRight, RankKept
<1>. QED
  BY <1>4, <1>6, <1>7, <1>9, <1>10, <1>11, <1>12, <1>13, AsstUndisturbed

\* She goes to sleep.
LEMMA DozeStep == IInv /\ Doze => IInv'
<1>. SUFFICES ASSUME IInv, Doze PROVE IInv'
  OBVIOUS
<1>1. /\ at[Asst] \in Asleep /\ at' = [at EXCEPT ![Asst] = "asleep"] /\ "asleep" \in Asleep
      /\ UNCHANGED <<queue, own, counters, clock, flags, visits, count>>
  BY DEF Doze, Goto, Asleep
<1>. QED
  BY <1>1, StaysAsleepStep

\* She tests asst_done, and goes on if it is set.
LEMMA TestStep == IInv /\ Test => IInv'
<1>. SUFFICES ASSUME IInv, Test PROVE IInv'
  OBVIOUS
<1>. USE PeopleFacts DEF IInv, Ranges
<1>1. CASE ~asst_done
  <2>1. /\ at[Asst] \in Asleep /\ at' = [at EXCEPT ![Asst] = "doze"] /\ "doze" \in Asleep
        /\ asst_done' = asst_done
    BY <1>1 DEF Test, Goto, Asleep, FlagRange
  <2>2. UNCHANGED <<queue, own, counters, clock, flags, visits, count>>
    BY <2>1 DEF Test, flags
  <2>. QED
    BY <2>1, <2>2, StaysAsleepStep
<1>2. CASE asst_done
  <2>1. /\ at[Asst] = "test" /\ at' = [at EXCEPT ![Asst] = after] /\ asst_done' = FALSE
        /\ UNCHANGED <<queue, own, counters, clock, doc_done, called, visits, count>>
    BY <1>2 DEF Test, Goto
  <2>2. /\ Len(thr) \in Nat
        /\ \A k \in DOMAIN thr : k \in People /\ k # Asst /\ k # Doctor /\ k \in 1 .. N
    BY ThreadFacts
  <2>3. at'[Asst] = after /\ at'[Doctor] = at[Doctor] /\ \A y \in People \ {Asst} : at'[y] = at[y]
    BY <2>1 DEF Places
  <2>4. /\ thr' = thr /\ visitor_infos' = visitor_infos /\ next' = next /\ called' = called
        /\ doc_done' = doc_done /\ doc_session_done' = doc_session_done /\ num' = num /\ served' = served
        /\ waiting' = waiting /\ current_time' = current_time /\ count' = count /\ part' = part
        /\ after' = after /\ E' = E /\ num_visitors' = num_visitors
    BY <2>1 DEF queue, own, counters, clock, flags, visits
  <2>5. \A k \in DOMAIN thr : at'[k] = at[k]
    BY <2>2, <2>3
  <2>6. after \in {"admit", "call"}
    BY DEF FlagRange
  <2>7. ~Meeting /\ ~Meeting' /\ ~Waking' /\ (Fresh' <=> Fresh) /\ (Visiting' <=> Visiting)
    BY <2>1, <2>3, <2>4, <2>6 DEF Fresh, Visiting, Waking, Meeting, Asleep
  <2>8. /\ Fresh <=> after = "admit"
        /\ Waking <=> after = "call"
        /\ Visiting <=> after = "call"
    BY <2>1, <2>6 DEF Fresh, Visiting, Waking, Meeting, Asleep
  <2>9. Counted' <=> Counted
    BY <2>1, <2>3, <2>4, <2>6, <2>7 DEF Counted
  <2>10. Ranges'
    BY <2>1 DEF QueueRange, CounterRange, FlagRange, ThreadRange, queue, own, counters, clock, visits
  <2>11. Places'
    BY <2>2, <2>3, <2>4, <2>1, <2>6 DEF Places, AsstPlaces, Visitors
  <2>12. DoctorFollows'
    BY <1>2, <2>1, <2>3, <2>4, <2>6, <2>7, <2>8 DEF DoctorFollows
  <2>13. VisitorsFollow'
    <3>1. \A k \in DOMAIN thr : at[k] \notin Untold \union In
      BY <1>2, <2>1, <2>7, <2>8 DEF VisitorsFollow
    <3>2. Fresh => Len(thr) \in DOMAIN thr
      BY <2>2, ThreadFacts DEF VisitorsFollow
    <3>3. after \notin Asleep
      BY <2>6 DEF Asleep
    <3>4. \A t \in Kinds : ~called[t]
      BY <2>7 DEF VisitorsFollow
    <3>. QED
      BY <2>1, <2>3, <2>4, <2>5, <2>7, <3>1, <3>2, <3>3, <3>4 DEF VisitorsFollow
  <2>14. BarrierCounts'
    BY <2>1, <2>3, <2>4, <2>5, <2>6 DEF BarrierCounts
  <2>15. WaitingExact'
    <3>1. \A s : Outsiders(s)' = Outsiders(s)
      BY <2>4, <2>5, SameOutsiders
    <3>. QED
      BY <2>4, <2>7, <3>1 DEF WaitingExact, One
  <2>16. QuotasKept'
    BY <2>1, <2>4, <2>7 DEF QuotasKept, Nobody, Quota
  <2>17. PartsKnown'
    BY <2>1, <2>3, <2>4, <2>6, <2>7, <2>8, <2>9 DEF PartsKnown, Nobody
  <2>18. HeadKept'
    BY <2>1, <2>3, <2>4, <2>6, <2>7, <2>9 DEF HeadKept, Arrivals
  <2>19. ArrivalsCounted'
    BY <2>4, <2>7, <2>9 DEF ArrivalsCounted, AllNum, Arrivals, One
  <2>20. InfoRight' /\ RankKept'
    BY <2>4, <2>5 DEF InfoRight, RankKept
  <2>. QED
    BY <2>10, <2>11, <2>12, <2>13, <2>14, <2>15, <2>16, <2>17, <2>18, <2>19, <2>20
<1>. QED
  BY <1>1, <1>2

\* The doctor is told to leave.
LEMMA DismissStep == IInv /\ Dismiss => IInv'
<1>. SUFFICES ASSUME IInv, Dismiss PROVE IInv'
  OBVIOUS
<1>. USE PeopleFacts DEF IInv, Ranges
<1>1. /\ at[Asst] = "dismiss" /\ doc_session_done' = (doc_session_done \/ part = "final") /\ doc_done' = TRUE
      /\ at' = [at EXCEPT ![Asst] = "join", ![Doctor] = IF @ = "asleep" THEN "wait" ELSE @]
      /\ UNCHANGED <<queue, own, counters, current_time, done_time, asst_done, called, visits, count>>
  BY DEF Dismiss, WakeDoctor
<1>2. /\ Len(thr) \in Nat
      /\ \A k \in DOMAIN thr : k \in People /\ k # Asst /\ k # Doctor /\ k \in 1 .. N
  BY ThreadFacts
<1>3. /\ at'[Asst] = "join" /\ at'[Doctor] = IF at[Doctor] = "asleep" THEN "wait" ELSE at[Doctor]
      /\ \A y \in People \ {Asst, Doctor} : at'[y] = at[y]
  BY <1>1 DEF Places
<1>4. /\ thr' = thr /\ visitor_infos' = visitor_infos /\ next' = next /\ called' = called
      /\ asst_done' = asst_done /\ num' = num /\ served' = served
      /\ waiting' = waiting /\ current_time' = current_time /\ count' = count /\ part' = part
      /\ after' = after /\ E' = E /\ num_visitors' = num_visitors
  BY <1>1 DEF queue, own, counters, visits
<1>5. \A k \in DOMAIN thr : at'[k] = at[k]
  BY <1>2, <1>3
<1>6. /\ ~Fresh /\ ~Visiting /\ ~Counted /\ ~asst_done
      /\ \A k \in DOMAIN thr : at[k] \notin Untold \union In
      /\ \A t \in Kinds : ~called[t]
  BY <1>1, QuietNow DEF QuietPlaces
<1>7. ~Fresh' /\ ~Visiting' /\ ~Waking' /\ ~Meeting' /\ ~Counted'
  BY <1>3 DEF Fresh, Visiting, Waking, Meeting, Counted, Asleep
<1>8. Nobody /\ (doc_session_done \/ part = "final")
  BY <1>1 DEF PartsKnown
<1>9. Ranges'
  BY <1>1 DEF QueueRange, CounterRange, FlagRange, ThreadRange, queue, own, counters, visits
<1>10. Places'
  BY <1>1, <1>2, <1>3, <1>4 DEF Places, AsstPlaces, DoctorPlaces, Visitors
<1>11. DoctorFollows'
  <2>1. at'[Doctor] \in {"wait", "gone"}
    BY <1>1, <1>3, <1>6 DEF DoctorFollows
  <2>2. doc_session_done' /\ doc_done' /\ ~asst_done'
    <3>1. doc_session_done' = TRUE
      BY <1>1, <1>8, Zenon
    <3>2. doc_done' = TRUE
      BY <1>1, Zenon
    <3>3. ~asst_done'
      BY <1>4, <1>6, Zenon
    <3>. QED
      BY <3>1, <3>2, <3>3
  <2>. QED
    BY <1>3, <1>7, <2>1, <2>2 DEF DoctorFollows
<1>12. VisitorsFollow'
  BY <1>4, <1>5, <1>6, <1>7 DEF VisitorsFollow
<1>13. BarrierCounts'
  <2>1. /\ at'[Asst] = "barred" <=> at[Asst] = "barred"
        /\ at'[Doctor] = "barred" <=> at[Doctor] = "barred"
    BY <1>1, <1>3
  <2>. QED
    BY <1>4, <1>5, <2>1 DEF BarrierCounts, One
<1>14. WaitingExact'
  <2>1. \A s : Outsiders(s)' = Outsiders(s)
    BY <1>4, <1>5, SameOutsiders
  <2>. QED
    BY <1>4, <1>6, <1>7, <2>1 DEF WaitingExact, One
<1>15. QuotasKept'
  BY <1>1, <1>4, <1>7, <1>8 DEF QuotasKept, Nobody, Quota
<1>16. PartsKnown'
  BY <1>1, <1>3, <1>4, <1>7 DEF PartsKnown
<1>17. HeadKept'
  BY <1>1, <1>3, <1>4, <1>7 DEF HeadKept, Arrivals
<1>18. ArrivalsCounted'
  BY <1>4, <1>6, <1>7 DEF ArrivalsCounted, AllNum, Arrivals, One
<1>19. InfoRight' /\ RankKept'
  BY <1>4, <1>5 DEF InfoRight, RankKept
<1>. QED
  BY <1>9, <1>10, <1>11, <1>12, <1>13, <1>14, <1>15, <1>16, <1>17, <1>18, <1>19

\* A visitor whose thread has reported is counted as waiting.
LEMMA AdmitStep == IInv /\ Admit => IInv'
<1>. SUFFICES ASSUME IInv, Admit PROVE IInv'
  OBVIOUS
<1>. USE PeopleFacts DEF IInv, Ranges
<1>. DEFINE t == next.type
<1>1. /\ at[Asst] = "admit"
      /\ waiting' = [waiting EXCEPT ![t] = @ + 1] /\ num' = [num EXCEPT ![t] = @ + 1]
      /\ UNCHANGED <<after, part, served, num_visitors, clock, flags, visits, count>>
  BY DEF Admit
<1>2. /\ \/ at'[Asst] = "look" /\ E' = delevent(E)
         \/ at'[Asst] \in {"attend", "turn"} /\ E' = E
      /\ next' = next /\ doc_arrived' \in {0, 1, 2} /\ at' = [at EXCEPT ![Asst] = at'[Asst]]
  BY DEF Admit, NextEvent, Goto, queue, Places, FlagRange
<1>3. /\ Len(thr) \in Nat
      /\ \A k \in DOMAIN thr : k \in People /\ k # Asst /\ k # Doctor /\ k \in 1 .. N
  BY ThreadFacts
<1>4. at'[Doctor] = at[Doctor] /\ \A k \in DOMAIN thr : at'[k] = at[k]
  BY <1>2, <1>3 DEF Places
<1>5. after \in {"admit", "call"}
  BY DEF FlagRange
<1>6. /\ thr' = thr /\ visitor_infos' = visitor_infos /\ called' = called
      /\ asst_done' = asst_done /\ doc_done' = doc_done /\ doc_session_done' = doc_session_done
      /\ served' = served /\ current_time' = current_time /\ count' = count /\ part' = part
      /\ after' = after /\ num_visitors' = num_visitors
  BY <1>1 DEF clock, flags, visits
<1>7. /\ Fresh /\ ~Visiting /\ ~Meeting /\ ~Counted /\ ~Waking
      /\ ~Fresh' /\ ~Visiting' /\ ~Meeting' /\ ~Waking'
  BY <1>1, <1>2 DEF Fresh, Visiting, Meeting, Waking, Counted, Asleep
<1>8. /\ part = "arrival" /\ ~doc_session_done /\ next \in Event /\ t # "D" /\ next.time <= current_time
      /\ t # "R" => num[t] < Quota[t]
  BY <1>1, <1>7 DEF PartsKnown, HeadKept, QuotasKept
<1>9. /\ ~asst_done
      /\ \A k \in DOMAIN thr : at[k] \notin Untold \union In
      /\ \A s \in Kinds : ~called[s]
  <2>1. at[Asst] \notin Asleep
    BY <1>1 DEF Asleep
  <2>. QED
    BY <1>7, <2>1 DEF VisitorsFollow
<1>10. t \in Kinds
  BY <1>8 DEF Event, Types, Kinds
<1>11. /\ num \in [Kinds -> Nat] /\ num' \in [Kinds -> Nat] /\ num'[t] = num[t] + 1
       /\ \A s \in Kinds \ {t} : num'[s] = num[s]
       /\ waiting \in [Kinds -> Nat] /\ waiting' \in [Kinds -> Nat] /\ waiting'[t] = waiting[t] + 1
       /\ \A s \in Kinds \ {t} : waiting'[s] = waiting[s]
  BY <1>1, <1>10 DEF CounterRange
<1>12. /\ E' \in Seq(Event) /\ Cardinality(Arrivals(E)) \in Nat /\ Cardinality(Arrivals(E)') \in Int
       /\ Cardinality(Arrivals(E)') = Cardinality(Arrivals(E)) - One(at'[Asst] = "look")
       /\ \A i \in Arrivals(E)' : E'[i].duration > 0
  <2>1. CASE at'[Asst] = "look"
    <3>1. E' = delevent(E)
      BY <1>2, <2>1
    <3>. QED
      BY <1>1, <1>8, <2>1, <3>1, HeadDealtWith DEF One
  <2>2. CASE at'[Asst] # "look"
    <3>1. E' = E /\ E \in Seq(Event)
      BY <1>2, <2>2 DEF QueueRange
    <3>2. Arrivals(E)' = Arrivals(E)
      BY <3>1 DEF Arrivals
    <3>. QED
      BY <2>2, <3>1, <3>2, ArrivalsFinite DEF One, HeadKept
  <2>. QED
    BY <2>1, <2>2
<1>13. Counted' <=> at'[Asst] # "look"
  BY <1>2, <1>6, <1>7, <1>8 DEF Counted
<1>14. Ranges'
  BY <1>1, <1>2, <1>11, <1>12 DEF QueueRange, CounterRange, FlagRange, ThreadRange, clock, flags, visits
<1>15. Places'
  BY <1>2, <1>3, <1>6 DEF Places, AsstPlaces, Visitors
<1>16. DoctorFollows'
  BY <1>1, <1>2, <1>4, <1>6, <1>7, <1>9 DEF DoctorFollows
<1>17. VisitorsFollow'
  BY <1>4, <1>6, <1>7, <1>9 DEF VisitorsFollow
<1>18. BarrierCounts'
  BY <1>1, <1>2, <1>4, <1>6 DEF BarrierCounts
<1>19. WaitingExact'
  <2>1. \A s : Outsiders(s)' = Outsiders(s)
    BY <1>4, <1>6, SameOutsiders
  <2>. SUFFICES ASSUME NEW s \in Kinds
                PROVE  Cardinality(Outsiders(s)) = waiting'[s] + One(called[s]) + One(FALSE)
    BY <1>6, <1>7, <2>1 DEF WaitingExact, One
  <2>2. Cardinality(Outsiders(s)) = waiting[s] + One(called[s]) + One(s = t)
    BY <1>7 DEF WaitingExact, One
  <2>3. waiting'[s] = waiting[s] + One(s = t) /\ waiting[s] \in Nat
    <3>. HIDE DEF t
    <3>. QED
      BY <1>11 DEF One
  <2>. HIDE DEF t
  <2>. QED
    BY <2>2, <2>3 DEF One
<1>20. QuotasKept'
  <2>1. \A s \in {"P", "S"} : /\ num[s] \in Nat /\ num'[s] \in Nat /\ waiting[s] \in Nat /\ waiting'[s] \in Nat
                              /\ served[s] \in Nat /\ Quota[s] \in Nat
    BY <1>11, QuotaFacts DEF Kinds, CounterRange
  <2>2. ~(\A s \in {"P", "S"} : served[s] = Quota[s])
    BY <1>1, <1>8 DEF QuotasKept
  <2>3. ASSUME NEW s \in {"P", "S"}
        PROVE  served[s] + waiting'[s] <= Quota[s] /\ served[s] + waiting'[s] <= num'[s]
    <3>1. served[s] + waiting[s] <= Quota[s] /\ served[s] + waiting[s] <= num[s] /\ s \in Kinds
      BY <1>8 DEF QuotasKept, Kinds
    <3>2. CASE s = t
      <4>. HIDE DEF t
      <4>1. waiting'[s] = waiting[s] + 1 /\ num'[s] = num[s] + 1
        BY <1>11, <3>2
      <4>2. num[s] < Quota[s]
        BY <1>8, <3>2
      <4>3. num[s] \in Nat /\ waiting[s] \in Nat /\ served[s] \in Nat /\ Quota[s] \in Nat
        BY <2>1
      <4>. QED
        BY <3>1, <4>1, <4>2, <4>3
    <3>3. CASE s # t
      <4>1. waiting'[s] = waiting[s] /\ num'[s] = num[s]
        BY <1>11, <3>1, <3>3
      <4>. QED
        BY <3>1, <4>1
    <3>. QED
      BY <3>2, <3>3
  <2>4. \A s \in {"P", "S"} : served[s] <= Quota[s] + 1
    BY DEF QuotasKept
  <2>5. Quota' = Quota
    BY DEF Quota
  <2>. HIDE DEF t
  <2>. QED
    BY <1>6, <1>7, <1>8, <2>2, <2>3, <2>4, <2>5 DEF QuotasKept
<1>21. PartsKnown'
  BY <1>2, <1>6, <1>7, <1>8 DEF PartsKnown
<1>22. HeadKept'
  BY <1>1, <1>2, <1>6, <1>7, <1>8, <1>12 DEF HeadKept
<1>23. ArrivalsCounted'
  <2>1. AllNum' = AllNum + 1 /\ AllNum \in Nat
    <3>1. \A s \in Kinds : num[s] \in Nat /\ num'[s] = num[s] + One(s = t)
      <4>. HIDE DEF t
      <4>. QED
        BY <1>11 DEF One
    <3>2. t = "R" \/ t = "P" \/ t = "S"
      BY <1>10 DEF Kinds
    <3>. HIDE DEF t
    <3>. QED
      BY <3>1, <3>2 DEF AllNum, Kinds, One
  <2>2. num_visitors \in Nat
    BY DEF CounterRange
  <2>. QED
    BY <1>3, <1>6, <1>7, <1>12, <1>13, <2>1, <2>2 DEF ArrivalsCounted, One
<1>24. InfoRight'
  BY <1>2, <1>4, <1>6 DEF InfoRight
<1>25. RankKept'
  BY <1>6, <1>9 DEF RankKept
<1>. QED
  BY <1>14, <1>15, <1>16, <1>17, <1>18, <1>19, <1>20, <1>21, <1>22, <1>23, <1>24, <1>25

\* The doctor is woken for the next visitor.
LEMMA AttendStep == IInv /\ Attend => IInv'
<1>. SUFFICES ASSUME IInv, Attend PROVE IInv'
  OBVIOUS
<1>. USE PeopleFacts DEF IInv, Ranges
<1>1. /\ at[Asst] = "attend" /\ MayCall /\ after' = "call" /\ doc_done' = TRUE
      /\ at' = [at EXCEPT ![Asst] = "test", ![Doctor] = IF @ = "asleep" THEN "wait" ELSE @]
      /\ UNCHANGED <<queue, doc_arrived, part, counters, clock, asst_done, called, visits, count>>
  BY DEF Attend, WakeDoctor
<1>2. /\ Len(thr) \in Nat
      /\ \A k \in DOMAIN thr : k \in People /\ k # Asst /\ k # Doctor /\ k \in 1 .. N
  BY ThreadFacts
<1>3. /\ at'[Asst] = "test" /\ at'[Doctor] = IF at[Doctor] = "asleep" THEN "wait" ELSE at[Doctor]
      /\ \A y \in People \ {Asst, Doctor} : at'[y] = at[y]
  BY <1>1 DEF Places
<1>4. /\ thr' = thr /\ visitor_infos' = visitor_infos /\ next' = next /\ called' = called
      /\ asst_done' = asst_done /\ num' = num /\ served' = served /\ doc_session_done' = doc_session_done
      /\ waiting' = waiting /\ current_time' = current_time /\ count' = count /\ part' = part
      /\ E' = E /\ num_visitors' = num_visitors
  BY <1>1 DEF queue, counters, clock, visits
<1>5. \A k \in DOMAIN thr : at'[k] = at[k]
  BY <1>2, <1>3
<1>6. /\ ~Fresh /\ ~Visiting /\ (Counted <=> part = "arrival") /\ ~asst_done
      /\ \A k \in DOMAIN thr : at[k] \notin Untold \union In
      /\ \A t \in Kinds : ~called[t]
  BY <1>1, QuietNow DEF QuietPlaces
<1>7. ~Fresh' /\ Visiting' /\ Waking' /\ ~Meeting' /\ (Counted' <=> Counted)
  BY <1>1, <1>3, <1>4, <1>6 DEF Fresh, Visiting, Waking, Meeting, Counted, Asleep
<1>8. ~Nobody /\ ~doc_session_done
  BY <1>1 DEF MayCall, AnyWaiting, Nobody, QuotasKept, CounterRange
<1>9. at'[Doctor] = "wait"
  BY <1>1, <1>3, <1>6, <1>8 DEF DoctorFollows
<1>10. Ranges'
  BY <1>1 DEF QueueRange, CounterRange, FlagRange, ThreadRange, queue, counters, clock, visits
<1>11. Places'
  BY <1>1, <1>2, <1>3, <1>4 DEF Places, AsstPlaces, DoctorPlaces, Visitors
<1>12. DoctorFollows'
  <2>1. doc_done' = TRUE
    BY <1>1, Zenon
  <2>2. ~asst_done' /\ at'[Asst] # "call" /\ at'[Asst] # "join"
    BY <1>3, <1>4, <1>6
  <2>. QED
    BY <1>7, <1>9, <2>1, <2>2 DEF DoctorFollows
<1>13. VisitorsFollow'
  BY <1>4, <1>5, <1>6, <1>7 DEF VisitorsFollow
<1>14. BarrierCounts'
  <2>1. /\ at'[Asst] = "barred" <=> at[Asst] = "barred"
        /\ at'[Doctor] = "barred" <=> at[Doctor] = "barred"
    BY <1>1, <1>3
  <2>. QED
    BY <1>4, <1>5, <2>1 DEF BarrierCounts, One
<1>15. WaitingExact'
  <2>1. \A s : Outsiders(s)' = Outsiders(s)
    BY <1>4, <1>5, SameOutsiders
  <2>. QED
    BY <1>4, <1>6, <1>7, <2>1 DEF WaitingExact, One
<1>16. QuotasKept'
  <2>1. ~(\A s \in {"P", "S"} : served[s] = Quota[s])
    <3>. SUFFICES ASSUME \A s \in {"P", "S"} : served[s] = Quota[s] PROVE FALSE
      OBVIOUS
    <3>1. waiting["R"] = 0
      BY <1>8 DEF QuotasKept
    <3>2. \A s \in {"P", "S"} : waiting[s] \in Nat /\ served[s] \in Nat /\ served[s] + waiting[s] <= Quota[s]
      BY <1>8 DEF QuotasKept, CounterRange, Kinds
    <3>3. \A s \in {"P", "S"} : waiting[s] = 0
      BY <3>2
    <3>. QED
      BY <1>8, <3>1, <3>3 DEF Nobody, Kinds
  <2>. QED
    BY <1>4, <1>7, <1>8, <2>1 DEF QuotasKept, Quota
<1>17. PartsKnown'
  BY <1>1, <1>3, <1>4, <1>7, <1>8 DEF PartsKnown, Nobody
<1>18. HeadKept'
  BY <1>1, <1>3, <1>4, <1>6, <1>7 DEF HeadKept, Arrivals
<1>19. ArrivalsCounted'
  BY <1>4, <1>6, <1>7 DEF ArrivalsCounted, AllNum, Arrivals, One
<1>20. InfoRight' /\ RankKept'
  BY <1>4, <1>5 DEF InfoRight, RankKept
<1>. QED
  BY <1>10, <1>11, <1>12, <1>13, <1>14, <1>15, <1>16, <1>17, <1>18, <1>19, <1>20

\* A thread is made for the visitor who came.
LEMMA CreateStep == IInv /\ Create => IInv'
<1>. SUFFICES ASSUME IInv, Create PROVE IInv'
  OBVIOUS
<1>. USE PeopleFacts DEF IInv, Ranges
<1>. DEFINE k == Len(thr) + 1
            t == next.type
            new == [type |-> t, arg |-> num_visitors, duration |-> 0, came |-> next.time]
<1>1. /\ at[Asst] = "deal" /\ t # "D" /\ next.time <= current_time /\ ~Refused
      /\ visitor_infos' = [visitor_infos EXCEPT ![num_visitors] = next.duration]
      /\ thr' = Append(thr, new) /\ after' = "admit"
      /\ at' = [at EXCEPT ![Asst] = "test", ![k] = "new"]
      /\ UNCHANGED <<queue, doc_arrived, part, counters, clock, flags, count>>
  BY DEF Create, Arrives
<1>2. /\ Len(thr) \in Nat /\ DOMAIN thr = 1 .. Len(thr)
      /\ \A j \in DOMAIN thr : j \in People /\ j # Asst /\ j # Doctor /\ j \in 1 .. N
  BY ThreadFacts
<1>3. /\ next' = next /\ E' = E /\ part' = part /\ num' = num /\ waiting' = waiting /\ served' = served
      /\ num_visitors' = num_visitors /\ current_time' = current_time
      /\ doc_session_done' = doc_session_done /\ asst_done' = asst_done /\ doc_done' = doc_done
      /\ called' = called /\ count' = count
  BY <1>1 DEF queue, counters, clock, flags
<1>4. /\ part = "arrival" /\ next \in Event /\ E \in Seq(Event) /\ E # << >> /\ E[1] = next
      /\ ~Fresh /\ ~Visiting /\ ~Meeting /\ ~Waking /\ ~Counted /\ ~asst_done
      /\ \A j \in DOMAIN thr : at[j] \notin Untold \union In
      /\ \A s \in Kinds : ~called[s]
  BY <1>1, QuietNow DEF QuietPlaces, PartsKnown, HeadKept, QueueRange
<1>5. t \in Kinds /\ next.time \in Int /\ next.duration \in Nat
  BY <1>1, <1>4 DEF Event, Types, Kinds
\* There is a thread left, and a place in visitor_infos.
<1>6. k \in 1 .. N /\ num_visitors \in 0 .. N
  <2>1. 1 \in Arrivals(E)
    BY <1>1, <1>4 DEF Arrivals
  <2>2. Cardinality(Arrivals(E)) \in Nat /\ Cardinality(Arrivals(E)) # 0
    BY <1>4, <2>1, ArrivalsFinite, FS_EmptySet
  <2>3. AllNum \in Nat /\ num_visitors \in Nat
    BY DEF AllNum, CounterRange, Kinds
  <2>4. /\ AllNum + Cardinality(Arrivals(E)) <= N
        /\ Len(thr) <= AllNum /\ num_visitors <= Len(thr)
    BY <1>2, <1>4, <2>2, <2>3 DEF ArrivalsCounted, One
  <2>. QED
    BY <1>2, <2>2, <2>3, <2>4
<1>7. k \in People /\ k # Asst /\ k # Doctor /\ k \notin DOMAIN thr
  BY <1>2, <1>6
<1>8. /\ at'[Asst] = "test" /\ at'[k] = "new" /\ at'[Doctor] = at[Doctor]
      /\ \A y \in People \ {Asst, k} : at'[y] = at[y]
      /\ at' \in [People -> AsstPlaces \union DoctorPlaces \union VisitorPlaces]
  <2>. HIDE DEF k
  <2>. QED
    BY <1>1, <1>7 DEF Places, AsstPlaces, VisitorPlaces, Outside
<1>. DEFINE T == [type : Kinds, arg : 0 .. N, duration : Nat, came : Int]
<1>9. /\ thr' \in Seq(T) /\ Len(thr') = k /\ DOMAIN thr' = 1 .. k /\ DOMAIN thr' = DOMAIN thr \union {k}
      /\ thr'[k] = new /\ \A j \in DOMAIN thr : thr'[j] = thr[j]
  <2>1. new \in T /\ thr \in Seq(T)
    BY <1>5, <1>6 DEF ThreadRange
  <2>. HIDE DEF new, T
  <2>. QED
    BY <1>1, <1>2, <2>1
<1>10. Fresh' /\ ~Visiting' /\ ~Meeting' /\ ~Waking' /\ ~Counted'
  BY <1>1, <1>8 DEF Fresh, Visiting, Meeting, Waking, Counted, Asleep
<1>11. \A j \in DOMAIN thr : at'[j] = at[j]
  <2>. HIDE DEF k
  <2>. QED
    BY <1>2, <1>7, <1>8
\* Were the session over, the quotas would be full, and the visitor refused.
<1>12. ~doc_session_done /\ (t # "R" => num[t] < Quota[t])
  <2>1. t # "R" => num[t] < Quota[t] /\ num[t] \in Nat /\ Quota[t] \in Nat
    BY <1>1, <1>5, QuotaFacts DEF Refused, Kinds, CounterRange
  <2>2. ASSUME doc_session_done PROVE FALSE
    <3>1. \A s \in {"P", "S"} : served[s] = Quota[s] + 1 /\ Quota[s] <= num[s]
      BY <1>4, <2>2 DEF QuotasKept
    <3>2. t = "R"
      BY <1>5, <2>1, <3>1 DEF Kinds
    <3>. QED
      BY <1>1, <3>1, <3>2, QuotaFacts DEF Refused
  <2>. QED
    BY <2>1, <2>2
<1>13. Ranges'
  <2>1. ThreadRange'
    <3>1. visitor_infos' \in [0 .. N -> Nat]
      BY <1>1, <1>5, <1>6 DEF ThreadRange
    <3>. QED
      BY <1>6, <1>9, <3>1 DEF ThreadRange
  <2>. QED
    BY <1>1, <2>1 DEF QueueRange, CounterRange, FlagRange, queue, counters, clock, flags
<1>14. Places'
  <2>1. \A j \in Visitors \ {k} : at'[j] = at[j]
    <3>. HIDE DEF k
    <3>. QED
      BY <1>8 DEF Visitors
  <2>2. \A j \in Visitors : at'[j] \in VisitorPlaces /\ (at'[j] = "unborn" <=> j > k)
    <3>. SUFFICES ASSUME NEW j \in Visitors PROVE at'[j] \in VisitorPlaces /\ (at'[j] = "unborn" <=> j > k)
      OBVIOUS
    <3>1. CASE j = k
      BY <1>2, <1>8, <3>1 DEF VisitorPlaces, Outside
    <3>2. CASE j # k
      <4>1. at'[j] = at[j]
        BY <2>1, <3>2
      <4>2. j \in Nat /\ at[j] \in VisitorPlaces /\ (at[j] = "unborn" <=> j > Len(thr))
        BY DEF Places, Visitors
      <4>. QED
        BY <1>2, <3>2, <4>1, <4>2
    <3>. QED
      BY <3>1, <3>2
  <2>. HIDE DEF k
  <2>. QED
    BY <1>8, <1>9, <2>2 DEF Places, AsstPlaces
<1>15. DoctorFollows'
  BY <1>1, <1>3, <1>4, <1>8, <1>10 DEF DoctorFollows
<1>16. VisitorsFollow'
  <2>1. \A j \in DOMAIN thr' : /\ at'[j] \in Untold => j = k
                               /\ at'[j] \notin In
    BY <1>4, <1>8, <1>9, <1>11 DEF Untold, In
  <2>2. Len(thr') = k /\ k \in DOMAIN thr' /\ k > 0 /\ thr'[k].type = next.type
    BY <1>2, <1>9
  <2>3. at'[k] \in Outside /\ at'[k] \in Untold /\ at'[Asst] \in Asleep
    BY <1>8 DEF Outside, Untold, Asleep
  <2>. HIDE DEF k
  <2>. QED
    BY <1>3, <1>4, <1>10, <2>1, <2>2, <2>3 DEF VisitorsFollow
<1>17. BarrierCounts'
  <2>1. (\E j \in DOMAIN thr' : at'[j] = "barred") <=> (\E j \in DOMAIN thr : at[j] = "barred")
    BY <1>8, <1>9, <1>11
  <2>. QED
    BY <1>1, <1>3, <1>8, <2>1 DEF BarrierCounts, One
<1>18. WaitingExact'
  <2>. HIDE DEF k
  <2>1. \A s \in Kinds : Outsiders(s)' = IF s = t THEN Outsiders(s) \union {k} ELSE Outsiders(s)
    <3>1. thr'[k].type = t /\ at'[k] \in Outside /\ DOMAIN thr' = DOMAIN thr \union {k}
      <4>1. new.type = t
        OBVIOUS
      <4>. HIDE DEF new, T
      <4>. QED
        BY <1>8, <1>9, <4>1 DEF Outside
    <3>2. \A j \in DOMAIN thr : thr'[j] = thr[j] /\ at'[j] = at[j] /\ j # k
      BY <1>7, <1>9, <1>11
    <3>. HIDE DEF new, T, t
    <3>. QED
      BY <3>1, <3>2 DEF Outsiders
  <2>2. \A s \in Kinds : k \notin Outsiders(s)
    BY <1>7 DEF Outsiders
  <2>. HIDE DEF t
  <2>3. \A s \in Kinds : Cardinality(Outsiders(s)') = Cardinality(Outsiders(s)) + One(s = t)
    <3>. SUFFICES ASSUME NEW s \in Kinds
                  PROVE  Cardinality(Outsiders(s)') = Cardinality(Outsiders(s)) + One(s = t)
      OBVIOUS
    <3>1. IsFiniteSet(Outsiders(s)) /\ Cardinality(Outsiders(s)) \in Nat
      BY OutsidersFinite
    <3>2. Cardinality(Outsiders(s) \union {k}) = Cardinality(Outsiders(s)) + 1
      BY <2>2, <3>1, FS_AddElement
    <3>3. CASE s = t
      BY <2>1, <3>1, <3>2, <3>3 DEF One
    <3>4. CASE s # t
      <4>1. Outsiders(s)' = Outsiders(s)
        BY <2>1, <3>4
      <4>. QED
        BY <3>1, <3>4, <4>1 DEF One
    <3>. QED
      BY <3>3, <3>4
  <2>. SUFFICES ASSUME NEW s \in Kinds
                PROVE  Cardinality(Outsiders(s)') = waiting[s] + One(called[s]) + One(s = t)
    BY <1>3, <1>10 DEF WaitingExact, One, t
  <2>4. Cardinality(Outsiders(s)) = waiting[s] + One(called[s]) + One(FALSE)
    BY <1>4 DEF WaitingExact, One
  <2>5. waiting[s] \in Nat
    BY DEF CounterRange
  <2>. QED
    BY <2>3, <2>4, <2>5 DEF One
<1>19. QuotasKept'
  <2>1. ~(\A s \in {"P", "S"} : served[s] = Quota[s])
    BY <1>1, <1>12 DEF QuotasKept
  <2>. QED
    BY <1>3, <1>4, <1>10, <1>12, <2>1 DEF QuotasKept, Quota
<1>20. PartsKnown'
  BY <1>3, <1>4, <1>8, <1>10, <1>12 DEF PartsKnown
<1>21. HeadKept'
  BY <1>1, <1>3, <1>4, <1>8, <1>10 DEF HeadKept, Arrivals
<1>22. ArrivalsCounted'
  <2>1. AllNum' = AllNum /\ Arrivals(E)' = Arrivals(E) /\ AllNum \in Nat /\ num_visitors \in Nat
    BY <1>3 DEF AllNum, Arrivals, CounterRange, Kinds
  <2>. QED
    BY <1>2, <1>3, <1>4, <1>9, <1>10, <2>1 DEF ArrivalsCounted, One
<1>23. InfoRight'
  <2>. SUFFICES ASSUME NEW j \in DOMAIN thr'
                PROVE  /\ at'[j] = "new" => visitor_infos'[thr'[j].arg] = next.duration
                       /\ at'[j] # "new" => thr'[j].duration > 0
                       /\ thr'[j].came <= current_time
    BY <1>3 DEF InfoRight
  <2>1. CASE j = k
    <3>1. thr'[j].arg = num_visitors /\ thr'[j].came = next.time
      BY <1>9, <2>1
    <3>2. visitor_infos'[num_visitors] = next.duration
      BY <1>1, <1>6 DEF ThreadRange
    <3>3. at'[j] = "new"
      BY <1>8, <2>1
    <3>. QED
      BY <1>1, <3>1, <3>2, <3>3
  <2>2. CASE j # k
    <3>1. j \in DOMAIN thr
      BY <1>9, <2>2
    <3>2. thr'[j] = thr[j] /\ at'[j] = at[j] /\ at[j] # "new"
      BY <1>4, <1>9, <1>11, <3>1 DEF Untold
    <3>. QED
      BY <3>1, <3>2 DEF InfoRight
  <2>. QED
    BY <2>1, <2>2
<1>24. RankKept'
  BY <1>3 DEF RankKept
<1>. QED
  BY <1>13, <1>14, <1>15, <1>16, <1>17, <1>18, <1>19, <1>20, <1>21, <1>22, <1>23, <1>24

\* The visitor chosen is called.
LEMMA CallStep == IInv /\ Call => IInv'
<1>. SUFFICES ASSUME IInv, Call PROVE IInv'
  OBVIOUS
<1>. USE PeopleFacts DEF IInv, Ranges
<1>. DEFINE t == Chosen
<1>1. /\ at[Asst] = "call"
      /\ called' = [called EXCEPT ![t] = TRUE]
      /\ waiting' = [waiting EXCEPT ![t] = @ - 1]
      /\ served' = [s \in {"P", "S"} |-> served[s] + (IF s = t THEN 1 ELSE 0)]
      /\ UNCHANGED <<queue, own, num, num_visitors, clock, asst_done, doc_done, visits, count>>
  BY QuotaFacts DEF Call
<1>2. /\ Len(thr) \in Nat /\ DOMAIN thr = 1 .. Len(thr)
      /\ \A j \in DOMAIN thr : j \in People /\ j # Asst /\ j # Doctor /\ j \in 1 .. N
  BY ThreadFacts
<1>3. /\ next' = next /\ E' = E /\ part' = part /\ num' = num /\ after' = after
      /\ num_visitors' = num_visitors /\ current_time' = current_time
      /\ doc_session_done' = doc_session_done /\ asst_done' = asst_done /\ doc_done' = doc_done
      /\ thr' = thr /\ visitor_infos' = visitor_infos /\ count' = count
  BY <1>1 DEF queue, own, clock, visits
\* A visitor of the kind is woken, or none is asleep.
<1>4. /\ at'[Asst] = "barrier" /\ at'[Doctor] = at[Doctor]
      /\ at' \in [People -> AsstPlaces \union DoctorPlaces \union VisitorPlaces]
      /\ \A y \in People \ {Asst} :
           \/ at'[y] = at[y]
           \/ y \in DOMAIN thr /\ at[y] = "asleep" /\ at'[y] = "awake"
  <2>. DEFINE sleepers == {k \in DOMAIN thr : thr[k].type = t /\ at[k] = "asleep"}
  <2>1. \/ at' = [at EXCEPT ![Asst] = "barrier"]
        \/ \E k \in sleepers : at' = [at EXCEPT ![Asst] = "barrier", ![k] = "awake"]
    BY DEF Call, Goto
  <2>2. at \in [People -> AsstPlaces \union DoctorPlaces \union VisitorPlaces]
    BY DEF Places
  <2>3. {"barrier", "awake"} \subseteq AsstPlaces \union DoctorPlaces \union VisitorPlaces
    BY DEF AsstPlaces, VisitorPlaces, Outside
  <2>4. CASE at' = [at EXCEPT ![Asst] = "barrier"]
    BY <2>2, <2>3, <2>4
  <2>5. CASE \E k \in sleepers : at' = [at EXCEPT ![Asst] = "barrier", ![k] = "awake"]
    <3>1. PICK k \in sleepers : at' = [at EXCEPT ![Asst] = "barrier", ![k] = "awake"]
      BY <2>5
    <3>2. k \in DOMAIN thr /\ k \in People /\ k # Asst /\ k # Doctor /\ at[k] = "asleep"
      BY <1>2
    <3>3. at'[k] = "awake" /\ at'[Asst] = "barrier" /\ \A y \in People \ {k, Asst} : at'[y] = at[y]
      BY <2>2, <3>1, <3>2
    <3>4. at' \in [People -> AsstPlaces \union DoctorPlaces \union VisitorPlaces]
      BY <2>2, <2>3, <3>1, <3>2
    <3>. QED
      BY <3>2, <3>3, <3>4
  <2>. QED
    BY <2>1, <2>4, <2>5
<1>5. /\ \A k \in DOMAIN thr :
           \/ at'[k] = at[k]
           \/ at[k] = "asleep" /\ at'[k] = "awake"
      /\ \A k \in DOMAIN thr : at'[k] \in Outside <=> at[k] \in Outside
  <2>1. \A k \in DOMAIN thr : \/ at'[k] = at[k]
                              \/ at[k] = "asleep" /\ at'[k] = "awake"
    BY <1>2, <1>4
  <2>. QED
    BY <2>1 DEF Outside
<1>6. /\ ~Fresh /\ Visiting /\ ~Waking /\ ~Meeting /\ (Counted <=> part = "arrival")
      /\ ~Fresh' /\ Visiting' /\ ~Waking' /\ Meeting' /\ (Counted' <=> part = "arrival")
  BY <1>1, <1>3, <1>4 DEF Fresh, Visiting, Waking, Meeting, Counted, Asleep
<1>7. ~Nobody /\ ~doc_session_done
  BY <1>1, <1>6 DEF PartsKnown
<1>8. \A s \in Kinds : ~called[s]
  BY <1>6 DEF VisitorsFollow
<1>9. \A k \in DOMAIN thr : at[k] \notin Untold \union In
  BY <1>6 DEF VisitorsFollow
<1>10. /\ t \in Kinds /\ waiting[t] > 0
       /\ \A s \in Kinds : Rank[s] < Rank[t] => waiting[s] = 0
       /\ waiting["R"] > 0 => t = "R"
  <2>1. \A s \in Kinds : waiting[s] \in Nat
    BY DEF CounterRange
  <2>2. waiting["R"] > 0 \/ waiting["P"] > 0 \/ waiting["S"] > 0
    BY <1>7, <2>1 DEF Nobody, Kinds
  <2>3. Rank["R"] = 1 /\ Rank["P"] = 2 /\ Rank["S"] = 3
    BY DEF Rank
  <2>. QED
    BY <2>1, <2>2, <2>3 DEF Chosen, Kinds
<1>11. /\ waiting' \in [Kinds -> Nat] /\ waiting'[t] = waiting[t] - 1
       /\ \A s \in Kinds : s # t => waiting'[s] = waiting[s]
       /\ called' \in [Kinds -> BOOLEAN] /\ called'[t]
       /\ \A s \in Kinds : s # t => ~called'[s]
       /\ served' \in [{"P", "S"} -> Nat]
       /\ \A s \in {"P", "S"} : served'[s] = served[s] + One(s = t)
  <2>1. waiting \in [Kinds -> Nat] /\ called \in [Kinds -> BOOLEAN] /\ served \in [{"P", "S"} -> Nat]
    BY DEF CounterRange, FlagRange
  <2>. HIDE DEF t
  <2>2. /\ waiting' \in [Kinds -> Nat] /\ waiting'[t] = waiting[t] - 1
        /\ \A s \in Kinds : s # t => waiting'[s] = waiting[s]
    <3>1. waiting[t] - 1 \in Nat
      BY <1>10, <2>1
    <3>. QED
      BY <1>1, <1>10, <2>1, <3>1
  <2>3. /\ called' \in [Kinds -> BOOLEAN] /\ called'[t] = TRUE
        /\ \A s \in Kinds : s # t => called'[s] = called[s]
    BY <1>1, <1>10, <2>1, Zenon
  <2>4. /\ served' \in [{"P", "S"} -> Nat]
        /\ \A s \in {"P", "S"} : served'[s] = served[s] + One(s = t)
    BY <1>1, <2>1 DEF One
  <2>. QED
    BY <1>8, <2>2, <2>3, <2>4
<1>12. Ranges'
  <2>. HIDE DEF t
  <2>1. QueueRange' /\ ThreadRange'
    BY <1>3 DEF QueueRange, ThreadRange
  <2>2. CounterRange'
    BY <1>1, <1>11 DEF CounterRange, clock
  <2>3. FlagRange'
    BY <1>1, <1>11 DEF FlagRange, own, clock
  <2>. QED
    BY <2>1, <2>2, <2>3
<1>13. Places'
  <2>1. at'[Asst] \in AsstPlaces /\ at'[Doctor] \in DoctorPlaces
    BY <1>4 DEF Places, AsstPlaces
  <2>2. ASSUME NEW k \in Visitors
        PROVE  at'[k] \in VisitorPlaces /\ (at'[k] = "unborn" <=> k > Len(thr))
    <3>1. at[k] \in VisitorPlaces /\ (at[k] = "unborn" <=> k > Len(thr))
      BY DEF Places
    <3>2. at'[k] = at[k] \/ (at[k] = "asleep" /\ at'[k] = "awake")
      BY <1>4
    <3>. QED
      BY <3>1, <3>2 DEF VisitorPlaces, Outside
  <2>. QED
    BY <1>3, <1>4, <2>1, <2>2 DEF Places
<1>14. DoctorFollows'
  <2>1. at[Doctor] \in {"ring", "barrier", "barred"} /\ ~doc_done /\ ~asst_done
    BY <1>1 DEF DoctorFollows
  <2>. QED
    BY <1>3, <1>4, <1>6, <2>1 DEF DoctorFollows
<1>15. VisitorsFollow'
  <2>1. \A k \in DOMAIN thr : at'[k] \notin Untold \union In
    BY <1>5, <1>9 DEF Untold, In
  <2>. HIDE DEF t
  <2>2. \A r, s \in Kinds : called'[s] => Meeting' /\ (called'[r] => r = s)
    BY <1>6, <1>10, <1>11
  <2>. QED
    BY <1>3, <1>6, <2>1, <2>2 DEF VisitorsFollow
<1>16. BarrierCounts'
  <2>1. \A k \in DOMAIN thr : at'[k] = "barred" <=> at[k] = "barred"
    BY <1>5
  <2>2. at'[Asst] # "barred" /\ at[Asst] # "barred"
    BY <1>1, <1>4
  <2>. QED
    BY <1>3, <1>4, <2>1, <2>2 DEF BarrierCounts, One
<1>17. WaitingExact'
  <2>1. \A s : Outsiders(s)' = Outsiders(s)
    BY <1>3, <1>5, SameOutsiders
  <2>. HIDE DEF t
  <2>2. ASSUME NEW s \in Kinds PROVE waiting'[s] + One(called'[s]) = waiting[s] + One(called[s])
    <3>1. waiting[s] \in Nat /\ ~called[s]
      BY <1>8 DEF CounterRange
    <3>2. CASE s = t
      BY <1>11, <3>1, <3>2 DEF One
    <3>3. CASE s # t
      BY <1>11, <3>1, <3>3 DEF One
    <3>. QED
      BY <3>2, <3>3
  <2>. QED
    BY <1>3, <1>6, <2>1, <2>2 DEF WaitingExact, One
<1>18. QuotasKept'
  <2>. HIDE DEF t
  <2>1. ASSUME NEW s \in {"P", "S"}
        PROVE  /\ served'[s] + waiting'[s] <= Quota[s] /\ served'[s] + waiting'[s] <= num[s]
               /\ served'[s] <= Quota[s] + 1
    <3>1. /\ served[s] + waiting[s] <= Quota[s] /\ served[s] + waiting[s] <= num[s]
          /\ served[s] \in Nat /\ waiting[s] \in Nat /\ Quota[s] \in Nat /\ s \in Kinds
      BY <1>7, QuotaFacts DEF QuotasKept, CounterRange, Kinds
    <3>2. served'[s] + waiting'[s] = served[s] + waiting[s]
      <4>1. CASE s = t
        BY <1>11, <3>1, <4>1 DEF One
      <4>2. CASE s # t
        BY <1>11, <3>1, <4>2 DEF One
      <4>. QED
        BY <4>1, <4>2
    <3>3. waiting'[s] \in Nat /\ served'[s] \in Nat
      BY <1>11, <3>1
    <3>. QED
      BY <3>1, <3>2, <3>3
  <2>2. (\A s \in {"P", "S"} : served'[s] = Quota[s]) => waiting'["R"] = 0
    <3>. SUFFICES ASSUME \A s \in {"P", "S"} : served'[s] = Quota[s], waiting'["R"] # 0
                  PROVE  FALSE
      OBVIOUS
    <3>1. waiting["R"] \in Nat /\ waiting'["R"] \in Nat /\ "R" \in Kinds
      BY <1>11 DEF CounterRange, Kinds
    <3>2. waiting["R"] > 0
      <4>1. CASE t = "R"
        BY <1>10, <4>1
      <4>2. CASE t # "R"
        BY <1>11, <3>1, <4>2
      <4>. QED
        BY <4>1, <4>2
    <3>3. t = "R"
      BY <1>10, <3>2
    <3>4. \A s \in {"P", "S"} : served[s] = Quota[s]
      <4>1. \A s \in {"P", "S"} : s # t /\ served[s] \in Nat
        BY <3>3 DEF CounterRange
      <4>. QED
        BY <1>11, <4>1 DEF One
    <3>. QED
      BY <1>1, <1>7, <3>4 DEF QuotasKept
  <2>3. Quota' = Quota
    BY DEF Quota
  <2>. QED
    BY <1>3, <1>4, <1>6, <1>7, <2>1, <2>2, <2>3 DEF QuotasKept
<1>19. PartsKnown'
  <2>1. at[Asst] = "call" /\ part # "final" => next \in Event
    BY DEF PartsKnown
  <2>. QED
    BY <1>1, <1>3, <1>4, <1>6, <1>7, <2>1 DEF PartsKnown
<1>20. HeadKept'
  BY <1>1, <1>3, <1>4, <1>6 DEF HeadKept, Arrivals
<1>21. ArrivalsCounted'
  BY <1>3, <1>6 DEF ArrivalsCounted, AllNum, Arrivals, One
<1>22. InfoRight'
  BY <1>3, <1>5 DEF InfoRight
<1>23. RankKept'
  <2>. HIDE DEF t
  <2>1. ASSUME NEW r \in Kinds, NEW s \in Kinds, called'[s], Rank[r] < Rank[s]
        PROVE  waiting'[r] = 0
    <3>1. s = t
      BY <1>11, <2>1
    <3>2. waiting[r] = 0
      BY <1>10, <2>1, <3>1
    <3>3. r # t
      <4>. SUFFICES ASSUME r = t PROVE FALSE
        OBVIOUS
      <4>1. waiting[r] = waiting[t]
        OBVIOUS
      <4>2. waiting[t] > 0
        BY <1>10
      <4>. QED
        BY <3>2, <4>1, <4>2
    <3>. QED
      BY <1>11, <3>2, <3>3
  <2>. QED
    BY <2>1 DEF RankKept, Rank
<1>. QED
  BY <1>12, <1>13, <1>14, <1>15, <1>16, <1>17, <1>18, <1>19, <1>20, <1>21, <1>22, <1>23

----------------------------------------------------------------------------
(* The invariant.                                                           *)

\* The barrier, whoever comes.
LEMMA MeetStep ==
  ASSUME IInv, NEW x \in {Asst, Doctor} \union DOMAIN thr, Meet(x)
  PROVE  IInv'
<1>1. count \in Nat
  BY DEF IInv, Ranges, CounterRange
<1>2. count + 1 < 3 \/ count + 1 >= 3
  BY <1>1
<1>. QED
  BY <1>2, MeetWaits, MeetOpens

\* Every step of the assistant keeps the invariant.
LEMMA AsstStep == IInv /\ AsstSteps => IInv'
BY LookStep, LookLastStep, DismissStep, JoinStep, DropDoneStep, PostponeStep, RefuseStep,
   CreateStep, TestStep, DozeStep, AdmitStep, AttendStep, AttendNoMoreStep, CallStep,
   MeetStep, NoteStep, EndTurnStep, IdleStep DEF AsstSteps

\* Every step of the doctor keeps the invariant.
LEMMA DoctorStep == IInv /\ DoctorSteps => IInv'
<1>. SUFFICES ASSUME IInv, DoctorSteps PROVE IInv'
  OBVIOUS
<1>1. CASE DoctorTests \/ DoctorGoesOn \/ DoctorLeaves
  BY <1>1, DoctorAloneStep
<1>2. CASE Tell(Doctor)
  BY <1>2, TellStep
<1>3. CASE Ring(Doctor, "barrier")
  BY <1>3, RingStep
<1>4. CASE Meet(Doctor)
  BY <1>4, MeetStep
<1>. QED
  BY <1>1, <1>2, <1>3, <1>4 DEF DoctorSteps

\* Every step of a visitor keeps the invariant.
LEMMA VisitorStep ==
  ASSUME IInv, NEW k \in DOMAIN thr, VisitorSteps(k)
  PROVE  IInv'
<1>1. k # Doctor
  BY ThreadFacts DEF IInv, Ranges
<1>2. CASE VisitorReads(k) \/ VisitorLocks(k) \/ VisitorSleeps(k) \/ VisitorWakes(k)
  BY <1>2, VisitorReadsStep, VisitorAloneStep
<1>3. CASE VisitorGoesIn(k) \/ VisitorTalks(k)
  BY <1>3, VisitorGoesInStep, VisitorTalksStep
<1>4. CASE Tell(k)
  BY <1>4, TellStep
<1>5. CASE Ring(k, "ask")
  BY <1>1, <1>5, RingStep
<1>6. CASE Meet(k)
  BY <1>6, MeetStep
<1>. QED
  BY <1>2, <1>3, <1>4, <1>5, <1>6 DEF VisitorSteps

\* A step that changes nothing keeps the invariant.
LEMMA IdleAll == IInv /\ UNCHANGED vars => IInv'
<1>. SUFFICES ASSUME IInv, UNCHANGED vars PROVE IInv'
  OBVIOUS
<1>. USE DEF vars, queue, own, counters, clock, flags, visits
<1>1. Ranges' /\ Places'
  BY DEF IInv, Ranges, QueueRange, CounterRange, FlagRange, ThreadRange, Places
<1>2. /\ Fresh' <=> Fresh
      /\ Waking' <=> Waking
      /\ Meeting' <=> Meeting
      /\ Visiting' <=> Visiting
      /\ Counted' <=> Counted
      /\ Nobody' <=> Nobody
  BY DEF Fresh, Waking, Meeting, Visiting, Counted, Nobody
<1>3. DoctorFollows' /\ VisitorsFollow' /\ BarrierCounts'
  BY <1>2 DEF IInv, DoctorFollows, VisitorsFollow, BarrierCounts
<1>4. WaitingExact'
  BY <1>2 DEF IInv, WaitingExact, Outsiders
<1>5. QuotasKept' /\ PartsKnown'
  BY <1>2 DEF IInv, QuotasKept, PartsKnown, Quota
<1>6. HeadKept' /\ ArrivalsCounted'
  <2>1. Arrivals(E)' = Arrivals(E) /\ AllNum' = AllNum
    BY DEF Arrivals, AllNum
  <2>2. HeadKept'
    BY <1>2, <2>1 DEF IInv, HeadKept
  <2>3. ArrivalsCounted'
    <3>1. One(Counted)' = One(Counted) /\ One(Fresh)' = One(Fresh) /\ One(Fresh \/ Counted)' = One(Fresh \/ Counted)
      BY <1>2 DEF One
    <3>. QED
      BY <2>1, <3>1 DEF IInv, ArrivalsCounted
  <2>. QED
    BY <2>2, <2>3
<1>7. InfoRight' /\ RankKept'
  BY DEF IInv, InfoRight, RankKept
<1>. QED
  BY <1>1, <1>3, <1>4, <1>5, <1>6, <1>7 DEF IInv

\* The invariant is inductive.
LEMMA NextIInv == IInv /\ [Next]_vars => IInv'
BY AsstStep, DoctorStep, VisitorStep, IdleAll DEF Next

\* The inductive invariant holds in every state of the session, for any files, any
\* quotas and any number of visitors.
THEOREM Invariance == Spec => []IInv
<1>1. Init => IInv
  BY InitIInv
<1>2. IInv /\ [Next]_vars => IInv'
  BY NextIInv
<1>. QED
  BY <1>1, <1>2, PTL DEF Spec

\* Who is outside is counted: with nobody counted there is nobody.
LEMMA NobodyOutside ==
  ASSUME IInv, NEW t \in Kinds, waiting[t] = 0, ~called[t], ~Fresh
  PROVE  Outsiders(t) = {}
<1>1. Cardinality(Outsiders(t)) = 0
  BY DEF IInv, WaitingExact, One
<1>2. IsFiniteSet(Outsiders(t))
  BY OutsidersFinite DEF IInv, Ranges
<1>. QED
  BY <1>1, <1>2, FS_EmptySet

\* With nobody waiting, called or fresh there is nobody outside.
LEMMA AllIn ==
  ASSUME IInv, Nobody, ~Fresh, \A t \in Kinds : ~called[t]
  PROVE  \A k \in DOMAIN thr : at[k] \notin Outside
<1>1. \A t \in Kinds : Outsiders(t) = {}
  BY NobodyOutside DEF Nobody
<1>2. \A k \in DOMAIN thr : thr[k].type \in Kinds
  BY ThreadFacts DEF IInv, Ranges
<1>. QED
  BY <1>1, <1>2 DEF Outsiders

\* DismissedForGood follows from the invariant: a session that is over has nobody
\* waiting, and so nobody outside.
LEMMA DismissedNow == IInv => DismissedForGood
<1>. SUFFICES ASSUME IInv, at[Doctor] = "gone"
              PROVE  /\ \A k \in DOMAIN thr : at[k] = "gone"
                     /\ at[Asst] \notin {"test", "doze", "asleep", "admit", "call", "barrier", "barred", "note", "turn"}
  BY DEF DismissedForGood
<1>1. doc_session_done /\ Nobody
  BY DEF IInv, DoctorFollows, QuotasKept
<1>2. ~Fresh /\ ~Visiting /\ ~Counted /\ at[Asst] # "note"
  BY <1>1 DEF IInv, PartsKnown
<1>3. at[Asst] # "turn"
  BY <1>2 DEF IInv, PartsKnown, Counted
<1>4. at[Asst] \notin {"test", "doze", "asleep"}
  BY <1>2 DEF IInv, Ranges, FlagRange, Fresh, Visiting, Waking, Asleep
<1>5. \A t \in Kinds : ~called[t]
  BY <1>2 DEF IInv, VisitorsFollow, Visiting
<1>6. \A k \in DOMAIN thr : at[k] \notin In
  BY <1>2 DEF IInv, VisitorsFollow, Visiting
<1>7. \A k \in DOMAIN thr : at[k] \notin Outside
  BY <1>1, <1>2, <1>5, AllIn
<1>8. \A k \in DOMAIN thr : at[k] \in Outside \union In \union {"gone"}
  BY ThreadFacts DEF IInv, Ranges
<1>. QED
  BY <1>2, <1>3, <1>4, <1>6, <1>7, <1>8 DEF Fresh, Visiting, Meeting

\* UnlockedDataSafe follows from the invariant.
LEMMA UnlockedNow == IInv => UnlockedDataSafe
<1>. SUFFICES ASSUME IInv PROVE UnlockedDataSafe
  OBVIOUS
<1>1. at[Doctor] = "woken" => at[Asst] \in {"test", "doze", "asleep", "join"}
  BY DEF IInv, DoctorFollows, Visiting, Waking, Asleep
<1>2. ASSUME NEW k \in DOMAIN thr, at[k] = "inside"
      PROVE  /\ at[Asst] \in {"barrier", "barred"}
             /\ at[Doctor] # "woken"
             /\ \A j \in DOMAIN thr \ {k} : at[j] # "inside"
  <2>1. Meeting /\ \A j \in DOMAIN thr : at[j] \in In => j = k
    BY <1>2 DEF IInv, VisitorsFollow, In
  <2>. QED
    BY <2>1 DEF IInv, DoctorFollows, Meeting, In
<1>3. RightInfo
  BY DEF IInv, InfoRight, RightInfo
<1>. QED
  BY <1>1, <1>2, <1>3 DEF UnlockedDataSafe, ClockHasOneUser

\* NobodyForgotten follows from the invariant.
LEMMA NobodyForgottenNow == IInv => NobodyForgotten
<1>. SUFFICES ASSUME IInv PROVE NobodyForgotten
  OBVIOUS
<1>1. ASSUME at[Asst] = "idle", next.time > current_time
      PROVE  \A k \in DOMAIN thr : at[k] \notin Outside
  <2>1. ~(next.time <= current_time)
    BY <1>1 DEF IInv, Ranges, QueueRange, CounterRange
  <2>2. Nobody
    BY <1>1, <2>1 DEF IInv, PartsKnown
  <2>3. ~Fresh /\ \A t \in Kinds : ~called[t]
    BY <1>1, QuietNow DEF QuietPlaces
  <2>. QED
    BY <2>2, <2>3, AllIn
<1>2. ASSUME at[Asst] = "over"
      PROVE  /\ \A i \in DOMAIN E : E[i].type = "D"
             /\ \A k \in DOMAIN thr : at[k] = "gone"
  <2>1. part = "final" /\ at[Doctor] = "gone" /\ Arrivals(E) = {}
    BY <1>2 DEF IInv, PartsKnown, HeadKept
  <2>2. \A i \in DOMAIN E : E[i].type = "D"
    BY <2>1 DEF Arrivals
  <2>. QED
    BY <2>1, <2>2, DismissedNow DEF DismissedForGood
<1>. QED
  BY <1>1, <1>2 DEF NobodyForgotten

\* The barrier's count is the number of those who wait at it.
LEMMA BarredCount ==
  ASSUME IInv
  PROVE  count = Cardinality({x \in People : at[x] = "barred"})
<1>. USE PeopleFacts DEF IInv, Ranges
<1>. DEFINE B == {x \in People : at[x] = "barred"}
            V == {k \in DOMAIN thr : at[k] = "barred"}
            D == {x \in {Doctor} : at[x] = "barred"}
            A == {x \in {Asst} : at[x] = "barred"}
<1>1. \A k \in DOMAIN thr : k \in 1 .. N /\ k \in People /\ k # Asst /\ k # Doctor
  BY ThreadFacts
<1>2. \A k \in 1 .. N : at[k] = "barred" => k \in DOMAIN thr
  <2>1. DOMAIN thr = 1 .. Len(thr) /\ Len(thr) \in Nat
    BY ThreadFacts
  <2>2. \A k \in 1 .. N : at[k] = "barred" => ~(k > Len(thr))
    BY DEF Places
  <2>. QED
    BY <2>1, <2>2
<1>3. B = (A \union D) \union V
  <2>1. \A x \in B : x = Asst \/ x = Doctor \/ x \in 1 .. N
    BY DEF People, Visitors
  <2>. QED
    BY <1>1, <1>2, <2>1
<1>4. IsFiniteSet(V) /\ Cardinality(V) = One(\E k \in DOMAIN thr : at[k] = "barred")
  <2>1. CASE \E k \in DOMAIN thr : at[k] = "barred"
    <3>1. PICK k \in DOMAIN thr : at[k] = "barred"
      BY <2>1
    <3>2. V = {k}
      BY <3>1 DEF VisitorsFollow, In
    <3>. QED
      BY <2>1, <3>2, FS_Singleton DEF One
  <2>2. CASE ~ \E k \in DOMAIN thr : at[k] = "barred"
    <3>1. V = {}
      BY <2>2
    <3>. QED
      BY <2>2, <3>1, FS_EmptySet DEF One
  <2>. QED
    BY <2>1, <2>2
<1>5. IsFiniteSet(D) /\ Cardinality(D) = One(at[Doctor] = "barred")
  <2>1. CASE at[Doctor] = "barred"
    <3>1. D = {Doctor}
      BY <2>1
    <3>. QED
      BY <2>1, <3>1, FS_Singleton DEF One
  <2>2. CASE at[Doctor] # "barred"
    <3>1. D = {}
      BY <2>2
    <3>. QED
      BY <2>2, <3>1, FS_EmptySet DEF One
  <2>. QED
    BY <2>1, <2>2
<1>6. IsFiniteSet(A) /\ Cardinality(A) = One(at[Asst] = "barred")
  <2>1. CASE at[Asst] = "barred"
    <3>1. A = {Asst}
      BY <2>1
    <3>. QED
      BY <2>1, <3>1, FS_Singleton DEF One
  <2>2. CASE at[Asst] # "barred"
    <3>1. A = {}
      BY <2>2
    <3>. QED
      BY <2>2, <3>1, FS_EmptySet DEF One
  <2>. QED
    BY <2>1, <2>2
<1>7. A \intersect D = {} /\ (A \union D) \intersect V = {}
  BY <1>1
<1>. HIDE DEF A, D, V, B
<1>8. IsFiniteSet(A \union D) /\ Cardinality(A \union D) = One(at[Asst] = "barred") + One(at[Doctor] = "barred")
  <2>1. Cardinality(A \intersect D) = 0
    BY <1>7, FS_EmptySet
  <2>2. Cardinality(A \union D) = Cardinality(A) + Cardinality(D) - Cardinality(A \intersect D)
    BY <1>5, <1>6, FS_Union
  <2>. QED
    BY <1>5, <1>6, <2>1, <2>2, FS_Union DEF One
<1>9. Cardinality(B) = One(at[Asst] = "barred") + One(at[Doctor] = "barred")
                        + One(\E k \in DOMAIN thr : at[k] = "barred")
  <2>1. Cardinality((A \union D) \intersect V) = 0
    BY <1>7, FS_EmptySet
  <2>2. Cardinality((A \union D) \union V)
          = Cardinality(A \union D) + Cardinality(V) - Cardinality((A \union D) \intersect V)
    BY <1>4, <1>8, FS_Union
  <2>. QED
    BY <1>3, <1>4, <1>8, <2>1, <2>2 DEF One
<1>10. Cardinality(B) = count
  BY <1>9 DEF BarrierCounts
<1>. QED
  BY <1>10 DEF B

\* The counters of visitors stay within the number of arrivals in the file.
LEMMA NumBound ==
  ASSUME IInv
  PROVE  num \in [Kinds -> 0 .. N] /\ num_visitors \in 0 .. N
<1>. USE PeopleFacts DEF IInv, Ranges
<1>1. Cardinality(Arrivals(E)) \in Nat /\ IsFiniteSet(Arrivals(E)) /\ E \in Seq(Event)
  BY ArrivalsFinite DEF QueueRange
<1>2. Counted => Cardinality(Arrivals(E)) >= 1
  <2>. SUFFICES ASSUME Counted PROVE Cardinality(Arrivals(E)) >= 1
    OBVIOUS
  <2>1. part = "arrival" /\ at[Asst] # "look"
    BY DEF Counted, Visiting, Waking, Meeting, Asleep
  <2>2. E # << >> /\ E[1] = next /\ next.type # "D"
    BY <2>1 DEF HeadKept
  <2>3. 1 \in Arrivals(E)
    BY <1>1, <2>2 DEF Arrivals
  <2>4. Cardinality(Arrivals(E)) # 0
    BY <1>1, <2>3, FS_EmptySet
  <2>. QED
    BY <1>1, <2>4
<1>3. num["R"] \in Nat /\ num["P"] \in Nat /\ num["S"] \in Nat /\ num \in [Kinds -> Nat]
  BY DEF CounterRange, Kinds
<1>4. AllNum <= N
  BY <1>1, <1>2, <1>3 DEF ArrivalsCounted, One, AllNum
<1>5. num \in [Kinds -> 0 .. N]
  <2>1. \A t \in Kinds : num[t] \in 0 .. N
    BY <1>3, <1>4 DEF AllNum, Kinds
  <2>. QED
    BY <1>3, <2>1
<1>6. num_visitors <= Len(thr) /\ Len(thr) <= N /\ Len(thr) \in Nat /\ num_visitors \in Nat
  BY ThreadFacts DEF ArrivalsCounted, One, CounterRange
<1>. QED
  BY <1>5, <1>6

\* The size of an interval of positions.
LEMMA UpTo ==
  ASSUME NEW n \in Nat
  PROVE  IsFiniteSet(1 .. n) /\ Cardinality(1 .. n) = n
<1>1. /\ IsFiniteSet(1 .. n)
      /\ Cardinality(1 .. n) = IF 1 > n THEN 0 ELSE n - 1 + 1
  <2>1. 1 \in Int /\ n \in Int
    OBVIOUS
  <2>. QED
    BY <2>1, FS_Interval, Zenon
<1>. QED
  BY <1>1

\* No more wait than threads were made.
LEMMA WaitingBound ==
  ASSUME IInv
  PROVE  waiting \in [Kinds -> 0 .. N]
<1>. USE PeopleFacts DEF IInv, Ranges
<1>1. DOMAIN thr = 1 .. Len(thr) /\ Len(thr) \in Nat /\ Len(thr) <= N
  BY ThreadFacts
<1>2. IsFiniteSet(DOMAIN thr) /\ Cardinality(DOMAIN thr) = Len(thr)
  BY <1>1, UpTo
<1>3. ASSUME NEW t \in Kinds PROVE waiting[t] \in 0 .. N
  <2>1. Outsiders(t) \subseteq DOMAIN thr
    BY DEF Outsiders
  <2>2. Cardinality(Outsiders(t)) \in Nat /\ Cardinality(Outsiders(t)) <= N
    BY <1>1, <1>2, <2>1, FS_Subset, OutsidersFinite
  <2>3. waiting[t] \in Nat
    BY DEF CounterRange
  <2>. QED
    BY <2>2, <2>3 DEF WaitingExact, One
<1>. QED
  BY <1>3 DEF CounterRange

\* TypeOK follows from the invariant.
LEMMA TypesNow == IInv => TypeOK
<1>. SUFFICES ASSUME IInv PROVE TypeOK
  OBVIOUS
<1>1. E \in Seq(Event)
  BY DEF IInv, Ranges, QueueRange
<1>2. /\ doc_arrived \in {0, 1, 2} /\ after \in {"admit", "call"}
      /\ part \in {"arrival", "queue", "final"} /\ doc_session_done \in BOOLEAN
      /\ asst_done \in BOOLEAN /\ doc_done \in BOOLEAN /\ called \in [Kinds -> BOOLEAN]
  BY DEF IInv, Ranges, FlagRange
<1>3. num \in [Kinds -> 0 .. N] /\ waiting \in [Kinds -> 0 .. N] /\ num_visitors \in 0 .. N
  BY NumBound, WaitingBound
<1>4. served["P"] \in 0 .. MAX_PATIENTS + 1 /\ served["S"] \in 0 .. MAX_SALESREPS + 1
  <2>1. served["P"] \in Nat /\ served["S"] \in Nat
    BY DEF IInv, Ranges, CounterRange
  <2>. QED
    BY <2>1, QuotaFacts DEF IInv, QuotasKept
<1>5. current_time \in Nat /\ done_time \in Nat
  BY DEF IInv, Ranges, CounterRange
<1>6. Len(thr) <= N
  BY DEF IInv, Ranges, ThreadRange
<1>7. /\ at[Asst] \in AsstPlaces /\ at[Doctor] \in DoctorPlaces
      /\ \A k \in Visitors : at[k] \in VisitorPlaces /\ (at[k] = "unborn" <=> k > Len(thr))
  BY DEF IInv, Places
<1>8. count = Cardinality({x \in People : at[x] = "barred"}) /\ count < 3
  BY BarredCount DEF IInv, BarrierCounts
<1>. QED
  BY <1>1, <1>2, <1>3, <1>4, <1>5, <1>6, <1>7, <1>8, Zenon DEF TypeOK

\* A visitor who is in is where he is because he went there: no other step of
\* anybody moves a visitor from "ask" to "inside".
LEMMA OnlyGoingIn ==
  ASSUME IInv, [Next]_vars, NEW k \in DOMAIN thr, at[k] = "ask", at'[k] = "inside"
  PROVE  VisitorGoesIn(k)
<1>. USE PeopleFacts DEF IInv, Ranges
<1>1. /\ DOMAIN thr = 1 .. Len(thr) /\ Len(thr) \in Nat
      /\ \A j \in DOMAIN thr : j \in 1 .. N /\ j \in People /\ j # Asst /\ j # Doctor
  BY ThreadFacts
<1>2. at \in [People -> AsstPlaces \union DoctorPlaces \union VisitorPlaces]
  BY DEF Places
<1>3. ASSUME NEW x \in People \ {k}, NEW to, at' = [at EXCEPT ![x] = to]
      PROVE  FALSE
  BY <1>1, <1>2, <1>3
<1>4. ASSUME NEW x, Meet(x) PROVE FALSE
  <2>1. x # k
    BY <1>4 DEF Meet
  <2>2. at'[k] = at[k]
    BY <1>1, <1>2, <1>4, <2>1 DEF Meet, Goto
  <2>. QED
    BY <2>2
<1>5. ASSUME NEW to, WakeDoctor(to) PROVE FALSE
  <2>1. at'[k] = at[k]
    BY <1>1, <1>2, <1>5 DEF WakeDoctor
  <2>. QED
    BY <2>1
<1>6. ASSUME AsstSteps PROVE FALSE
  <2>1. CASE Look \/ LookLast \/ Join \/ DropDone \/ Postpone \/ Refuse \/ Test \/ Doze \/ Note \/ EndTurn \/ Idle
    <3>1. \E to : at' = [at EXCEPT ![Asst] = to]
      BY <2>1 DEF Look, LookLast, Join, DropDone, Postpone, Refuse, Test, Doze, Note, EndTurn, Idle, NextEvent, Goto
    <3>. QED
      BY <1>1, <1>3, <3>1
  <2>2. CASE Admit \/ AttendNoMore
    <3>1. \E to : at' = [at EXCEPT ![Asst] = to]
      BY <2>2 DEF Admit, AttendNoMore, NextEvent, Goto
    <3>. QED
      BY <1>1, <1>3, <3>1
  <2>3. CASE Dismiss \/ Attend
    BY <1>5, <2>3 DEF Dismiss, Attend
  <2>4. CASE Meet(Asst)
    BY <1>4, <2>4
  <2>5. CASE Create
    <3>1. at' = [at EXCEPT ![Asst] = "test", ![Len(thr) + 1] = "new"] /\ k # Len(thr) + 1
      BY <1>1, <2>5 DEF Create
    <3>. QED
      BY <1>1, <1>2, <3>1
  <2>6. CASE Call
    <3>1. \/ at' = [at EXCEPT ![Asst] = "barrier"]
          \/ \E j \in DOMAIN thr : at[j] = "asleep" /\ at' = [at EXCEPT ![Asst] = "barrier", ![j] = "awake"]
      BY <2>6 DEF Call, Goto
    <3>. QED
      BY <1>1, <1>2, <3>1
  <2>. QED
    BY <1>6, <2>1, <2>2, <2>3, <2>4, <2>5, <2>6 DEF AsstSteps
<1>7. ASSUME NEW x \in {Doctor} \union DOMAIN thr, NEW to \in {"barrier", "ask"}, Ring(x, to) PROVE FALSE
  <2>1. at' = [at EXCEPT ![x] = to, ![Asst] = IF @ = "asleep" THEN "test" ELSE @]
    BY <1>7 DEF Ring
  <2>2. x \in People /\ k \in People /\ k # Asst
    BY <1>1
  <2>3. at'[k] = at[k] \/ at'[k] = to
    BY <1>2, <2>1, <2>2
  <2>. QED
    BY <2>3
<1>8. ASSUME DoctorSteps PROVE FALSE
  <2>1. CASE DoctorTests \/ DoctorGoesOn \/ DoctorLeaves \/ Tell(Doctor)
    <3>1. \E to : at' = [at EXCEPT ![Doctor] = to]
      BY <2>1 DEF DoctorTests, DoctorGoesOn, DoctorLeaves, Tell, Goto
    <3>. QED
      BY <1>1, <1>3, <3>1
  <2>. QED
    BY <1>4, <1>7, <1>8, <2>1 DEF DoctorSteps
<1>9. ASSUME NEW j \in DOMAIN thr, VisitorSteps(j) PROVE VisitorGoesIn(k)
  <2>1. CASE VisitorReads(j) \/ VisitorLocks(j) \/ VisitorSleeps(j) \/ VisitorWakes(j) \/ Tell(j) \/ VisitorTalks(j)
    <3>1. \E to \in {"lock", "tell", "asleep", "ask", "ring", "barrier"} : at' = [at EXCEPT ![j] = to]
      BY <2>1 DEF VisitorReads, VisitorLocks, VisitorSleeps, VisitorWakes, Tell, VisitorTalks, Goto
    <3>2. at'[k] = at[k] \/ at'[k] # "inside"
      BY <1>1, <1>2, <3>1
    <3>. QED
      BY <3>2
  <2>2. CASE VisitorGoesIn(j)
    <3>1. j = k
      BY <1>1, <1>3, <2>2 DEF VisitorGoesIn, Goto
    <3>. QED
      BY <2>2, <3>1
  <2>3. CASE Ring(j, "ask")
    BY <1>7, <2>3
  <2>4. CASE Meet(j)
    BY <1>4, <2>4
  <2>. QED
    BY <1>9, <2>1, <2>2, <2>3, <2>4 DEF VisitorSteps
<1>10. at' # at
  OBVIOUS
<1>. QED
  BY <1>6, <1>8, <1>9, <1>10 DEF Next, vars

\* Who goes in has been called, and was called before those of lower priority.
LEMMA GoesInInTurn ==
  ASSUME IInv, NEW k \in DOMAIN thr, VisitorGoesIn(k)
  PROVE  /\ \A j \in DOMAIN thr : Rank[thr[j].type] < Rank[thr[k].type] => at[j] \notin Outside
         /\ current_time >= thr[k].came
<1>. USE DEF IInv, Ranges
<1>1. called[thr[k].type] /\ \A j \in DOMAIN thr : thr[j].type \in Kinds /\ thr[j].came \in Int
  BY ThreadFacts DEF VisitorGoesIn
<1>2. Meeting /\ ~Fresh /\ \A s \in Kinds : called[s] => s = thr[k].type
  BY <1>1 DEF VisitorsFollow, Meeting, Fresh, Asleep
<1>3. ASSUME NEW j \in DOMAIN thr, Rank[thr[j].type] < Rank[thr[k].type]
      PROVE  at[j] \notin Outside
  <2>1. waiting[thr[j].type] = 0
    BY <1>1, <1>3 DEF RankKept
  <2>2. Rank[thr[j].type] \in Int /\ Rank[thr[k].type] \in Int
    BY <1>1 DEF Rank, Kinds
  <2>3. thr[j].type # thr[k].type
    <3>. SUFFICES ASSUME thr[j].type = thr[k].type PROVE FALSE
      OBVIOUS
    <3>1. Rank[thr[j].type] = Rank[thr[k].type]
      OBVIOUS
    <3>. QED
      BY <1>3, <2>2, <3>1
  <2>4. Outsiders(thr[j].type) = {}
    BY <1>1, <1>2, <2>1, <2>3, NobodyOutside
  <2>. QED
    BY <2>4 DEF Outsiders
<1>4. current_time >= thr[k].came
  <2>1. thr[k].came <= current_time /\ current_time \in Nat
    BY DEF InfoRight, CounterRange
  <2>. QED
    BY <1>1, <2>1
<1>. QED
  BY <1>3, <1>4

\* Every variable of session.c keeps its range: the counters stay within the number
\* of arrivals and the quotas, and the barrier's count is the number of waiters.
THEOREM TypesAlways == Spec => []TypeOK
BY Invariance, TypesNow, PTL

\* The clock and visitor_infos, which session.c protects by no mutex, have one user
\* at a time, and a new thread finds the duration of its own event.
THEOREM UnlockedDataSafeAlways == Spec => []UnlockedDataSafe
BY Invariance, UnlockedNow, PTL

\* When the doctor's thread has ended, all visitors have met him and the assistant
\* needs him no more.
THEOREM DismissedForGoodAlways == Spec => []DismissedForGood
BY Invariance, DismissedNow, PTL

\* The clock is not set forward past a visitor who is outside, and at the end every
\* arrival has been dealt with and everybody admitted has met the doctor.
THEOREM NobodyForgottenAlways == Spec => []NobodyForgotten
BY Invariance, NobodyForgottenNow, PTL

\* A visitor goes in only when nobody of a higher priority is outside, and not before
\* his time.
THEOREM InTurnAlways == Spec => InTurn
<1>. DEFINE Turn == \A k \in DOMAIN thr : at[k] = "ask" /\ at'[k] = "inside" =>
       /\ \A j \in DOMAIN thr : Rank[thr[j].type] < Rank[thr[k].type] => at[j] \notin Outside
       /\ current_time >= thr[k].came
<1>1. IInv /\ [Next]_vars => [Turn]_vars
  BY OnlyGoingIn, GoesInInTurn
<1>. QED
  BY <1>1, Invariance, PTL DEF Spec, InTurn

----------------------------------------------------------------------------
(* The heap as a bag of events.                                             *)

\* Where an event is in the queue.
PlacesOf(Q, x) == {i \in DOMAIN Q : Q[i] = x}

\* The places of an event are finitely many, and none if it is not in the queue.
LEMMA PlacesCounted ==
  ASSUME NEW Q \in Seq(Event), NEW x
  PROVE  /\ IsFiniteSet(PlacesOf(Q, x)) /\ Cardinality(PlacesOf(Q, x)) \in Nat
         /\ x \in Range(Q) <=> Cardinality(PlacesOf(Q, x)) # 0
<1>1. Len(Q) \in Nat /\ DOMAIN Q = 1 .. Len(Q)
  OBVIOUS
<1>2. IsFiniteSet(1 .. Len(Q))
  BY <1>1, FS_Interval
<1>3. PlacesOf(Q, x) \subseteq 1 .. Len(Q)
  BY <1>1 DEF PlacesOf
<1>4. IsFiniteSet(PlacesOf(Q, x)) /\ Cardinality(PlacesOf(Q, x)) \in Nat
  BY <1>2, <1>3, FS_Subset, FS_CardinalityType
<1>5. x \in Range(Q) <=> PlacesOf(Q, x) # {}
  BY DEF Range, PlacesOf
<1>. QED
  BY <1>4, <1>5, FS_EmptySet

\* The bag of a queue counts the places of each of its events.
LEMMA BagCounts ==
  ASSUME NEW Q
  PROVE  /\ ToBag(Q) = [x \in Range(Q) |-> Cardinality(PlacesOf(Q, x))]
         /\ Bag!ToBag(Q) = ToBag(Q)
<1>1. ToBag(Q) = [x \in Range(Q) |-> Cardinality(PlacesOf(Q, x))]
  BY DEF ToBag, PlacesOf
<1>2. \A S : Bag!Cardinality(S) = Cardinality(S)
  BY Zenon DEF Cardinality, Bag!Cardinality
<1>3. Bag!ToBag(Q) = ToBag(Q)
  BY <1>2, Zenon DEF ToBag, Bag!ToBag, Range, Bag!Range
<1>. QED
  BY <1>1, <1>3

\* A rearrangement is the same bag.
LEMMA SameBag ==
  ASSUME NEW Q \in Seq(Event), NEW R, Rearranges(R, Q)
  PROVE  ToBag(R) = ToBag(Q)
<1>. DEFINE D == 1 .. Len(Q)
<1>1. R \in Seq(Event) /\ DOMAIN R = D /\ DOMAIN Q = D
  BY DEF Rearranges
<1>2. PICK p \in Bijection(D, D) : \A i \in D : R[i] = Q[p[i]]
  BY DEF Rearranges
<1>. HIDE DEF D
<1>3. /\ p \in [D -> D]
      /\ \A i, j \in D : p[i] = p[j] => i = j
      /\ \A k \in D : \E i \in D : p[i] = k
  BY <1>2 DEF Bijection, Injection, Surjection, IsInjective
<1>4. ASSUME NEW x PROVE Cardinality(PlacesOf(R, x)) = Cardinality(PlacesOf(Q, x))
  <2>. DEFINE A == PlacesOf(R, x)
              B == PlacesOf(Q, x)
              q == [i \in A |-> p[i]]
  <2>1. q \in [A -> B]
    BY <1>1, <1>2, <1>3 DEF PlacesOf
  <2>2. \A i, j \in A : q[i] = q[j] => i = j
    BY <1>1, <1>3 DEF PlacesOf
  <2>3. \A k \in B : \E i \in A : q[i] = k
    <3>. SUFFICES ASSUME NEW k \in B PROVE \E i \in A : q[i] = k
      OBVIOUS
    <3>1. PICK i \in D : p[i] = k
      BY <1>1, <1>3 DEF PlacesOf
    <3>2. i \in A
      BY <1>1, <1>2, <3>1 DEF PlacesOf
    <3>. QED
      BY <3>1, <3>2
  <2>4. IsFiniteSet(A)
    BY <1>1, PlacesCounted
  <2>. HIDE DEF A, B, q
  <2>5. Cardinality(B) = Cardinality(A)
    BY <2>1, <2>2, <2>3, <2>4, MatchedArrivals
  <2>. QED
    BY <2>5 DEF A, B
<1>5. Range(R) = Range(Q)
  BY <1>1, <1>2, <1>3 DEF Range
<1>6. [x \in Range(R) |-> Cardinality(PlacesOf(R, x))] = [x \in Range(Q) |-> Cardinality(PlacesOf(Q, x))]
  BY <1>4, <1>5
<1>. QED
  BY <1>6, BagCounts

\* An event at the end of the queue is one more in the bag.
LEMMA BagOfAppend ==
  ASSUME NEW Q \in Seq(Event), NEW e \in Event
  PROVE  ToBag(Append(Q, e)) = Bag!BagAdd(ToBag(Q), e)
<1>. DEFINE n == Len(Q) + 1
            A == Append(Q, e)
            B == ToBag(Q)
<1>1. /\ n \in Nat /\ n \notin DOMAIN Q /\ A \in Seq(Event) /\ DOMAIN A = DOMAIN Q \union {n}
      /\ A[n] = e /\ \A i \in DOMAIN Q : A[i] = Q[i]
  OBVIOUS
<1>. HIDE DEF n, A
<1>2. PlacesOf(A, e) = PlacesOf(Q, e) \union {n} /\ n \notin PlacesOf(Q, e)
  BY <1>1 DEF PlacesOf
<1>3. Cardinality(PlacesOf(A, e)) = Cardinality(PlacesOf(Q, e)) + 1
  BY <1>2, PlacesCounted, FS_AddElement
<1>4. \A x : x # e => PlacesOf(A, x) = PlacesOf(Q, x)
  BY <1>1 DEF PlacesOf
<1>5. Range(A) = Range(Q) \union {e}
  BY <1>1 DEF Range
<1>6. DOMAIN B = Range(Q) /\ \A x \in Range(Q) : B[x] = Cardinality(PlacesOf(Q, x))
  BY BagCounts
<1>7. ToBag(A) = [x \in Range(A) |-> Cardinality(PlacesOf(A, x))]
  BY BagCounts
<1>. HIDE DEF B
<1>8. CASE e \in Range(Q)
  <2>1. [x \in Range(A) |-> Cardinality(PlacesOf(A, x))] = [x \in DOMAIN B |-> IF x = e THEN B[x] + 1 ELSE B[x]]
    BY <1>3, <1>4, <1>5, <1>6, <1>8
  <2>. QED
    BY <1>6, <1>7, <1>8, <2>1 DEF Bag!BagAdd, A, B
<1>9. CASE e \notin Range(Q)
  <2>1. Cardinality(PlacesOf(A, e)) = 1
    BY <1>3, <1>9, PlacesCounted
  <2>2. [x \in Range(A) |-> Cardinality(PlacesOf(A, x))] = [x \in DOMAIN B \union {e} |-> IF x = e THEN 1 ELSE B[x]]
    BY <1>4, <1>5, <1>6, <1>9, <2>1
  <2>. QED
    BY <1>6, <1>7, <1>9, <2>2 DEF Bag!BagAdd, A, B
<1>. QED
  BY <1>8, <1>9

\* Without its first event the queue is one event less in the bag.
LEMMA BagOfSunk ==
  ASSUME NEW Q \in Seq(Event), Q # << >>
  PROVE  ToBag(Sunk(Q)) = Bag!BagRemove(ToBag(Q), Q[1])
<1>. DEFINE n == Len(Q)
            T == Sunk(Q)
            e == Q[1]
            B == ToBag(Q)
<1>1. /\ T \in Seq(Event) /\ n \in Nat \ {0} /\ DOMAIN T = 1 .. n - 1 /\ DOMAIN Q = 1 .. n
      /\ \A i \in 1 .. n - 1 : T[i] = IF i = 1 THEN Q[n] ELSE Q[i]
  <2>1. /\ T \in Seq(Event) /\ Len(T) = n - 1 /\ n \in Nat \ {0}
        /\ \A i \in 1 .. n - 1 : T[i] = IF i = 1 THEN Q[n] ELSE Q[i]
    BY SunkFacts
  <2>. HIDE DEF T
  <2>2. DOMAIN T = 1 .. Len(T) /\ DOMAIN Q = 1 .. n
    BY <2>1
  <2>. QED
    BY <2>1, <2>2
<1>. HIDE DEF n, T
<1>2. ASSUME NEW x PROVE Cardinality(PlacesOf(Q, x) \ {1}) = Cardinality(PlacesOf(T, x))
  <2>. DEFINE C == PlacesOf(T, x)
              F == PlacesOf(Q, x) \ {1}
              p == [i \in C |-> IF i = 1 THEN n ELSE i]
  <2>1. p \in [C -> F]
    BY <1>1 DEF PlacesOf
  <2>2. \A i, j \in C : p[i] = p[j] => i = j
    BY <1>1 DEF PlacesOf
  <2>3. \A k \in F : \E i \in C : p[i] = k
    <3>. SUFFICES ASSUME NEW k \in F PROVE \E i \in C : p[i] = k
      OBVIOUS
    <3>1. k \in 2 .. n /\ Q[k] = x
      BY <1>1 DEF PlacesOf
    <3>2. CASE k = n
      <4>1. 1 \in C /\ p[1] = n
        BY <1>1, <3>1, <3>2 DEF PlacesOf
      <4>. QED
        BY <3>2, <4>1
    <3>3. CASE k # n
      <4>1. k \in C /\ p[k] = k
        BY <1>1, <3>1, <3>3 DEF PlacesOf
      <4>. QED
        BY <4>1
    <3>. QED
      BY <3>2, <3>3
  <2>4. IsFiniteSet(C)
    BY <1>1, PlacesCounted
  <2>. HIDE DEF C, F, p
  <2>5. Cardinality(F) = Cardinality(C)
    BY <2>1, <2>2, <2>3, <2>4, MatchedArrivals
  <2>. QED
    BY <2>5 DEF C, F
<1>3. 1 \in PlacesOf(Q, e) /\ \A x : x # e => PlacesOf(Q, x) \ {1} = PlacesOf(Q, x)
  BY <1>1 DEF PlacesOf
<1>4. Cardinality(PlacesOf(T, e)) = Cardinality(PlacesOf(Q, e)) - 1
  <2>1. IsFiniteSet(PlacesOf(Q, e))
    BY PlacesCounted
  <2>2. Cardinality(PlacesOf(Q, e) \ {1}) = Cardinality(PlacesOf(Q, e)) - 1
    BY <1>3, <2>1, FS_RemoveElement
  <2>. QED
    BY <1>2, <2>2
<1>5. \A x : x # e => Cardinality(PlacesOf(T, x)) = Cardinality(PlacesOf(Q, x))
  BY <1>2, <1>3
<1>6. e \in Range(Q)
  BY <1>1 DEF Range
<1>7. \A x : x # e => (x \in Range(T) <=> x \in Range(Q))
  BY <1>1, <1>5, PlacesCounted
<1>8. e \in Range(T) <=> Cardinality(PlacesOf(Q, e)) # 1
  BY <1>1, <1>4, PlacesCounted
<1>9. DOMAIN B = Range(Q) /\ \A x \in Range(Q) : B[x] = Cardinality(PlacesOf(Q, x))
  BY BagCounts
<1>10. ToBag(T) = [x \in Range(T) |-> Cardinality(PlacesOf(T, x))]
  BY BagCounts
<1>. HIDE DEF B, e
<1>11. CASE B[e] = 1
  <2>1. Range(T) = DOMAIN B \ {e}
    BY <1>6, <1>7, <1>8, <1>9, <1>11
  <2>2. [x \in Range(T) |-> Cardinality(PlacesOf(T, x))] = [x \in DOMAIN B \ {e} |-> B[x]]
    BY <1>5, <1>9, <2>1
  <2>3. Bag!BagRemove(B, e) = [x \in DOMAIN B \ {e} |-> B[x]]
    BY <1>6, <1>9, <1>11 DEF Bag!BagRemove
  <2>. QED
    BY <1>10, <2>2, <2>3 DEF B, T, e
<1>12. CASE B[e] # 1
  <2>1. Range(T) = DOMAIN B
    BY <1>6, <1>7, <1>8, <1>9, <1>12
  <2>2. [x \in Range(T) |-> Cardinality(PlacesOf(T, x))] = [x \in DOMAIN B |-> IF x = e THEN B[x] - 1 ELSE B[x]]
    BY <1>4, <1>5, <1>6, <1>9, <2>1
  <2>3. Bag!BagRemove(B, e) = [x \in DOMAIN B |-> IF x = e THEN B[x] - 1 ELSE B[x]]
    BY <1>6, <1>9, <1>12 DEF Bag!BagRemove
  <2>. QED
    BY <1>10, <2>2, <2>3 DEF B, T, e
<1>. QED
  BY <1>11, <1>12

HeapOrdered == Ordered(E)

\* The end of a visit at the time t.
VisitOver(t) == [type |-> "D", time |-> t, duration |-> 0]

\* What a step may do to the queue and to the event she deals with: look at the
\* head, delete the head she has looked at, or add the end of a visit.
QueueSteps ==
  \/ UNCHANGED queue
  \/ E # << >> /\ next' = E[1] /\ E' = E
  \/ E # << >> /\ E[1] = next /\ E' = delevent(E) /\ next' = next
  \/ \E t \in Nat : E' = addevent(E, VisitOver(t)) /\ next' = next

\* She deletes the head she has looked at.
LEMMA HeadDeleted ==
  ASSUME IInv, NextEvent, at[Asst] # "look", part = "arrival"
  PROVE  QueueSteps
BY DEF IInv, HeadKept, NextEvent, QueueSteps

\* The session does no more to the queue than that.
LEMMA OnlyQueueSteps == IInv /\ [Next]_vars => QueueSteps
<1>. SUFFICES ASSUME IInv, [Next]_vars PROVE QueueSteps
  OBVIOUS
<1>1. CASE UNCHANGED vars
  BY <1>1 DEF vars, QueueSteps
<1>2. CASE DoctorSteps
  BY <1>2 DEF DoctorSteps, DoctorTests, DoctorGoesOn, DoctorLeaves, Tell, Ring, Meet, QueueSteps
<1>3. ASSUME NEW k \in DOMAIN thr, VisitorSteps(k) PROVE QueueSteps
  BY <1>3 DEF VisitorSteps, VisitorReads, VisitorLocks, VisitorSleeps, VisitorWakes, VisitorGoesIn,
       VisitorTalks, Tell, Ring, Meet, QueueSteps
<1>4. CASE AsstSteps
  <2>1. CASE Look
    BY <2>1 DEF Look, emptyQ, nextevent, QueueSteps
  <2>2. CASE LookLast \/ Dismiss \/ Join \/ Postpone \/ Create \/ Test \/ Doze
    BY <2>2 DEF LookLast, Dismiss, Join, Postpone, Create, Test, Doze, QueueSteps
  <2>3. CASE Attend \/ AttendNoMore \/ Call \/ Meet(Asst) \/ Idle
    BY <2>3 DEF Attend, AttendNoMore, Call, Meet, Idle, QueueSteps
  <2>4. CASE DropDone \/ Refuse \/ EndTurn
    <3>1. NextEvent /\ at[Asst] \in {"deal", "turn"}
      BY <2>4 DEF DropDone, Refuse, Arrives, EndTurn
    <3>. QED
      BY <3>1, HeadDeleted DEF IInv, PartsKnown
  <2>5. CASE Admit
    <3>1. at[Asst] = "admit" /\ (NextEvent \/ UNCHANGED queue)
      BY <2>5 DEF Admit
    <3>2. Fresh
      BY <3>1 DEF IInv, DoctorFollows, Fresh, Asleep, Waking, Meeting, Visiting, Counted
    <3>. QED
      BY <3>1, <3>2, HeadDeleted DEF IInv, PartsKnown, QueueSteps
  <2>6. CASE Note
    <3>1. E' = addevent(E, VisitOver(current_time)) /\ next' = next
      BY <2>6 DEF Note, VisitOver
    <3>2. current_time \in Nat
      BY DEF IInv, Ranges, CounterRange
    <3>. QED
      BY <3>1, <3>2 DEF QueueSteps
  <2>. QED
    BY <1>4, <2>1, <2>2, <2>3, <2>4, <2>5, <2>6 DEF AsstSteps
<1>. QED
  BY <1>1, <1>2, <1>3, <1>4 DEF Next

\* The end of a visit is an event.
LEMMA VisitOverIsEvent == \A t \in Nat : VisitOver(t) \in Event
BY DEF VisitOver, Event, Types

\* The queue starts in the order of a heap.
LEMMA InitHeapOrdered == Init => HeapOrdered
<1>. SUFFICES ASSUME Init PROVE HeapOrdered
  OBVIOUS
<1>1. PICK file \in Files : E = initEQ(file)
  BY DEF Init
<1>2. file \in Seq(Event)
  BY SessionAssumption
<1>. QED
  BY <1>1, <1>2, InitEQMakesHeap DEF HeapOrdered

\* Every step keeps the order.
LEMMA NextHeapOrdered == IInv /\ HeapOrdered /\ [Next]_vars => HeapOrdered'
<1>. SUFFICES ASSUME IInv, HeapOrdered, [Next]_vars PROVE HeapOrdered'
  OBVIOUS
<1>1. E \in Seq(Event) /\ QueueSteps
  BY OnlyQueueSteps DEF IInv, Ranges, QueueRange
<1>2. CASE E' = E
  BY <1>2 DEF HeapOrdered, Ordered, OrderedFrom
<1>3. CASE E # << >> /\ E' = delevent(E)
  BY <1>1, <1>3, DelOrdered DEF HeapOrdered, Ordered, OrderedFrom
<1>4. CASE \E t \in Nat : E' = addevent(E, VisitOver(t))
  BY <1>1, <1>4, AddOrdered, VisitOverIsEvent DEF HeapOrdered, Ordered, OrderedFrom
<1>. QED
  BY <1>1, <1>2, <1>3, <1>4 DEF QueueSteps, queue

\* In every state of the session each event of the heap comes before its children.
THEOREM HeapOrderedAlways == Spec => []HeapOrdered
BY InitHeapOrdered, NextHeapOrdered, Invariance, PTL DEF Spec

\* The head of a queue in order is a least event of the bag.
LEMMA HeadLeast ==
  ASSUME E \in Seq(Event), E # << >>, HeapOrdered
  PROVE  E[1] \in Bag!Least(ToBag(E))
<1>1. Len(E) \in Nat \ {0} /\ DOMAIN E = 1 .. Len(E)
  OBVIOUS
<1>2. DOMAIN ToBag(E) = {E[i] : i \in 1 .. Len(E)}
  BY <1>1 DEF ToBag, Range
<1>3. E[1] \in DOMAIN ToBag(E)
  BY <1>1, <1>2
<1>4. \A f \in DOMAIN ToBag(E) : Bag!NotAfter(E[1], f)
  BY <1>2, RootLeast DEF HeapOrdered
<1>. QED
  BY <1>3, <1>4 DEF Bag!Least

\* The session starts with a bag of events and a least one of them.
LEMMA InitBag == Init => Bag!Init
<1>. SUFFICES ASSUME Init PROVE Bag!Init
  OBVIOUS
<1>1. PICK file \in Files : E = initEQ(file)
  BY DEF Init
<1>2. file \in Seq(Event) /\ Rearranges(E, file)
  BY <1>1, SessionAssumption, InitEQMakesHeap
<1>3. ToBag(E) = Bag!ToBag(file)
  BY <1>2, SameBag, BagCounts
<1>4. E \in Seq(Event)
  BY <1>2 DEF Rearranges
<1>5. E # << >> => next \in Bag!Least(ToBag(E))
  BY <1>4, InitHeapOrdered, HeadLeast DEF Init, nextevent, emptyQ
<1>6. E = << >> => ToBag(E) = Bag!EmptyBag
  <2>. SUFFICES ASSUME E = << >> PROVE ToBag(E) = Bag!EmptyBag
    OBVIOUS
  <2>1. Range(E) = {}
    BY DEF Range
  <2>. QED
    BY <2>1 DEF ToBag, Bag!EmptyBag, Bag!SetToBag
<1>. QED
  BY <1>3, <1>5, <1>6 DEF Bag!Init

\* Every step is one that the bag allows, or does not touch it.
LEMMA StepBag ==
  IInv /\ HeapOrdered /\ [Next]_vars => [Bag!Next]_<<ToBag(E), next>>
<1>. SUFFICES ASSUME IInv, HeapOrdered, [Next]_vars PROVE [Bag!Next]_<<ToBag(E), next>>
  OBVIOUS
<1>1. E \in Seq(Event) /\ QueueSteps
  BY OnlyQueueSteps DEF IInv, Ranges, QueueRange
<1>2. CASE UNCHANGED queue
  BY <1>2 DEF queue
<1>3. CASE E # << >> /\ next' = E[1] /\ E' = E
  BY <1>1, <1>3, HeadLeast DEF Bag!Next, Bag!Peek
<1>4. CASE E # << >> /\ E[1] = next /\ E' = delevent(E) /\ next' = next
  <2>1. Rearranges(E', Sunk(E)) /\ Sunk(E) \in Seq(Event)
    BY <1>1, <1>4, DelOrdered, SunkFacts DEF HeapOrdered
  <2>2. ToBag(E') = Bag!BagRemove(ToBag(E), next)
    BY <1>1, <1>4, <2>1, SameBag, BagOfSunk
  <2>3. next \in Bag!Least(ToBag(E))
    BY <1>1, <1>4, HeadLeast
  <2>. QED
    BY <1>4, <2>2, <2>3 DEF Bag!Next, Bag!Take
<1>5. ASSUME NEW t \in Nat, E' = addevent(E, VisitOver(t)), next' = next
      PROVE  [Bag!Next]_<<ToBag(E), next>>
  <2>. DEFINE e == VisitOver(t)
  <2>1. e \in Event /\ e \in [type : {"D"}, time : Nat, duration : {0}]
    BY VisitOverIsEvent DEF VisitOver
  <2>2. Rearranges(E', Append(E, e)) /\ Append(E, e) \in Seq(Event)
    BY <1>1, <1>5, <2>1, AddOrdered DEF HeapOrdered
  <2>3. ToBag(E') = Bag!BagAdd(ToBag(E), e)
    BY <1>1, <2>1, <2>2, SameBag, BagOfAppend
  <2>4. Bag!Add(e)
    BY <1>5, <2>1, <2>3 DEF Bag!Add
  <2>5. e \in DOMAIN ToBag(E')
    BY <2>3 DEF Bag!BagAdd
  <2>. QED
    BY <2>4, <2>5 DEF Bag!Next
<1>. QED
  BY <1>1, <1>2, <1>3, <1>4, <1>5 DEF QueueSteps

\* The heap of event.c is a priority queue to session.c: the assistant deals with a
\* least event, and delevent removes just that one, whatever was added meanwhile.
THEOREM QueueRefinement == Spec => QueueSpec
BY InitBag, StepBag, Invariance, HeapOrderedAlways, PTL DEF Spec, QueueSpec, Bag!Spec
=============================================================================
