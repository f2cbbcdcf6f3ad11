----------------------------- MODULE EventQueue ----------------------------
(***************************************************************************)
(* A6/event.c: the binary heap of events.  A queue is the sequence of the  *)
(* first E.n entries of E.Q; positions count from 1, so the children of i  *)
(* are 2i and 2i+1, where the code counts from 0.                          *)
(***************************************************************************)
EXTENDS Integers, Sequences

Types == {"R", "P", "S", "D"}     \* reporter, patient, sales rep., doctor done
Rank == [R |-> 1, P |-> 2, S |-> 3, D |-> 4]

Event == [type : Types, time : Int, duration : Nat]

\* eventcmp(e1, e2) < 0.  It is true both ways round of two alike visitors.
Precedes(e1, e2) ==
  \/ e1.time < e2.time
  \/ /\ e1.time = e2.time
     /\ e1.type # "D"
     /\ Rank[e1.type] <= Rank[e2.type]

emptyQ(Q) == Q = << >>

nextevent(Q) == IF emptyQ(Q) THEN [type |-> "E", time |-> 0, duration |-> 0] ELSE Q[1]

Swap(Q, i, j) == [Q EXCEPT ![i] = Q[j], ![j] = Q[i]]

\* Wrong variant of LesserChild: the right child is never looked at.
LeftChild(Q, i) == 2 * i

LesserChild(Q, i) ==
  IF 2 * i = Len(Q) \/ Precedes(Q[2 * i], Q[2 * i + 1]) THEN 2 * i ELSE 2 * i + 1

\* In s = <<Q, i>> the event at position i goes down, or up, until it rests (as
\* it would at a position outside of the queue, which does not occur).
SiftDown[s \in Seq(Event) \X Nat] ==
  LET Q == s[1]
      i == s[2]
      m == LesserChild(Q, i)
  IN  IF 2 * i \notin 2 .. Len(Q) \/ Precedes(Q[i], Q[m]) THEN Q
      ELSE SiftDown[<<Swap(Q, i, m), m>>]

SiftUp[s \in Seq(Event) \X Nat] ==
  LET Q == s[1]
      i == s[2]
      p == i \div 2
  IN  IF i \notin 2 .. Len(Q) \/ Precedes(Q[p], Q[i]) THEN Q
      ELSE SiftUp[<<Swap(Q, i, p), p>>]

\* The queue made of the lines of the file, from the last inner node back.
initEQ(file) ==
  LET Heapify[i \in Nat] == IF i > Len(file) \div 2 THEN file ELSE SiftDown[<<Heapify[i + 1], i>>]
  IN  Heapify[1]

addevent(Q, e) == SiftUp[<<Append(Q, e), Len(Q) + 1>>]

delevent(Q) ==
  IF emptyQ(Q) THEN Q
  ELSE SiftDown[<<SubSeq([Q EXCEPT ![1] = Q[Len(Q)]], 1, Len(Q) - 1), 1>>]
=============================================================================
