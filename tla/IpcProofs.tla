------------------------------ MODULE IpcProofs -----------------------------
(* Proofs about the three programs whose processes meet in pipes (Shells),  *)
(* in shared integers (ProdCons), and in shared memory and semaphores       *)
(* (TopoSort).                                                              *)
EXTENDS Shells, ProdCons, TopoSort, SequenceTheorems, FiniteSetTheorems, TLAPS

----------------------------------------------------------------------------
(* A3: the keyboard and the order of commands, for any commands and any     *)
(* number of them.                                                          *)

LEMMA TwoWindows ==
  /\ \A x \in Windows : Other(x) \in Windows /\ Other(x) # x /\ Other(Other(x)) = x
  /\ \A x, y \in Windows : y = x \/ y = Other(x)
BY DEF Windows, Other

LEMMA InitInv == Init => IInv
<1>. SUFFICES ASSUME Init PROVE IInv
  OBVIOUS
<1>. USE CommandsAssumption DEF Init
<1>1. TypeOK
  BY DEF TypeOK
<1>2. OneWay /\ Complete /\ Paced
  BY TwoWindows DEF OneWay, Complete, Paced, Windows
<1>3. KeyboardAlone
  BY TwoWindows DEF KeyboardAlone, AtKeyboard, HasSwap, Windows, Other
<1>. QED
  BY <1>1, <1>2, <1>3 DEF IInv

\* Typing: the text joins those that go the same way; after a swaprole nobody
\* is at a keyboard.
LEMMA TypeInv == IInv => \A x \in Windows : Type(x) => IInv'
<1>. SUFFICES ASSUME IInv, NEW x \in Windows, Type(x) PROVE IInv'
  OBVIOUS
<1>0. TypeOK /\ Paced
  BY DEF IInv
<1>1. PICK c \in Commands :
        /\ typed' = Append(typed, c)
        /\ pipe' = [pipe EXCEPT ![x] = Append(@, c)]
        /\ \/ c = "exit" /\ End(x)
           \/ c = "swaprole" /\ Becomes(x, "execute")
           \/ c \in Programs \union Unknown /\ Becomes(x, "input")
  BY DEF Type
<1>2. /\ AtKeyboard(x)
      /\ paced => pipe[x] = <<>>
      /\ UNCHANGED <<busy, forks, supervisor, received, spoilt, paced>>
  BY DEF Type
<1>3. Other(x) \in Windows /\ Other(x) # x /\ Other(Other(x)) = x
  BY TwoWindows
<1>5. /\ pipe[x] \in Seq(Commands) /\ typed \in Seq(Commands) /\ received \in Seq(Commands)
      /\ pipe'[x] = Append(pipe[x], c)
  BY <1>0, <1>1, <1>3 DEF TypeOK
<1>6. TypeOK'
  <2>1. pipe' \in [Windows -> Seq(Commands)] /\ typed' \in Seq(Commands)
    BY <1>0, <1>1, <1>5 DEF TypeOK
  <2>2. role' \in [Windows -> {"input", "execute"}]
    BY <1>0, <1>1 DEF TypeOK, End, Becomes
  <2>3. ended[x] \in Nat /\ forks[x] \in Nat /\ ended[x] <= forks[x]
    BY <1>0, <1>2 DEF TypeOK, AtKeyboard, Gone
  <2>4. CASE ended' = ended
    BY <1>0, <1>2, <2>1, <2>2, <2>4 DEF TypeOK, Gone
  <2>5. CASE ended' = [ended EXCEPT ![x] = @ + 1]
    <3>1. ended' \in [Windows -> Nat] /\ \A y \in Windows : ended'[y] <= forks'[y] + 1
      BY <1>0, <1>2, <2>3, <2>5 DEF TypeOK
    <3>2. \A y \in Windows : Gone(y) => Gone(y)'
      BY <1>0, <1>2, <2>3, <2>5 DEF TypeOK, Gone
    <3>. QED
      BY <1>0, <1>2, <2>1, <2>2, <3>1, <3>2 DEF TypeOK
  <2>. QED
    BY <1>1, <2>4, <2>5 DEF End, Becomes
<1>7. ASSUME spoilt # "swapped"
      PROVE  OneWay' /\ Complete' /\ KeyboardAlone'
  <2>0. OneWay /\ Complete /\ KeyboardAlone
    BY <1>7 DEF IInv
  <2>4. pipe[Other(x)] = <<>> /\ ~HasSwap(x) /\ ~AtKeyboard(Other(x))
    BY <1>2, <2>0 DEF KeyboardAlone
  <2>5. pipe'[Other(x)] = <<>>
    BY <1>0, <1>1, <1>3, <2>4 DEF TypeOK
  <2>7. OneWay'
    BY <1>3, <2>5 DEF OneWay
  <2>8. Complete'
    <3>1. typed = received \o pipe[x]
      BY <2>0, <2>4 DEF Complete
    <3>2. typed' = received' \o pipe'[x]
      <4>1. Append(typed, c) = typed \o <<c>>
        BY <1>5, AppendIsConcat
      <4>2. Append(pipe[x], c) = pipe[x] \o <<c>> /\ <<c>> \in Seq(Commands)
        BY <1>5, AppendIsConcat
      <4>3. (received \o pipe[x]) \o <<c>> = received \o (pipe[x] \o <<c>>)
        <5>1. \A r, s, u \in Seq(Commands) : (r \o s) \o u = r \o (s \o u)
          BY ConcatAssociative
        <5>. QED
          BY ONLY <1>5, <4>2, <5>1, Zenon
      <4>. QED
        BY <1>1, <1>2, <1>5, <3>1, <4>1, <4>2, <4>3
    <3>3. pipe'[x] # <<>>
      BY <1>5, AppendProperties
    <3>. QED
      BY <1>3, <2>5, <3>2, <3>3, TwoWindows DEF Complete
  <2>9. KeyboardAlone'
    <3>1. ~AtKeyboard(Other(x))'
      BY <1>0, <1>1, <1>2, <1>3, <2>4 DEF TypeOK, AtKeyboard, Gone, End, Becomes
    <3>2. c \notin Programs \union Unknown => ~AtKeyboard(x)'
      BY <1>0, <1>1 DEF TypeOK, AtKeyboard, End, Becomes
    <3>3. c \in Programs \union Unknown => ~HasSwap(x)'
      <4>. SUFFICES ASSUME c # "swaprole" PROVE ~HasSwap(x)'
        BY CommandsAssumption
      <4>. QED
        BY <2>4, <1>5 DEF HasSwap
    <3>. QED
      BY <1>3, <2>5, <3>1, <3>2, <3>3, TwoWindows DEF KeyboardAlone
  <2>. QED
    BY <2>7, <2>8, <2>9
<1>8. Paced'
  BY <1>0, <1>1, <1>2, <1>5, TwoWindows DEF Paced, TypeOK
<1>. QED
  BY <1>2, <1>6, <1>7, <1>8 DEF IInv

\* Reading: all that is under way is read, and a whole swaprole hands the
\* keyboard over.
LEMMA ReadInv == IInv => \A x \in Windows : Read(x) => IInv'
<1>. SUFFICES ASSUME IInv, NEW x \in Windows, Read(x) PROVE IInv'
  OBVIOUS
<1>. DEFINE text == pipe[Other(x)]
<1>0. TypeOK /\ Paced
  BY DEF IInv
<1>1. /\ Waits(x) /\ text # <<>>
      /\ pipe' = [pipe EXCEPT ![Other(x)] = <<>>]
      /\ received' = received \o text
      /\ spoilt' \in {"no", "joined", "garbled", "swapped"}
      /\ Len(text) <= 1 /\ spoilt \notin {"joined", "swapped"} => spoilt' \notin {"joined", "swapped"}
      /\ spoilt = "swapped" => spoilt' = "swapped"
      /\ UNCHANGED <<supervisor, typed, paced>>
  BY <1>0, CommandsAssumption DEF Read, TypeOK
<1>2. \/ End(x) /\ UNCHANGED <<busy, forks>>
      \/ /\ text[1] = "swaprole" \/ spoilt' = "swapped"
         /\ Becomes(x, "input") /\ UNCHANGED <<busy, forks>>
      \/ \E found \in BOOLEAN :
           /\ busy' = [busy EXCEPT ![x] = found]
           /\ forks' = [forks EXCEPT ![x] = IF found THEN @ ELSE @ + 1]
           /\ UNCHANGED <<role, ended>>
  BY DEF Read, Execute, Swaps
<1>3. Other(x) \in Windows /\ Other(x) # x /\ Other(Other(x)) = x
  BY TwoWindows
<1>4. /\ text \in Seq(Commands) /\ typed \in Seq(Commands) /\ received \in Seq(Commands)
      /\ ended[x] \in Nat /\ forks[x] \in Nat /\ ended[x] <= forks[x]
      /\ role[x] = "execute"
  BY <1>0, <1>1, <1>3 DEF TypeOK, Waits, Gone
<1>6. TypeOK'
  <2>1. /\ pipe' \in [Windows -> Seq(Commands)] /\ received' \in Seq(Commands)
        /\ role' \in [Windows -> {"input", "execute"}] /\ busy' \in [Windows -> BOOLEAN]
    <3>1. pipe' \in [Windows -> Seq(Commands)] /\ received' \in Seq(Commands)
      <4>1. pipe \in [Windows -> Seq(Commands)] /\ <<>> \in Seq(Commands)
        BY <1>0 DEF TypeOK
      <4>2. pipe' \in [Windows -> Seq(Commands)]
        BY <1>1, <4>1, Zenon
      <4>3. received \o text \in Seq(Commands)
        BY <1>4
      <4>. QED
        BY <1>1, <4>2, <4>3
    <3>2. role' \in [Windows -> {"input", "execute"}]
      BY <1>0, <1>2 DEF TypeOK, End, Becomes
    <3>3. busy' \in [Windows -> BOOLEAN]
      BY <1>0, <1>2 DEF TypeOK
    <3>. QED
      BY <3>1, <3>2, <3>3
  <2>2. /\ ended' \in [Windows -> Nat] /\ forks' \in [Windows -> Nat]
        /\ \A y \in Windows : ended'[y] <= forks'[y] + 1
        /\ \A y \in Windows : Gone(y) => Gone(y)'
    <3>1. CASE End(x) /\ UNCHANGED forks
      BY <1>0, <1>4, <3>1 DEF TypeOK, Gone, End
    <3>2. CASE UNCHANGED <<ended, forks>>
      BY <1>0, <3>2 DEF TypeOK, Gone
    <3>3. CASE forks' = [forks EXCEPT ![x] = @ + 1] /\ UNCHANGED ended
      BY <1>0, <1>4, <3>3 DEF TypeOK, Gone
    <3>. QED
      BY <1>0, <1>2, <3>1, <3>2, <3>3 DEF Becomes, TypeOK
  <2>. QED
    BY <1>0, <1>1, <2>1, <2>2 DEF TypeOK
<1>7. Paced'
  BY <1>0, <1>1, <1>3 DEF Paced, TypeOK
<1>8. ASSUME spoilt' # "swapped"
      PROVE  OneWay' /\ Complete' /\ KeyboardAlone'
  <2>0. OneWay /\ Complete /\ KeyboardAlone
    BY <1>1, <1>8 DEF IInv
  <2>5. \A y \in Windows : pipe'[y] = <<>>
    <3>1. pipe[x] = <<>>
      BY <2>0, <1>1, <1>3, TwoWindows DEF OneWay
    <3>. QED
      BY <1>0, <1>1, <1>3, <3>1, TwoWindows DEF TypeOK
  <2>7. OneWay'
    BY <1>3, <2>5 DEF OneWay
  <2>8. Complete'
    <3>1. typed = received \o text
      BY <2>0, <1>1, <1>3, TwoWindows DEF Complete, OneWay
    <3>2. received' \o <<>> = received'
      BY <1>1, <1>4
    <3>. QED
      BY <1>1, <2>5, <3>1, <3>2 DEF Complete
  <2>9. KeyboardAlone'
    <3>1. \A y \in Windows : ~HasSwap(y)'
      BY <2>5 DEF HasSwap
    <3>2. AtKeyboard(x)' => ~AtKeyboard(Other(x))
      <4>1. AtKeyboard(x)' => text[1] = "swaprole"
        BY <1>0, <1>2, <1>4, <1>8 DEF AtKeyboard, End, TypeOK
      <4>2. 1 \in DOMAIN text
        BY <1>1, <1>4
      <4>. QED
        BY <2>0, <1>3, <4>1, <4>2 DEF KeyboardAlone, HasSwap
    <3>3. AtKeyboard(Other(x))' => AtKeyboard(Other(x))
      BY <1>0, <1>2, <1>3 DEF AtKeyboard, Gone, End, Becomes, TypeOK
    <3>. QED
      BY <1>3, <2>5, <3>1, <3>2, <3>3, TwoWindows DEF KeyboardAlone
  <2>. QED
    BY <2>7, <2>8, <2>9
<1>. QED
  BY <1>6, <1>7, <1>8 DEF IInv

LEMMA NextInv == IInv /\ [Next]_vars => IInv'
<1>. SUFFICES ASSUME IInv, [Next]_vars PROVE IInv'
  OBVIOUS
<1>1. ASSUME NEW x \in Windows, Type(x) PROVE IInv'
  BY <1>1, TypeInv
<1>2. ASSUME NEW x \in Windows, Read(x) PROVE IInv'
  BY <1>2, ReadInv
<1>3. ASSUME NEW x \in Windows, CommandEnds(x) PROVE IInv'
  <2>1. TypeOK'
    BY <1>3 DEF CommandEnds, IInv, TypeOK, Gone
  <2>. QED
    BY <1>3, <2>1 DEF CommandEnds, IInv, OneWay, Complete, KeyboardAlone, Paced, HasSwap, AtKeyboard, Gone
<1>4. CASE SupervisorEnds
  <2>1. TypeOK'
    BY <1>4 DEF SupervisorEnds, windows, IInv, TypeOK, Gone
  <2>. QED
    BY <1>4, <2>1 DEF SupervisorEnds, windows, IInv, OneWay, Complete, KeyboardAlone, Paced, HasSwap, AtKeyboard, Gone
<1>5. CASE UNCHANGED vars
  BY <1>5 DEF vars, windows, IInv, TypeOK, OneWay, Complete, KeyboardAlone, Paced, HasSwap, AtKeyboard, Gone
<1>. QED
  BY <1>1, <1>2, <1>3, <1>4, <1>5 DEF Next, Shell

(* The inductive invariant: types, and until texts ran together to swaprole *)
(* texts under way in one direction only, what was typed is what was read   *)
(* and what is under way, and nobody at a keyboard while a swaprole is      *)
(* under way; texts never run together to a paced user                      *)
(* (CSE_21CS30009.c:76-155, 173-247).                                       *)
THEOREM Invariance == Spec => []IInv
BY InitInv, NextInv, PTL DEF Spec

(* At most one window takes commands, for any commands and however many are *)
(* typed, until texts run together to swaprole                              *)
(* (CSE_21CS30009.c:95-103, 117-125, 186-192, 238-245).                     *)
THEOREM OneInputAlways == Spec => []OneInput
<1>1. IInv => OneInput
  BY TwoWindows DEF IInv, KeyboardAlone, OneInput
<1>. QED
  BY <1>1, Invariance, PTL

(* What has been read is a beginning of what was typed, until texts run     *)
(* together to swaprole; to a paced user commands never run together        *)
(* (CSE_21CS30009.c:90, 111, 179, 233).                                     *)
THEOREM InOrderAlways == Spec => []InOrder
<1>1. IInv => InOrder
  <2>. SUFFICES ASSUME IInv PROVE InOrder
    OBVIOUS
  <2>1. TypeOK /\ Paced
    BY DEF IInv
  <2>2. ASSUME spoilt # "swapped"
        PROVE  /\ Len(received) <= Len(typed) /\ received = SubSeq(typed, 1, Len(received))
               /\ \E x \in Windows : Len(typed) = Len(received) + Len(pipe[x])
    <3>1. OneWay /\ Complete
      BY <2>2 DEF IInv
    <3>2. PICK x \in Windows : pipe[x] = <<>>
      BY <3>1 DEF OneWay
    <3>3. Other(x) \in Windows /\ typed = received \o pipe[Other(x)]
      BY <3>1, <3>2, TwoWindows DEF Complete
    <3>4. received \in Seq(Commands) /\ pipe[Other(x)] \in Seq(Commands)
      BY <2>1, <3>3 DEF TypeOK
    <3>5. /\ Len(typed) = Len(received) + Len(pipe[Other(x)])
          /\ received = SubSeq(typed, 1, Len(received))
      BY <3>3, <3>4, ConcatProperties, SubSeqOfConcat1
    <3>6. Len(received) \in Nat /\ Len(pipe[Other(x)]) \in Nat
      BY <3>4
    <3>. QED
      BY <3>3, <3>5, <3>6
  <2>3. paced => Len(typed) - Len(received) <= 1 /\ spoilt \notin {"joined", "swapped"}
    <3>1. \A x \in Windows : Len(pipe[x]) \in Nat
      BY <2>1 DEF TypeOK
    <3>2. Len(received) \in Nat
      BY <2>1 DEF TypeOK
    <3>. QED
      BY <2>1, <2>2, <3>1, <3>2 DEF Paced
  <2>. QED
    BY <2>2, <2>3 DEF InOrder
<1>. QED
  BY <1>1, Invariance, PTL

----------------------------------------------------------------------------
(* A4: the counts of producer and consumers, for any consumers and any      *)
(* number of items.                                                         *)

LEMMA ProdConsInitInv == ProdConsInit => ProdConsInv
<1>. SUFFICES ASSUME ProdConsInit PROVE ProdConsInv
  OBVIOUS
<1>. USE ConsumersAssumption DEF ProdConsInit
<1>1. ProdConsTypeOK
  BY DEF ProdConsTypeOK
<1>2. Turns
  BY DEF Turns
<1>3. CountsMatch
  BY DEF CountsMatch, Uncounted, Unread
<1>. QED
  BY <1>1, <1>2, <1>3 DEF ProdConsInv

LEMMA ProdConsNextInv == ProdConsInv /\ [ProdConsNext]_prodcons_vars => ProdConsInv'
<1>. SUFFICES ASSUME ProdConsInv, [ProdConsNext]_prodcons_vars PROVE ProdConsInv'
  OBVIOUS
<1>0. ProdConsTypeOK /\ Turns /\ CountsMatch
  BY DEF ProdConsInv
<1>. USE <1>0, ConsumersAssumption DEF producer, consumers
<1>1. ASSUME Produce \/ Poll \/ Drain \/ Reap PROVE ProdConsInv'
  <2>. USE <1>1 DEF Produce, Poll, Drain, Reap
  <2>1. ProdConsTypeOK'
    <3>1. CASE Produce
      <4>1. item' \in Nat /\ consumer' \in Consumers /\ made # t
        BY <3>1 DEF ProdConsTypeOK
      <4>. QED
        BY <3>1, <4>1 DEF ProdConsTypeOK
    <3>2. CASE Poll
      BY <3>2 DEF ProdConsTypeOK
    <3>3. CASE Drain
      BY <3>3 DEF ProdConsTypeOK
    <3>4. CASE Reap
      BY <3>4 DEF ProdConsTypeOK
    <3>. QED
      BY <3>1, <3>2, <3>3, <3>4
  <2>2. Turns'
    BY DEF Turns, ProdConsTypeOK
  <2>3. CountsMatch'
    BY DEF CountsMatch, Uncounted, Unread, ProdConsTypeOK
  <2>. QED
    BY <2>1, <2>2, <2>3 DEF ProdConsInv
<1>2. ASSUME Offer PROVE ProdConsInv'
  <2>. USE <1>2 DEF Offer
  <2>1. ProdConsTypeOK'
    BY DEF ProdConsTypeOK
  <2>2. Turns'
    BY DEF Turns, ProdConsTypeOK
  <2>3. CountsMatch'
    <3>. SUFFICES ASSUME NEW c \in Consumers
                  PROVE  cons_itemc[c] + Uncounted(c)' = itemc[c] + Unread(c)'
      BY DEF CountsMatch
    <3>1. m0 = Free /\ pos[c] # "free" /\ Uncounted(c) = 0 /\ Unread(c) = 0
      BY DEF Turns, Uncounted, Unread
    <3>2. Uncounted(c)' = Unread(c)'
      BY <3>1 DEF Uncounted, Unread
    <3>. QED
      BY <3>1, <3>2 DEF CountsMatch, ProdConsTypeOK, Unread
  <2>. QED
    BY <2>1, <2>2, <2>3 DEF ProdConsInv
<1>3. ASSUME Put PROVE ProdConsInv'
  <2>. USE <1>3 DEF Put
  <2>1. ProdConsTypeOK'
    BY DEF ProdConsTypeOK
  <2>2. Turns'
    BY DEF Turns, ProdConsTypeOK
  <2>3. CountsMatch'
    BY DEF CountsMatch, Uncounted, Unread, ProdConsTypeOK
  <2>. QED
    BY <2>1, <2>2, <2>3 DEF ProdConsInv
<1>4. ASSUME Account PROVE ProdConsInv'
  <2>. USE <1>4 DEF Account
  <2>1. ProdConsTypeOK'
    BY DEF ProdConsTypeOK
  <2>2. Turns'
    BY DEF Turns, ProdConsTypeOK
  <2>3. CountsMatch'
    BY DEF CountsMatch, Uncounted, Unread, ProdConsTypeOK
  <2>. QED
    BY <2>1, <2>2, <2>3 DEF ProdConsInv
<1>5. ASSUME StopAll PROVE ProdConsInv'
  <2>. USE <1>5 DEF StopAll
  <2>1. ProdConsTypeOK'
    BY DEF ProdConsTypeOK
  <2>2. Turns'
    BY DEF Turns, ProdConsTypeOK
  <2>3. CountsMatch'
    BY DEF CountsMatch, Uncounted, Unread, ProdConsTypeOK, Turns
  <2>. QED
    BY <2>1, <2>2, <2>3 DEF ProdConsInv
<1>6. ASSUME NEW c \in Consumers, Test(c) \/ Look(c) PROVE ProdConsInv'
  <2>. USE <1>6 DEF Test, Look, Moves
  <2>1. ProdConsTypeOK'
    BY DEF ProdConsTypeOK
  <2>2. Turns'
    BY DEF Turns, ProdConsTypeOK
  <2>3. CountsMatch'
    BY DEF CountsMatch, Uncounted, Unread, ProdConsTypeOK
  <2>. QED
    BY <2>1, <2>2, <2>3 DEF ProdConsInv
<1>7. ASSUME NEW c \in Consumers, ReadItem(c) PROVE ProdConsInv'
  <2>. USE <1>7 DEF ReadItem, Moves
  <2>1. ProdConsTypeOK'
    BY DEF ProdConsTypeOK
  <2>2. Turns'
    BY DEF Turns, ProdConsTypeOK
  <2>3. CountsMatch'
    BY DEF CountsMatch, Uncounted, Unread, ProdConsTypeOK, Turns
  <2>. QED
    BY <2>1, <2>2, <2>3 DEF ProdConsInv
<1>8. ASSUME NEW c \in Consumers, SetFree(c) PROVE ProdConsInv'
  <2>. USE <1>8 DEF SetFree, Moves
  <2>1. ProdConsTypeOK'
    BY DEF ProdConsTypeOK
  <2>2. Turns'
    BY DEF Turns, ProdConsTypeOK
  <2>3. CountsMatch'
    BY DEF CountsMatch, Uncounted, Unread, ProdConsTypeOK, Turns
  <2>. QED
    BY <2>1, <2>2, <2>3 DEF ProdConsInv
<1>9. ASSUME UNCHANGED prodcons_vars PROVE ProdConsInv'
  BY <1>9 DEF prodcons_vars, ProdConsInv, ProdConsTypeOK, Turns, CountsMatch, Uncounted, Unread
<1>. QED
  BY <1>1, <1>2, <1>3, <1>4, <1>5, <1>6, <1>7, <1>8, <1>9 DEF ProdConsNext, Producer, Consumer

(* The inductive invariant: whose turn it is, and the counts.               *)
THEOREM ProdConsInvariance == ProdConsSpec => []ProdConsInv
<1>. QED
  BY ProdConsInitInv, ProdConsNextInv, PTL DEF ProdConsSpec

(* When the producer reports, the consumers' counts are its own.            *)
THEOREM ItemsAgreeAlways == ProdConsSpec => []ItemsAgree
<1>1. ProdConsInv => ItemsAgree
  <2>. SUFFICES ASSUME ProdConsInv, stage = "report" PROVE itemc = cons_itemc
    BY DEF ItemsAgree
  <2>1. ProdConsTypeOK /\ Turns /\ CountsMatch
    BY DEF ProdConsInv
  <2>2. ASSUME NEW c \in Consumers PROVE itemc[c] = cons_itemc[c]
    <3>1. Uncounted(c) = 0 /\ Unread(c) = 0
      BY <2>1, ConsumersAssumption DEF Uncounted, Unread, Turns
    <3>. QED
      BY <2>1, <3>1 DEF CountsMatch, ProdConsTypeOK
  <2>. QED
    BY <2>1, <2>2 DEF ProdConsTypeOK
<1>. QED
  BY <1>1, ProdConsInvariance, PTL

----------------------------------------------------------------------------
(* A5: the listing, for any number of vertices, any graph and any T.        *)

LEMMA VerticesFinite == IsFiniteSet(Vertices) /\ Cardinality(Vertices) = n
  BY GraphAssumption, FS_Interval DEF Vertices

LEMMA PartFinite ==
  ASSUME NEW S \in SUBSET Vertices
  PROVE  IsFiniteSet(S) /\ Cardinality(S) \in 0 .. n /\ (Cardinality(S) = n => S = Vertices)
  BY VerticesFinite, GraphAssumption, FS_Subset, FS_CardinalityType

LEMMA DegreeType ==
  TopoTypeOK => \A i \in Vertices : Cardinality(Pred(i)) \in Nat /\ Cardinality(Succ(i)) \in Nat
<1>. SUFFICES ASSUME NEW i \in Vertices
              PROVE  Cardinality(Pred(i)) \in Nat /\ Cardinality(Succ(i)) \in Nat
  OBVIOUS
<1>1. Pred(i) \in SUBSET Vertices /\ Succ(i) \in SUBSET Vertices
  BY DEF Pred, Succ
<1>. QED
  BY <1>1, PartFinite

LEMMA TopoInitInv == TopoInit => TopoInv
<1>. SUFFICES ASSUME TopoInit PROVE TopoInv
  OBVIOUS
<1>1. Inside = {} /\ Listed = {} /\ Notified = {}
  BY DEF TopoInit, Inside, Listed, Notified
<1>2. Cardinality({}) = 0
  BY FS_EmptySet
<1>3. A \subseteq Vertices \X Vertices /\ T \in [Vertices -> Vertices]
  BY GraphAssumption DEF TopoInit
<1>4. \A i \in Vertices : Cardinality(Pred(i)) \in Nat
  <2>. SUFFICES ASSUME NEW i \in Vertices PROVE Cardinality(Pred(i)) \in Nat
    OBVIOUS
  <2>1. Pred(i) \in SUBSET Vertices
    BY DEF Pred
  <2>. QED
    BY <2>1, PartFinite
<1>5. TopoTypeOK
  <2>1. todo \in [Vertices -> Nat]
    BY <1>4 DEF TopoInit
  <2>2. n \in Nat
    BY GraphAssumption
  <2>3. 0 \in 0 .. n /\ 0 \in Nat
    BY <2>2
  <2>4. at \in [Vertices -> {"wait", "write", "bump", "unlock", "notify", "signal", "done"}]
    BY DEF TopoInit
  <2>. QED
    BY <1>3, <2>1, <2>3, <2>4 DEF TopoInit, TopoTypeOK
<1>6. OneInside
  BY <1>1 DEF TopoInit, OneInside
<1>7. ListSoFar
  BY <1>1, <1>2 DEF TopoInit, ListSoFar
<1>8. AllHeard
  BY <1>1, <1>2 DEF TopoInit, AllHeard
<1>. QED
  BY <1>5, <1>6, <1>7, <1>8 DEF TopoInv

LEMMA TopoNextInv == TopoInv /\ [TopoNext]_topo_vars => TopoInv'
<1>. SUFFICES ASSUME TopoInv, [TopoNext]_topo_vars PROVE TopoInv'
  OBVIOUS
<1>0. TopoTypeOK /\ OneInside /\ ListSoFar /\ AllHeard
  BY DEF TopoInv
<1>1. n \in Nat /\ idx \in 0 .. n /\ heard \in 0 .. n /\ ntfy \in Nat
  BY <1>0, GraphAssumption DEF TopoTypeOK
<1>2. /\ IsFiniteSet(Listed) /\ Cardinality(Listed) \in 0 .. n
      /\ IsFiniteSet(Notified) /\ Cardinality(Notified) \in 0 .. n
  BY PartFinite DEF Listed, Notified
<1>3. ASSUME NEW i \in Vertices, AwaitOne(i) \/ SignalOne(i) PROVE TopoInv'
  <2>1. Inside' = Inside /\ Listed' = Listed /\ Notified' = Notified
    BY <1>3 DEF AwaitOne, SignalOne, Inside, Listed, Notified
  <2>2. TopoTypeOK'
    BY <1>0, <1>3 DEF AwaitOne, SignalOne, TopoTypeOK
  <2>. QED
    BY <1>0, <1>3, <2>1, <2>2 DEF AwaitOne, SignalOne, TopoInv, OneInside, ListSoFar, AllHeard
<1>4. ASSUME NEW i \in Vertices, Lock(i) PROVE TopoInv'
  <2>1. Inside' = Inside \union {i} /\ Listed' = Listed /\ Notified' = Notified
    BY <1>0, <1>4 DEF Lock, Goto, TopoTypeOK, Inside, Listed, Notified
  <2>2. TopoTypeOK'
    BY <1>0, <1>4 DEF Lock, Goto, TopoTypeOK
  <2>3. Inside = {} /\ mtx = 1
    BY <1>0, <1>4 DEF Lock, OneInside
  <2>4. OneInside'
    BY <1>4, <2>1, <2>3 DEF Lock, OneInside
  <2>5. ListSoFar'
    BY <1>0, <1>4, <2>1 DEF Lock, Goto, TopoTypeOK, ListSoFar
  <2>. QED
    BY <1>0, <1>4, <2>1, <2>2, <2>4, <2>5 DEF Lock, TopoInv, AllHeard
<1>5. ASSUME NEW i \in Vertices, Write(i) PROVE TopoInv'
  <2>1. Inside' = Inside /\ Listed' = Listed /\ Notified' = Notified
    BY <1>0, <1>5 DEF Write, Goto, TopoTypeOK, Inside, Listed, Notified
  <2>2. i \in Vertices \ Listed
    BY <1>5 DEF Write, Goto, Listed
  <2>3. idx < n
    BY <1>0, <1>1, <1>2, <2>2, PartFinite DEF ListSoFar, Listed
  <2>4. idx \in Vertices
    BY <1>1, <2>3 DEF Vertices
  <2>5. TopoTypeOK'
    BY <1>0, <1>5 DEF Write, Goto, TopoTypeOK
  <2>6. \A k \in 0 .. idx - 1 : T'[k] = T[k]
    BY <1>0, <1>1, <1>5, <2>3 DEF Write, TopoTypeOK, Vertices
  <2>7. \A j \in Vertices : at'[j] = "bump" => j = i
    BY <1>0, <1>5, <2>1 DEF Write, Goto, TopoTypeOK, OneInside, Inside
  <2>8. ListSoFar'
    <3>1. idx' = idx /\ T'[idx] = i
      BY <1>0, <1>5, <2>4 DEF Write, TopoTypeOK
    <3>. QED
      BY <1>0, <2>1, <2>6, <2>7, <3>1 DEF ListSoFar
  <2>. QED
    BY <1>0, <1>5, <2>1, <2>5, <2>8 DEF Write, TopoInv, OneInside, AllHeard
<1>6. ASSUME NEW i \in Vertices, Bump(i) PROVE TopoInv'
  <2>1. Inside' = Inside /\ Listed' = Listed \union {i} /\ Notified' = Notified /\ i \notin Listed
    BY <1>0, <1>6 DEF Bump, Goto, TopoTypeOK, Inside, Listed, Notified
  <2>2. Cardinality(Listed') = idx + 1 /\ Cardinality(Listed') <= n
    <3>1. Listed' \in SUBSET Vertices
      BY DEF Listed
    <3>. QED
      BY <1>0, <1>2, <2>1, <3>1, FS_AddElement, PartFinite DEF ListSoFar
  <2>3. TopoTypeOK'
    BY <1>0, <1>1, <1>6, <2>2 DEF Bump, Goto, TopoTypeOK
  <2>4. T[idx] = i /\ T' = T /\ idx' = idx + 1
    BY <1>0, <1>6 DEF Bump, Goto, ListSoFar
  <2>5. \A j \in Vertices : at'[j] # "bump"
    BY <1>0, <1>6 DEF Bump, Goto, TopoTypeOK, OneInside, Inside
  <2>6. ListSoFar'
    BY <1>0, <1>1, <2>1, <2>2, <2>4, <2>5 DEF ListSoFar
  <2>. QED
    BY <1>0, <1>6, <2>1, <2>3, <2>6 DEF Bump, TopoInv, OneInside, AllHeard
<1>7. ASSUME NEW i \in Vertices, Unlock(i) PROVE TopoInv'
  <2>1. Inside' = Inside \ {i} /\ i \in Inside /\ Listed' = Listed /\ Notified' = Notified
    BY <1>0, <1>7 DEF Unlock, Goto, TopoTypeOK, Inside, Listed, Notified
  <2>2. mtx = 0 /\ Inside' = {}
    BY <1>0, <2>1 DEF OneInside
  <2>3. OneInside'
    BY <1>7, <2>2 DEF Unlock, OneInside
  <2>4. TopoTypeOK'
    BY <1>0, <1>7, <2>2 DEF Unlock, Goto, TopoTypeOK
  <2>5. ListSoFar'
    BY <1>0, <1>7, <2>1 DEF Unlock, Goto, TopoTypeOK, ListSoFar
  <2>. QED
    BY <1>0, <1>7, <2>1, <2>3, <2>4, <2>5 DEF Unlock, TopoInv, AllHeard
<1>8. ASSUME NEW i \in Vertices, Notify(i) PROVE TopoInv'
  <2>1. /\ Inside' = Inside /\ Listed' = Listed
        /\ Notified' = Notified \union {i} /\ i \notin Notified
    BY <1>0, <1>8 DEF Notify, Goto, TopoTypeOK, Inside, Listed, Notified
  <2>2. Cardinality(Notified') = Cardinality(Notified) + 1
    BY <1>2, <2>1, FS_AddElement
  <2>3. TopoTypeOK'
    BY <1>0, <1>8, DegreeType DEF Notify, Goto, TopoTypeOK
  <2>4. ListSoFar'
    BY <1>0, <1>8, <2>1 DEF Notify, Goto, TopoTypeOK, ListSoFar
  <2>. QED
    BY <1>0, <1>1, <1>2, <1>8, <2>1, <2>2, <2>3, <2>4 DEF Notify, TopoInv, OneInside, AllHeard
<1>9. ASSUME NEW i \in Vertices, Finish(i) PROVE TopoInv'
  <2>1. Inside' = Inside /\ Listed' = Listed /\ Notified' = Notified
    BY <1>0, <1>9 DEF Finish, Goto, TopoTypeOK, Inside, Listed, Notified
  <2>2. TopoTypeOK'
    BY <1>0, <1>9 DEF Finish, Goto, TopoTypeOK
  <2>3. ListSoFar'
    BY <1>0, <1>9, <2>1 DEF Finish, Goto, TopoTypeOK, ListSoFar
  <2>. QED
    BY <1>0, <1>9, <2>1, <2>2, <2>3 DEF Finish, TopoInv, OneInside, AllHeard
<1>10. ASSUME Boss \/ UNCHANGED topo_vars PROVE TopoInv'
  <2>. USE DEF Boss, Hear, HearLast, Heard, Check, topo_vars
  <2>1. Inside' = Inside /\ Listed' = Listed /\ Notified' = Notified
    BY <1>10 DEF Inside, Listed, Notified
  <2>2. TopoTypeOK'
    <3>1. CASE Hear
      <4>1. ntfy' \in Nat /\ heard' \in 0 .. n
        BY <1>1, <3>1
      <4>. QED
        BY <1>0, <3>1, <4>1 DEF TopoTypeOK
    <3>2. CASE HearLast \/ Check
      BY <1>0, <3>2 DEF TopoTypeOK
    <3>3. CASE UNCHANGED topo_vars
      BY <1>0, <3>3 DEF TopoTypeOK
    <3>. QED
      BY <1>10, <3>1, <3>2, <3>3
  <2>3. OneInside' /\ ListSoFar'
    BY <1>0, <1>10, <2>1 DEF OneInside, ListSoFar
  <2>4. AllHeard'
    BY <1>0, <1>1, <1>2, <1>10, <2>1 DEF AllHeard
  <2>. QED
    BY <2>2, <2>3, <2>4 DEF TopoInv
<1>. QED
  BY <1>3, <1>4, <1>5, <1>6, <1>7, <1>8, <1>9, <1>10 DEF TopoNext, Worker

(* The inductive invariant of the listing, for all n and all graphs.        *)
THEOREM TopoInvariance == TopoSpec => []TopoInv
<1>. QED
  BY TopoInitInv, TopoNextInv, PTL DEF TopoSpec

\* Once the boss is through waiting, every worker has notified it.
LEMMA EverybodyNotified ==
  ASSUME TopoInv, boss # "wait"
  PROVE  Notified = Vertices /\ Listed = Vertices /\ idx = n
<1>0. TopoTypeOK /\ ListSoFar /\ AllHeard
  BY DEF TopoInv
<1>1. Notified \in SUBSET Vertices /\ Listed \in SUBSET Vertices /\ Notified \subseteq Listed
  BY DEF Notified, Listed
<1>2. Cardinality(Notified) = n
  BY <1>0, <1>1, PartFinite, GraphAssumption DEF AllHeard, TopoTypeOK
<1>3. Notified = Vertices
  BY <1>1, <1>2, PartFinite
<1>. QED
  BY <1>0, <1>1, <1>3, VerticesFinite DEF ListSoFar

(* When the boss reads T it holds every vertex exactly once.                *)
THEOREM ListingCompleteAlways == TopoSpec => []ListingComplete
<1>1. TopoInv => ListingComplete
  <2>. SUFFICES ASSUME TopoInv, boss # "wait"
                PROVE  /\ \A v \in Vertices : \E k \in Vertices : T[k] = v
                       /\ \A k, l \in Vertices : k # l => T[k] # T[l]
    BY DEF ListingComplete
  <2>1. Listed = Vertices /\ idx = n
    BY EverybodyNotified
  <2>2. ListSoFar
    BY DEF TopoInv
  <2>. QED
    BY <2>1, <2>2 DEF ListSoFar, Vertices
<1>. QED
  BY <1>1, TopoInvariance, PTL

(* No worker needs a semaphore that the boss has removed.                   *)
THEOREM NoneNeedsRemovedAlways == TopoSpec => []NoneNeedsRemoved
<1>1. TopoInv => NoneNeedsRemoved
  <2>. SUFFICES ASSUME TopoInv, removed, NEW i \in Vertices
                PROVE  at[i] \in {"signal", "done"}
    BY DEF NoneNeedsRemoved
  <2>1. boss # "wait"
    BY DEF TopoInv, AllHeard
  <2>2. i \in Notified
    BY <2>1, EverybodyNotified
  <2>. QED
    BY <2>2 DEF Notified
<1>. QED
  BY <1>1, TopoInvariance, PTL
=============================================================================
