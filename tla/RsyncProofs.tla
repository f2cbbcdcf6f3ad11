---------------------------- MODULE RsyncProofs ----------------------------
(* Proofs that at the end the trees are the same, that a second run changes *)
(* nothing, that what both trees have is never away, and of the types, for  *)
(* any trees, contents, times and permissions, and however often the        *)
(* program is stopped.                                                      *)
EXTENDS Rsync, SequenceTheorems, FiniteSetTheorems, TLAPS

LEMMA ItemKinds == \A i \in Items : /\ "kind" \in DOMAIN i
                                    /\ i # None => IsFile(i) \/ IsDir(i)
BY DEF Items, None, Dir, File, IsFile, IsDir

LEMMA SourceTree == KindsKnown => /\ src \in [Paths -> Items]
                                  /\ IsTree(src)
BY TreesAssumption DEF KindsKnown

\* What is below an item that src does not have, src does not have either.
LEMMA NothingBelow ==
  ASSUME KindsKnown, NEW p \in Paths, src[p] = None, NEW q \in Below(p)
  PROVE  src[q] = None
BY SourceTree DEF IsTree, IsDir, None, Below

\* The calls made for an item of src.
LEMMA CallsForFit ==
  ASSUME NEW s, NEW d, IsFile(s) \/ IsDir(s)
  PROVE  CallsFor(s, d) \in Seq(Calls) /\ Fit(CallsFor(s, d), s, d)
<1>1. CASE IsFile(s)
  <2>1. CASE CallsFor(s, d) = <<>>
    BY <1>1, <2>1 DEF Calls, Fit, IsFile
  <2>2. CASE CallsFor(s, d) = <<"open", "write", "utime", "chmod">>
    BY <1>1, <2>2 DEF Calls, Fit, IsFile
  <2>3. CASE CallsFor(s, d) = <<"open", "write">>
    BY <1>1, <2>3 DEF Calls, Fit, IsFile
  <2>4. CASE CallsFor(s, d) = <<"remove", "open", "write">> /\ ~IsFile(d)
    BY <1>1, <2>4 DEF Calls, Fit, IsFile
  <2>. QED
    BY <1>1, <2>1, <2>2, <2>3, <2>4 DEF CallsFor, None, IsFile
<1>2. CASE ~IsFile(s) /\ IsDir(s)
  <2>1. CASE CallsFor(s, d) = <<"sync">>
    BY <1>2, <2>1 DEF Calls, Fit, IsDir
  <2>2. CASE CallsFor(s, d) = <<"mkdir", "sync">>
    BY <1>2, <2>2 DEF Calls, Fit, IsDir
  <2>3. CASE CallsFor(s, d) = <<"remove", "mkdir", "sync">> /\ ~IsDir(d)
    BY <1>2, <2>3 DEF Calls, Fit, IsDir
  <2>. QED
    BY <1>2, <2>1, <2>2, <2>3 DEF CallsFor, None, IsDir
<1>. QED
  BY <1>1, <1>2

\* A call of sync_directories that begins.
LEMMA CallFrame ==
  ASSUME KindsKnown, NEW d \in Paths \union {<<>>}
  PROVE  /\ Call(d) \in Frames
         /\ Call(d).loop = "src" => \A p \in Call(d).left : src[p] # None
BY DEF Call, Frames, In

LEMMA InitInv == Init => IInv
<1>. SUFFICES ASSUME Init PROVE IInv
  OBVIOUS
<1>1. dst \in [Paths -> Items]
  BY TreesAssumption DEF Init
<1>2. KindsKnown
  BY <1>1, ItemKinds DEF KindsKnown, Init
<1>3. VisitsExist
  <2>1. stack = <<Call(<<>>)>> /\ Call(<<>>) \in Frames
    BY <1>2, CallFrame DEF Init
  <2>. QED
    BY <1>2, <2>1, CallFrame DEF VisitsExist
<1>4. CallsFit
  BY DEF CallsFit, Init
<1>5. NeverAway
  BY DEF NeverAway, Init
<1>. QED
  BY <1>2, <1>3, <1>4, <1>5 DEF IInv

\* What one call does to one item of dst.
LEMMA OneItem ==
  ASSUME KindsKnown, NeverAway, NEW p \in Paths, NEW i, "kind" \in DOMAIN i,
         src[p].kind = old[p].kind => i.kind = old[p].kind,
         dst' = [dst EXCEPT ![p] = i], UNCHANGED <<src, old>>
  PROVE  KindsKnown' /\ NeverAway'
<1>1. \A q \in Paths : dst'[q] = IF q = p THEN i ELSE dst[q]
  BY DEF KindsKnown
<1>2. dst' = [q \in Paths |-> dst'[q]]
  BY <1>1 DEF KindsKnown
<1>. QED
  BY <1>1, <1>2 DEF KindsKnown, NeverAway

\* A call that is made is done with; one that goes on removes nothing.
LEMMA NextCall ==
  ASSUME CallsFit, todo # <<>>, UNCHANGED <<src, item>>,
         \/ todo' = Tail(todo)
         \/ todo' = todo /\ Head(todo) # "remove"
  PROVE  CallsFit'
<1>1. CASE todo' = Tail(todo)
  <2>1. todo' \in Seq(Calls) /\ \A k \in DOMAIN todo' : k + 1 \in DOMAIN todo /\ k + 1 # 1
                                                       /\ todo'[k] = todo[k + 1]
    BY <1>1 DEF CallsFit
  <2>. QED
    BY <2>1 DEF CallsFit, Fit
<1>2. CASE todo' = todo /\ Head(todo) # "remove"
  <2>1. todo \in Seq(Calls) /\ todo[1] # "remove"
    BY <1>2 DEF CallsFit
  <2>. QED
    BY <1>2, <2>1 DEF CallsFit, Fit
<1>. QED
  BY <1>1, <1>2

\* What the next call may count on.
LEMMA ThisCall ==
  ASSUME CallsFit, NEW call, Does(call)
  PROVE  /\ todo # <<>> /\ item \in Paths /\ todo[1] = call /\ 1 \in DOMAIN todo
         /\ Fit(todo, src[item], dst[item])
BY DEF CallsFit, Does

\* The innermost call goes on to its next item.
LEMMA TopFrame ==
  ASSUME VisitsExist, stack # <<>>, UNCHANGED src, NEW f \in Frames,
         f.loop = "src" => \A p \in f.left : src[p] # None, SetTop(f)
  PROVE  VisitsExist'
<1>1. /\ stack' \in Seq(Frames) /\ DOMAIN stack' = DOMAIN stack
      /\ \A k \in DOMAIN stack : stack'[k] = IF k = Len(stack) THEN f ELSE stack[k]
  BY DEF VisitsExist, SetTop
<1>. QED
  BY <1>1 DEF VisitsExist

LEMMA Top ==
  ASSUME VisitsExist, stack # <<>>
  PROVE  /\ top \in Frames
         /\ top.loop = "src" => \A p \in top.left : src[p] # None
BY DEF VisitsExist, top

\* The calls of the first walk that change dst at the item.
LEMMA OneCall ==
  ASSUME IInv, Remove \/ Open \/ Write \/ SetTime \/ SetMode \/ MakeDir
  PROVE  IInv'
<1>. USE DEF IInv
<1>1. UNCHANGED <<src, old, item, stack>>
  BY DEF Remove, Open, Write, SetTime, SetMode, MakeDir, Done, given
<1>2. VisitsExist'
  BY <1>1 DEF VisitsExist
<1>3. CallsFit'
  BY <1>1, NextCall DEF Remove, Open, Write, SetTime, SetMode, MakeDir, Done, Does
<1>4. \/ UNCHANGED dst
      \/ item \in Paths /\ \E i : /\ Becomes(i) /\ "kind" \in DOMAIN i
                                  /\ src[item].kind = old[item].kind => i.kind = old[item].kind
  <2>1. CASE Remove
    <3>1. item \in Paths /\ src[item].kind # dst[item].kind
      BY <2>1, ThisCall DEF Remove, Fit
    <3>2. src[item].kind # old[item].kind
      BY <3>1 DEF NeverAway
    <3>. QED
      BY <2>1, <3>1, <3>2 DEF Remove, None
  <2>2. CASE Open
    <3>1. item \in Paths /\ src[item].kind = "file"
      BY <2>2, ThisCall DEF Open, Fit, IsFile
    <3>2. \A t, m : "kind" \in DOMAIN File(<<>>, t, m) /\ File(<<>>, t, m).kind = "file"
      BY DEF File
    <3>. QED
      BY <2>2, <3>1, <3>2 DEF Open
  <2>3. CASE Write
    <3>1. item \in Paths /\ src[item].kind = "file"
      BY <2>3, ThisCall DEF Write, Fit, IsFile
    <3>2. \A c, t, m : "kind" \in DOMAIN File(c, t, m) /\ File(c, t, m).kind = "file"
      BY DEF File
    <3>. QED
      BY <2>3, <3>1, <3>2 DEF Write
  <2>4. CASE SetTime
    <3>. DEFINE i == [dst[item] EXCEPT !.mtime = src[item].mtime]
    <3>1. item \in Paths /\ Becomes(i)
      BY <2>4, ThisCall DEF SetTime
    <3>2. "kind" \in DOMAIN i /\ i.kind = dst[item].kind
      BY <3>1 DEF KindsKnown
    <3>. QED
      BY <3>1, <3>2 DEF NeverAway
  <2>5. CASE SetMode
    <3>. DEFINE i == [dst[item] EXCEPT !.mode = src[item].mode]
    <3>1. item \in Paths /\ Becomes(i)
      BY <2>5, ThisCall DEF SetMode
    <3>2. "kind" \in DOMAIN i /\ i.kind = dst[item].kind
      BY <3>1 DEF KindsKnown
    <3>. QED
      BY <3>1, <3>2 DEF NeverAway
  <2>6. CASE MakeDir
    <3>1. item \in Paths /\ src[item].kind = "dir"
      BY <2>6, ThisCall DEF MakeDir, Fit, IsDir
    <3>. QED
      BY <2>6, <3>1 DEF MakeDir, Dir
  <2>. QED
    BY <2>1, <2>2, <2>3, <2>4, <2>5, <2>6
<1>5. KindsKnown' /\ NeverAway'
  <2>1. CASE UNCHANGED dst
    BY <1>1, <2>1 DEF KindsKnown, NeverAway
  <2>2. CASE item \in Paths /\ \E i : /\ Becomes(i) /\ "kind" \in DOMAIN i
                                      /\ src[item].kind = old[item].kind => i.kind = old[item].kind
    BY <1>1, <2>2, OneItem DEF Becomes
  <2>. QED
    BY <1>4, <2>1, <2>2
<1>. QED
  BY <1>2, <1>3, <1>5

LEMMA NextInv == IInv /\ [Next]_vars => IInv'
<1>. SUFFICES ASSUME IInv, [Next]_vars PROVE IInv'
  OBVIOUS
<1>. USE DEF IInv
<1>1. CASE Remove \/ Open \/ Write \/ SetTime \/ SetMode \/ MakeDir
  BY <1>1, OneCall
<1>2. CASE NextSource
  <2>1. UNCHANGED <<src, old, dst>> /\ stack # <<>> /\ top.loop = "src"
    BY <1>2 DEF NextSource, given, Ready
  <2>2. PICK p \in top.left : /\ SetTop([top EXCEPT !.left = @ \ {p}])
                              /\ item' = p /\ todo' = CallsFor(src[p], dst[p])
    BY <1>2 DEF NextSource
  <2>3. p \in Paths /\ src[p] # None
    BY <2>1, <2>2, Top DEF Frames
  <2>4. CallsFit'
    <3>1. IsFile(src[p]) \/ IsDir(src[p])
      BY <2>3, SourceTree, ItemKinds
    <3>2. CallsFor(src[p], dst[p]) \in Seq(Calls) /\ Fit(CallsFor(src[p], dst[p]), src[p], dst[p])
      BY <3>1, CallsForFit
    <3>. QED
      BY <2>1, <2>2, <2>3, <3>2 DEF CallsFit
  <2>5. VisitsExist'
    <3>. DEFINE f == [top EXCEPT !.left = @ \ {p}]
    <3>1. f \in Frames /\ f.left \subseteq top.left
      BY <2>1, Top DEF Frames
    <3>. QED
      BY <2>1, <2>2, <3>1, Top, TopFrame
  <2>6. KindsKnown' /\ NeverAway'
    BY <2>1 DEF KindsKnown, NeverAway
  <2>. QED
    BY <2>4, <2>5, <2>6
<1>3. CASE Recurse
  <2>1. UNCHANGED <<src, old, dst, item>> /\ todo' = Tail(todo) /\ item \in Paths
    BY <1>3, ThisCall DEF Recurse, Done, given
  <2>2. VisitsExist'
    <3>1. Call(item) \in Frames /\ (Call(item).loop = "src" => \A p \in Call(item).left : src[p] # None)
      BY <2>1, CallFrame
    <3>2. /\ stack' \in Seq(Frames)
          /\ \A k \in DOMAIN stack' : \/ k \in DOMAIN stack /\ stack'[k] = stack[k]
                                    \/ stack'[k] = Call(item)
      BY <1>3, <3>1 DEF Recurse, VisitsExist
    <3>. QED
      BY <2>1, <3>1, <3>2 DEF VisitsExist
  <2>3. CallsFit'
    BY <1>3, <2>1, NextCall, ThisCall DEF Recurse
  <2>4. KindsKnown' /\ NeverAway'
    BY <2>1 DEF KindsKnown, NeverAway
  <2>. QED
    BY <2>2, <2>3, <2>4
<1>4. CASE SecondLoop
  <2>1. UNCHANGED <<src, old, dst, item, todo>> /\ stack # <<>>
    BY <1>4 DEF SecondLoop, given, Ready
  <2>2. VisitsExist'
    <3>. DEFINE f == [top EXCEPT !.loop = "dst", !.left = In(dst, top.dir)]
    <3>1. f \in Frames /\ f.loop = "dst"
      BY <2>1, Top DEF Frames, In
    <3>2. SetTop(f)
      BY <1>4 DEF SecondLoop
    <3>. QED
      BY <2>1, <3>1, <3>2, TopFrame
  <2>3. KindsKnown' /\ NeverAway' /\ CallsFit'
    BY <2>1 DEF KindsKnown, NeverAway, CallsFit
  <2>. QED
    BY <2>2, <2>3
<1>5. CASE NextTarget
  <2>1. UNCHANGED <<src, old, dst>> /\ stack # <<>> /\ top.loop = "dst"
    BY <1>5 DEF NextTarget, given, Ready
  <2>2. PICK p \in top.left : /\ SetTop([top EXCEPT !.left = @ \ {p}]) /\ item' = p
                              /\ todo' = IF src[p] = None THEN <<"delete">> ELSE <<>>
    BY <1>5 DEF NextTarget
  <2>3. p \in Paths
    BY <2>1, <2>2, Top DEF Frames
  <2>4. CallsFit'
    <3>1. CASE src[p] = None
      <4>1. todo' = <<"delete">>
        BY <2>2, <3>1
      <4>2. Fit(<<"delete">>, src[p], dst[p])
        BY <3>1 DEF Fit
      <4>. QED
        <5>1. todo' \in Seq(Calls)
          BY <4>1 DEF Calls
        <5>2. item' = p /\ src'[p] = src[p] /\ dst'[p] = dst[p]
          BY <2>1, <2>2
        <5>. QED
          BY <2>3, <4>1, <4>2, <5>1, <5>2 DEF CallsFit
    <3>2. CASE src[p] # None
      BY <2>2, <3>2 DEF CallsFit
    <3>. QED
      BY <3>1, <3>2
  <2>5. VisitsExist'
    <3>. DEFINE f == [top EXCEPT !.left = @ \ {p}]
    <3>1. f \in Frames /\ f.loop = "dst"
      BY <2>1, Top DEF Frames
    <3>. QED
      BY <2>1, <2>2, <3>1, TopFrame
  <2>6. KindsKnown' /\ NeverAway'
    BY <2>1 DEF KindsKnown, NeverAway
  <2>. QED
    BY <2>4, <2>5, <2>6
<1>6. CASE Delete
  <2>1. UNCHANGED <<src, old, item, stack>>
    BY <1>6 DEF Delete, Done, given
  <2>2. item \in Paths /\ src[item] = None /\ todo # <<>> /\ Head(todo) = "delete"
    BY <1>6, ThisCall DEF Delete, Fit, Does
  <2>3. PICK p \in Below(item) : dst[p] # None /\ dst' = [dst EXCEPT ![p] = None]
    BY <1>6 DEF Delete
  <2>4. KindsKnown' /\ NeverAway'
    <3>1. p \in Paths /\ src[p] = None
      BY <2>2, NothingBelow DEF Below
    <3>2. "kind" \in DOMAIN None /\ (src[p].kind = old[p].kind => None.kind = old[p].kind)
      BY <3>1 DEF None
    <3>. QED
      BY <2>1, <2>3, <3>1, <3>2, OneItem
  <2>5. CallsFit'
    BY <1>6, <2>1, <2>2, NextCall DEF Delete, Done
  <2>6. VisitsExist'
    BY <2>1 DEF VisitsExist
  <2>. QED
    BY <2>4, <2>5, <2>6
<1>7. CASE Return
  <2>1. UNCHANGED <<src, old, dst, item, todo>> /\ stack # <<>> /\ stack' = SubSeq(stack, 1, Len(stack) - 1)
    BY <1>7 DEF Return, given, Ready
  <2>2. VisitsExist'
    <3>1. /\ stack' \in Seq(Frames)
          /\ \A k \in DOMAIN stack' : k \in DOMAIN stack /\ stack'[k] = stack[k]
      BY <2>1 DEF VisitsExist
    <3>. QED
      BY <2>1, <3>1 DEF VisitsExist
  <2>3. KindsKnown' /\ NeverAway' /\ CallsFit'
    BY <2>1 DEF KindsKnown, NeverAway, CallsFit
  <2>. QED
    BY <2>2, <2>3
<1>8. CASE Stamp
  <2>1. UNCHANGED <<src, old, item, todo, stack>>
    BY <1>8 DEF Stamp, given
  <2>2. \/ UNCHANGED dst
        \/ \E p \in Paths : \/ dst' = [dst EXCEPT ![p] = [dst[p] EXCEPT !.mtime = src[p].mtime]]
                           \/ dst' = [dst EXCEPT ![p] = [dst[p] EXCEPT !.mode = src[p].mode]]
    BY <1>8 DEF Stamp, Pairs
  <2>3. /\ dst' = [p \in Paths |-> dst'[p]]
        /\ \A p \in Paths : "kind" \in DOMAIN dst'[p] /\ dst'[p].kind = dst[p].kind
    <3>1. CASE UNCHANGED dst
      BY <3>1 DEF KindsKnown
    <3>2. ASSUME NEW p \in Paths,
                 \/ dst' = [dst EXCEPT ![p] = [dst[p] EXCEPT !.mtime = src[p].mtime]]
                 \/ dst' = [dst EXCEPT ![p] = [dst[p] EXCEPT !.mode = src[p].mode]]
          PROVE  /\ dst' = [q \in Paths |-> dst'[q]]
                 /\ \A q \in Paths : "kind" \in DOMAIN dst'[q] /\ dst'[q].kind = dst[q].kind
      <4>1. PICK i : /\ dst' = [dst EXCEPT ![p] = i]
                     /\ i = [dst[p] EXCEPT !.mtime = src[p].mtime] \/ i = [dst[p] EXCEPT !.mode = src[p].mode]
        BY <3>2
      <4>2. "kind" \in DOMAIN i /\ i.kind = dst[p].kind
        BY <4>1 DEF KindsKnown
      <4>3. \A q \in Paths : dst'[q] = IF q = p THEN i ELSE dst[q]
        BY <4>1 DEF KindsKnown
      <4>4. dst' = [q \in Paths |-> dst'[q]]
        BY <4>1, <4>3 DEF KindsKnown
      <4>. QED
        BY <4>2, <4>3, <4>4 DEF KindsKnown
    <3>. QED
      BY <2>2, <3>1, <3>2
  <2>4. KindsKnown' /\ NeverAway' /\ CallsFit'
    BY <2>1, <2>3 DEF KindsKnown, NeverAway, CallsFit, Fit
  <2>5. VisitsExist'
    BY <2>1 DEF VisitsExist
  <2>. QED
    BY <2>4, <2>5
<1>9. CASE Stop \/ RunAgain
  <2>1. UNCHANGED <<src, old, dst>> /\ todo' = <<>> /\ stack' = <<Call(<<>>)>>
    BY <1>9 DEF Stop, RunAgain, Restart
  <2>2. VisitsExist'
    <3>1. Call(<<>>) \in Frames /\ (Call(<<>>).loop = "src" => \A p \in Call(<<>>).left : src[p] # None)
      BY CallFrame
    <3>. QED
      BY <2>1, <3>1 DEF VisitsExist
  <2>3. KindsKnown' /\ NeverAway' /\ CallsFit'
    BY <2>1 DEF KindsKnown, NeverAway, CallsFit
  <2>. QED
    BY <2>2, <2>3
<1>10. CASE UNCHANGED vars
  BY <1>10 DEF vars, KindsKnown, VisitsExist, CallsFit, NeverAway
<1>. QED
  BY <1>1, <1>2, <1>3, <1>4, <1>5, <1>6, <1>7, <1>8, <1>9, <1>10
     DEF Next, Program, sync_directories

(* What is proved by induction: items keep their kinds where they count,    *)
(* the walk stays in src, and the calls about to be made fit the item       *)
(* (rsync.c:56-184, 199-235).                                               *)
THEOREM Invariance == Spec => []IInv
BY InitInv, NextInv, PTL DEF Spec

(* What both trees have as the same kind of item is never away, not even    *)
(* between two system calls, whatever the trees are and however often the   *)
(* program is stopped there (rsync.c:76-99, 145-146, 177).                  *)
THEOREM NeverAwayAlways == Spec => []NeverAway
BY Invariance, PTL DEF IInv
----------------------------------------------------------------------------
(* Paths                                                                    *)

\* The beginnings of a path, element by element.
LEMMA Beginning ==
  ASSUME NEW p \in Paths, NEW n \in 0 .. Len(p)
  PROVE  /\ p \in Seq(Names) /\ Len(p) \in Nat \ {0}
         /\ SubSeq(p, 1, n) \in Seq(Names) /\ Len(SubSeq(p, 1, n)) = n
         /\ \A i \in 1 .. n : SubSeq(p, 1, n)[i] = p[i]
         /\ SubSeq(p, 1, n) = <<>> <=> n = 0
         /\ n # 0 => SubSeq(p, 1, n) \in Paths
<1>1. p \in Seq(Names) /\ Len(p) \in Nat \ {0}
  BY TreesAssumption
<1>2. \A i \in 1 .. n : p[i] \in Names
  BY <1>1
<1>3. /\ SubSeq(p, 1, n) \in Seq(Names) /\ Len(SubSeq(p, 1, n)) = n
      /\ \A i \in 1 .. n : SubSeq(p, 1, n)[i] = p[i]
  BY <1>1, <1>2, SubSeqProperties
<1>4. SubSeq(p, 1, n) = <<>> <=> n = 0
  BY <1>3
<1>5. n # 0 => SubSeq(p, 1, n) \in Paths
  BY <1>1, TreesAssumption
<1>. QED
  BY <1>1, <1>3, <1>4, <1>5

LEMMA BeginningOfBeginning ==
  ASSUME NEW p \in Paths, NEW n \in 0 .. Len(p), NEW m \in 0 .. n
  PROVE  SubSeq(SubSeq(p, 1, n), 1, m) = SubSeq(p, 1, m)
<1>1. CASE m = 0
  BY <1>1, SubSeqEmpty
<1>2. CASE m # 0
  <2>1. SubSeq(p, 1, n) \in Paths /\ Len(SubSeq(p, 1, n)) = n
    BY <1>2, Beginning
  <2>2. \A i \in 1 .. m : SubSeq(SubSeq(p, 1, n), 1, m)[i] = p[i] /\ SubSeq(p, 1, m)[i] = p[i]
    BY <2>1, Beginning
  <2>3. /\ SubSeq(SubSeq(p, 1, n), 1, m) \in Seq(Names) /\ SubSeq(p, 1, m) \in Seq(Names)
        /\ Len(SubSeq(SubSeq(p, 1, n), 1, m)) = m /\ Len(SubSeq(p, 1, m)) = m
    BY <2>1, Beginning
  <2>. QED
    BY <2>2, <2>3, SeqEqual
<1>. QED
  BY <1>1, <1>2

LEMMA Whole == ASSUME NEW p \in Paths PROVE SubSeq(p, 1, Len(p)) = p
BY Beginning, SubSeqFull

\* The parent, and what is below.
LEMMA Parent ==
  ASSUME NEW p \in Paths
  PROVE  /\ Up(p) = SubSeq(p, 1, Len(p) - 1) /\ Len(Up(p)) = Len(p) - 1
         /\ Up(p) = <<>> \/ (Up(p) \in Paths /\ p \in Below(Up(p)))
         /\ p \in Below(p)
<1>1. Len(p) \in Nat \ {0} /\ Len(p) - 1 \in 0 .. Len(p)
  BY Beginning
<1>2. Up(p) = SubSeq(p, 1, Len(p) - 1) /\ Len(Up(p)) = Len(p) - 1
  BY <1>1, Beginning DEF Up
<1>3. Up(p) = <<>> \/ Up(p) \in Paths
  BY <1>1, Beginning DEF Up
<1>4. p \in Below(p) /\ (Up(p) \in Paths => p \in Below(Up(p)))
  BY <1>1, <1>2, Whole DEF Below
<1>. QED
  BY <1>2, <1>3, <1>4

LEMMA BelowBelow ==
  ASSUME NEW p \in Paths, NEW q \in Below(p), NEW r \in Below(q)
  PROVE  r \in Below(p)
<1>1. q \in Paths /\ r \in Paths /\ Len(p) \in Nat /\ Len(q) \in Nat /\ Len(r) \in Nat
  BY Beginning DEF Below
<1>2. Len(p) <= Len(q) /\ Len(q) <= Len(r) /\ SubSeq(q, 1, Len(p)) = p /\ SubSeq(r, 1, Len(q)) = q
  BY DEF Below
<1>. QED
  BY <1>1, <1>2, BeginningOfBeginning DEF Below

\* Of two paths above a third, one is above the other.
LEMMA AboveTheSame ==
  ASSUME NEW p \in Paths, NEW q \in Paths, NEW r \in Below(p), r \in Below(q)
  PROVE  q \in Below(p) \/ p \in Below(q)
<1>1. r \in Paths /\ Len(p) \in Nat /\ Len(q) \in Nat /\ Len(r) \in Nat
  BY Beginning DEF Below
<1>2. Len(p) <= Len(r) /\ Len(q) <= Len(r) /\ SubSeq(r, 1, Len(p)) = p /\ SubSeq(r, 1, Len(q)) = q
  BY DEF Below
<1>3. Len(p) <= Len(q) => SubSeq(q, 1, Len(p)) = SubSeq(r, 1, Len(p))
  BY <1>1, <1>2, BeginningOfBeginning
<1>4. Len(q) <= Len(p) => SubSeq(p, 1, Len(q)) = SubSeq(r, 1, Len(q))
  BY <1>1, <1>2, BeginningOfBeginning
<1>. QED
  BY <1>1, <1>2, <1>3, <1>4 DEF Below

\* Whatever is properly below p is below the parent of q as well.
LEMMA BelowParent ==
  ASSUME NEW p \in Paths, NEW q \in Below(p), q # p
  PROVE  Up(q) \in Paths /\ Up(q) \in Below(p)
<1>1. /\ q \in Paths /\ Len(p) \in Nat \ {0} /\ Len(q) \in Nat
      /\ Len(p) <= Len(q) /\ SubSeq(q, 1, Len(p)) = p
  BY Beginning DEF Below
<1>2. Len(p) # Len(q)
  BY <1>1, Whole
<1>3. Up(q) = SubSeq(q, 1, Len(q) - 1) /\ Len(Up(q)) = Len(q) - 1
  BY <1>1, Parent
<1>4. Len(q) - 1 \in 1 .. Len(q) /\ Len(p) \in 0 .. Len(q) - 1
  BY <1>1, <1>2
<1>5. Up(q) \in Paths
  BY <1>1, <1>3, <1>4, Beginning
<1>6. SubSeq(Up(q), 1, Len(p)) = p
  BY <1>1, <1>3, <1>4, BeginningOfBeginning
<1>7. Len(Up(q)) >= Len(p)
  BY <1>1, <1>2, <1>3
<1>. QED
  BY <1>5, <1>6, <1>7 DEF Below

\* The item of directory d that is q or above it; d is empty for the top.
LEMMA ItemAbove ==
  ASSUME NEW d \in Paths \union {<<>>}, NEW q \in Paths, Len(d) < Len(q), SubSeq(q, 1, Len(d)) = d
  PROVE  \E c \in Paths : Up(c) = d /\ q \in Below(c) /\ Len(c) = Len(d) + 1
<1>. DEFINE c == SubSeq(q, 1, Len(d) + 1)
<1>1. Len(d) \in Nat /\ Len(q) \in Nat
  BY Beginning
<1>2. c \in Paths /\ Len(c) = Len(d) + 1
  BY <1>1, Beginning
<1>3. Up(c) = d
  BY <1>1, <1>2, BeginningOfBeginning DEF Up
<1>4. q \in Below(c)
  BY <1>1, <1>2 DEF Below
<1>. HIDE DEF c
<1>. QED
  BY <1>2, <1>3, <1>4

\* Of the items of a directory only one is above a path.
LEMMA OneAbove ==
  ASSUME NEW c \in Paths, NEW e \in Paths, Len(c) = Len(e), NEW q \in Below(c), q \in Below(e)
  PROVE  c = e
BY DEF Below

\* What a tree does not have, or has as a file, has nothing below it.
LEMMA TreeBelow ==
  ASSUME NEW tree, IsTree(tree), NEW p \in Paths, ~IsDir(tree[p]), NEW q \in Below(p), q # p
  PROVE  tree[q] = None
BY DEF IsTree
LEMMA TreeAbove ==
  ASSUME NEW tree, IsTree(tree), NEW p \in Paths, NEW q \in Below(p), tree[q] # None
  PROVE  tree[p] # None
BY DEF IsTree, IsDir, None
\* What is empty has nothing below it.
LEMMA EmptyBelow ==
  ASSUME NEW tree, IsTree(tree), NEW p \in Paths, In(tree, p) = {}, NEW q \in Below(p), q # p
  PROVE  tree[q] = None
<1>1. /\ q \in Paths /\ Len(p) \in Nat \ {0} /\ Len(q) \in Nat
      /\ Len(p) <= Len(q) /\ SubSeq(q, 1, Len(p)) = p
  BY Beginning DEF Below
<1>2. Len(p) # Len(q)
  BY <1>1, Whole
<1>3. PICK c \in Paths : Up(c) = p /\ q \in Below(c)
  BY <1>1, <1>2, ItemAbove
<1>4. tree[c] = None
  BY <1>3 DEF In
<1>. QED
  BY <1>3, <1>4, TreeAbove
----------------------------------------------------------------------------
(* What holds of dst half-way                                               *)

\* In a full directory that stands in the place of a file.
Kept(p) == \E b \in Paths : p \in Below(b) /\ Blocked(b)
SameData(s, d, o) == d.data = s.data \/ (IsFile(o) /\ SameFile(s, o) /\ d.data = o.data)
Begins(c, d) == Len(c) <= Len(d) /\ \A k \in 1 .. Len(c) : c[k] = d[k]

TargetTree == dst \in [Paths -> Items] /\ IsTree(dst) /\ old \in Targets
\* Each item is gone, as it was, or of the kind it shall be.
KindsKept == \A p \in Paths : dst[p].kind \in {"none", src[p].kind, old[p].kind}
KeptStays == \A p \in Paths : Kept(p) => dst[p] = old[p]
\* A file is untouched, copied, or the first part of its copy.
Copied(s, d, o) == d = o \/ SameData(s, d, o) \/ Begins(d.data, s.data)
DataKnown == \A p \in Paths : IsFile(src[p]) /\ IsFile(dst[p]) => Copied(src[p], dst[p], old[p])

TreeInv == TargetTree /\ KindsKept /\ KeptStays /\ DataKnown

\* The walk is done with an item, and with all that is below it.
Right(s, d, o) == s.kind = d.kind /\ (IsFile(s) => SameData(s, d, o))
Settled(p) == Kept(p) \/ Right(src[p], dst[p], old[p])
Handled(c) == \A q \in Below(c) : Settled(q)

LEMMA KindOfItem ==
  ASSUME NEW i \in Items
  PROVE  /\ i.kind \in {"none", "file", "dir"}
         /\ i.kind = "none" <=> i = None
         /\ IsDir(i) <=> i = Dir
         /\ IsFile(i) <=> \E c \in Contents, t \in Times, m \in Modes : i = File(c, t, m)
BY DEF Items, None, Dir, File, IsFile, IsDir

LEMMA FileOfItem ==
  ASSUME NEW i \in Items, IsFile(i)
  PROVE  i.data \in Contents /\ i.mtime \in Times /\ i.mode \in Modes /\ i = File(i.data, i.mtime, i.mode)
BY DEF Items, None, Dir, File, IsFile

LEMMA Trees ==
  ASSUME KindsKnown, TreeInv
  PROVE  /\ src \in [Paths -> Items] /\ IsTree(src)
         /\ old \in [Paths -> Items] /\ IsTree(old)
         /\ dst \in [Paths -> Items] /\ IsTree(dst)
BY SourceTree, TreesAssumption DEF TreeInv, TargetTree

\* An item of a directory of src is kept only if it is the full directory itself.
LEMMA KeptHere ==
  ASSUME KindsKnown, NEW p \in Paths, Up(p) = <<>> \/ IsDir(src[Up(p)]), Kept(p)
  PROVE  Blocked(p)
<1>1. PICK b \in Paths : p \in Below(b) /\ Blocked(b)
  BY DEF Kept
<1>2. CASE p = b
  BY <1>1, <1>2
<1>3. CASE p # b
  <2>1. Up(p) \in Paths /\ Up(p) \in Below(b)
    BY <1>1, <1>3, BelowParent
  <2>2. Up(p) # <<>>
    BY <2>1, TreesAssumption
  <2>3. IsFile(src[b]) /\ src[Up(p)] # None /\ IsDir(src[Up(p)])
    BY <1>1, <2>2 DEF Blocked, IsDir, None
  <2>4. ~IsDir(src[b])
    BY <2>3 DEF IsFile, IsDir
  <2>. QED
    BY <1>1, <2>1, <2>3, <2>4, SourceTree, TreeBelow
<1>. QED
  BY <1>2, <1>3

\* What src does not have, in a directory it has, is not kept, and nothing below it is.
LEMMA NothingKept ==
  ASSUME KindsKnown, NEW p \in Paths, Up(p) = <<>> \/ IsDir(src[Up(p)]), src[p] = None, NEW q \in Below(p)
  PROVE  ~Kept(q)
<1>. SUFFICES ASSUME NEW b \in Paths, q \in Below(b), Blocked(b) PROVE FALSE
  BY DEF Kept
<1>1. IsFile(src[b])
  BY DEF Blocked
<1>2. CASE b \in Below(p)
  BY <1>1, <1>2, NothingBelow DEF IsFile, None
<1>3. CASE p \in Below(b)
  <2>1. Blocked(p)
    BY <1>3, KeptHere DEF Kept
  <2>. QED
    BY <2>1 DEF Blocked, IsFile, None
<1>. QED
  BY <1>2, <1>3, AboveTheSame DEF Below

\* The directories that stay are those that are full and where src has a file.
LEMMA BlockedFull ==
  ASSUME KindsKnown, TreeInv, NEW p \in Paths, Blocked(p)
  PROVE  Kept(p) /\ dst[p] = old[p] /\ IsDir(dst[p]) /\ In(dst, p) # {} /\ ~IsFile(dst[p]) /\ dst[p] # None
<1>1. Kept(p) /\ dst[p] = old[p]
  BY Parent DEF Kept, TreeInv, KeptStays
<1>2. PICK q \in Paths : Up(q) = p /\ old[q] # None
  BY DEF Blocked, In
<1>3. q \in Below(p)
  BY <1>2, Parent, TreesAssumption
<1>4. dst[q] = old[q]
  BY <1>3 DEF Kept, TreeInv, KeptStays
<1>. QED
  BY <1>1, <1>2, <1>4 DEF Blocked, In, IsDir, IsFile, None

LEMMA FullBlocked ==
  ASSUME KindsKnown, TreeInv, NEW p \in Paths, IsFile(src[p]), IsDir(dst[p]), In(dst, p) # {}
  PROVE  Blocked(p)
<1>1. PICK q \in Paths : Up(q) = p /\ dst[q] # None
  BY DEF In
<1>2. q \in Below(p) /\ q # p
  <2>1. Len(q) \in Nat \ {0} /\ Len(Up(q)) = Len(q) - 1
    BY Beginning, Parent
  <2>. QED
    BY <1>1, <2>1, Parent, TreesAssumption
<1>3. src[q] = None
  BY <1>2, SourceTree, TreeBelow DEF IsFile, IsDir
<1>4. old[q] # None /\ IsDir(old[p])
  BY <1>1, <1>3, Trees, KindOfItem DEF TreeInv, KindsKept, IsFile, IsDir
<1>. QED
  BY <1>1, <1>4 DEF Blocked, In

\* What neither tree has is settled.
LEMMA NoneHandled ==
  ASSUME KindsKnown, TreeInv, NEW c \in Paths, src[c] = None, dst[c] = None
  PROVE  Handled(c)
<1>. SUFFICES ASSUME NEW q \in Below(c) PROVE Settled(q)
  BY DEF Handled
<1>1. src[q] = None /\ dst[q] = None
  BY Trees, NothingBelow, TreeAbove DEF Below
<1>. QED
  BY <1>1 DEF Settled, Right, IsFile, None

\* A settled file or full directory has nothing below it that is not.
LEMMA FileHandled ==
  ASSUME KindsKnown, TreeInv, NEW c \in Paths, IsFile(src[c]), Settled(c)
  PROVE  Handled(c)
<1>. SUFFICES ASSUME NEW q \in Below(c), q # c PROVE Settled(q)
  BY DEF Handled
<1>1. CASE Kept(c)
  BY <1>1, BelowBelow DEF Kept, Settled
<1>2. CASE Right(src[c], dst[c], old[c])
  <2>1. ~IsDir(src[c]) /\ ~IsDir(dst[c])
    BY <1>2 DEF Right, IsFile, IsDir
  <2>2. src[q] = None /\ dst[q] = None
    BY <2>1, Trees, TreeBelow
  <2>. QED
    BY <2>2 DEF Settled, Right, IsFile, None
<1>. QED
  BY <1>1, <1>2 DEF Settled

----------------------------------------------------------------------------
(* What one system call does to dst                                         *)

\* The tree stays a tree when an item changes its contents, an empty one goes,
\* or one comes into a directory.
LEMMA StaysTree ==
  ASSUME NEW tree \in [Paths -> Items], IsTree(tree), NEW p \in Paths, NEW i \in Items,
         \/ i.kind = tree[p].kind
         \/ i = None /\ (~IsDir(tree[p]) \/ In(tree, p) = {})
         \/ tree[p] = None /\ (Up(p) = <<>> \/ IsDir(tree[Up(p)]))
  PROVE  [tree EXCEPT ![p] = i] \in [Paths -> Items] /\ IsTree([tree EXCEPT ![p] = i])
<1>. DEFINE new == [tree EXCEPT ![p] = i]
<1>1. new \in [Paths -> Items] /\ \A q \in Paths : new[q] = IF q = p THEN i ELSE tree[q]
  OBVIOUS
<1>. HIDE DEF new
<1>. SUFFICES ASSUME NEW a \in Paths, NEW b \in Below(a) \ {a}, new[b] # None PROVE IsDir(new[a])
  BY <1>1 DEF IsTree, new
<1>2. b \in Paths
  BY DEF Below
<1>3. i.kind = tree[p].kind => (i = None <=> tree[p] = None) /\ (IsDir(i) <=> IsDir(tree[p]))
  BY KindOfItem DEF IsDir
<1>4. CASE tree[b] # None
  <2>1. IsDir(tree[a])
    BY <1>4 DEF IsTree
  <2>2. CASE a # p
    BY <1>1, <2>1, <2>2
  <2>3. CASE a = p /\ i.kind = tree[p].kind
    BY <1>1, <1>3, <2>1, <2>3
  <2>4. CASE a = p /\ i = None /\ (~IsDir(tree[p]) \/ In(tree, p) = {})
    <3>1. tree[b] = None
      BY <2>1, <2>4, EmptyBelow
    <3>. QED
      BY <1>4, <3>1
  <2>5. CASE a = p /\ tree[p] = None
    BY <2>1, <2>5 DEF IsDir, None
  <2>. QED
    BY <2>2, <2>3, <2>4, <2>5
<1>5. CASE tree[b] = None
  <2>1. b = p /\ i # None
    BY <1>1, <1>2, <1>5
  <2>2. Up(b) = <<>> \/ IsDir(tree[Up(b)])
    BY <1>3, <1>5, <2>1
  <2>3. Up(b) \in Paths /\ Up(b) \in Below(a)
    BY <1>2, BelowParent
  <2>4. Up(b) # <<>>
    BY <2>3, TreesAssumption
  <2>5. tree[Up(b)] # None
    BY <2>2, <2>4 DEF IsDir, None
  <2>6. IsDir(tree[a])
    BY <2>2, <2>3, <2>4, <2>5 DEF IsTree
  <2>. QED
    BY <1>1, <2>1, <2>6
<1>. QED
  BY <1>4, <1>5

\* A call that makes one item what it may be.
LEMMA ItemBecomes ==
  ASSUME KindsKnown, TreeInv, NEW p \in Paths, NEW i \in Items,
         dst' = [dst EXCEPT ![p] = i], UNCHANGED <<src, old>>, ~Kept(p),
         \/ i.kind = dst[p].kind
         \/ i = None /\ (~IsDir(dst[p]) \/ In(dst, p) = {})
         \/ dst[p] = None /\ (Up(p) = <<>> \/ IsDir(dst[Up(p)])),
         i.kind \in {"none", src[p].kind, old[p].kind},
         IsFile(src[p]) /\ IsFile(i) => Copied(src[p], i, old[p])
  PROVE  TreeInv' /\ \A q \in Paths : /\ dst'[q] = IF q = p THEN i ELSE dst[q]
                                      /\ Kept(q)' <=> Kept(q)
<1>1. \A q \in Paths : dst'[q] = IF q = p THEN i ELSE dst[q]
  BY Trees
<1>2. TargetTree'
  BY Trees, StaysTree DEF TreeInv, TargetTree
<1>3. \A q \in Paths : Kept(q)' <=> Kept(q)
  BY DEF Kept, Blocked, In
<1>4. KindsKept'
  BY <1>1 DEF TreeInv, KindsKept
<1>5. KeptStays'
  BY <1>1, <1>3 DEF TreeInv, KeptStays
<1>6. DataKnown'
  BY <1>1 DEF TreeInv, DataKnown
<1>. QED
  BY <1>1, <1>2, <1>3, <1>4, <1>5, <1>6 DEF TreeInv

----------------------------------------------------------------------------
(* The walk                                                                 *)

\* The directories of the calls are each the beginning of the next.
OnTheWay ==
  /\ phase \in {"sync", "stamp", "done"} /\ (phase = "sync" <=> stack # <<>>)
  /\ \A k \in DOMAIN stack :
       /\ Len(stack[k].dir) = k - 1
       /\ \A j \in 1 .. k : stack[j].dir = SubSeq(stack[k].dir, 1, j - 1)
       /\ stack[k].dir # <<>> => IsDir(src[stack[k].dir]) /\ IsDir(dst[stack[k].dir])
       /\ k < Len(stack) => stack[k].loop = "src"
       /\ \A c \in stack[k].left : Up(c) = stack[k].dir
  /\ todo # <<>> => stack # <<>> /\ item \in Paths /\ Up(item) = top.dir

\* What the calls about to be made find.
FileCalls(s, d) ==
  \/ todo = <<"remove", "open", "write">> /\ ~IsFile(d) /\ d # None
  \/ todo = <<"open", "write">> /\ (d = None \/ Blocked(item))
  \/ todo = <<"open", "write", "utime", "chmod">> /\ IsFile(d)
  \/ todo = <<"write">> /\ (Blocked(item) \/ (IsFile(d) /\ Begins(d.data, s.data)))
  \/ todo = <<"write", "utime", "chmod">> /\ IsFile(d) /\ Begins(d.data, s.data)
  \/ todo \in {<<"utime", "chmod">>, <<"chmod">>} /\ IsFile(d) /\ d.data = s.data
DirCalls(d) ==
  \/ todo = <<"remove", "mkdir", "sync">> /\ IsFile(d)
  \/ todo = <<"mkdir", "sync">> /\ d = None
  \/ todo = <<"sync">> /\ IsDir(d)
CallRight ==
  todo # <<>> =>
    \/ top.loop = "dst" /\ src[item] = None /\ todo = <<"delete">>
    \/ top.loop = "src" /\ IsFile(src[item]) /\ FileCalls(src[item], dst[item])
    \/ top.loop = "src" /\ IsDir(src[item]) /\ DirCalls(dst[item])

\* The item a call of sync_directories is at, and those it has still to come to.
Busy(k) ==
  IF k < Len(stack) THEN stack[k + 1].dir ELSE IF todo # <<>> THEN item ELSE <<>>
Ahead(k) ==
  IF stack[k].loop = "src" THEN stack[k].left \union {c \in Paths : src[c] = None}
  ELSE {c \in stack[k].left : src[c] = None}
WalkDone ==
  /\ \A k \in DOMAIN stack : \A c \in Paths :
       Up(c) = stack[k].dir /\ c # Busy(k) /\ c \notin Ahead(k) => Handled(c)
  /\ phase # "sync" => \A p \in Paths : Settled(p)

WalkInv == OnTheWay /\ CallRight /\ WalkDone

\* Where the walk is.
LEMMA Here ==
  ASSUME KindsKnown, VisitsExist, OnTheWay, stack # <<>>
  PROVE  /\ Len(stack) \in Nat \ {0} /\ Len(stack) \in DOMAIN stack /\ DOMAIN stack = 1 .. Len(stack)
         /\ top = stack[Len(stack)] /\ top \in Frames /\ phase = "sync"
         /\ top.dir # <<>> => top.dir \in Paths /\ IsDir(src[top.dir]) /\ IsDir(dst[top.dir])
         /\ \A c \in top.left : c \in Paths /\ Up(c) = top.dir /\ (top.loop = "src" => src[c] # None)
<1>1. /\ Len(stack) \in Nat \ {0} /\ Len(stack) \in DOMAIN stack /\ DOMAIN stack = 1 .. Len(stack)
      /\ top = stack[Len(stack)] /\ top \in Frames /\ phase = "sync"
  BY DEF VisitsExist, OnTheWay, top
<1>2. top.dir \in Paths \union {<<>>} /\ top.left \in SUBSET Paths
  BY <1>1 DEF Frames
<1>3. /\ top.dir # <<>> => IsDir(src[top.dir]) /\ IsDir(dst[top.dir])
      /\ \A c \in top.left : Up(c) = top.dir /\ (top.loop = "src" => src[c] # None)
  BY <1>1 DEF OnTheWay, VisitsExist
<1>. QED
  BY <1>1, <1>2, <1>3

LEMMA AtItem ==
  ASSUME KindsKnown, VisitsExist, OnTheWay, todo # <<>>
  PROVE  /\ stack # <<>> /\ item \in Paths /\ Up(item) = top.dir /\ Len(item) = Len(stack)
         /\ Up(item) = <<>> \/ (Up(item) \in Paths /\ IsDir(src[Up(item)]) /\ IsDir(dst[Up(item)]))
<1>1. stack # <<>> /\ item \in Paths /\ Up(item) = top.dir
  BY DEF OnTheWay
<1>2. Len(top.dir) = Len(stack) - 1 /\ Len(stack) \in Nat
  BY <1>1, Here DEF OnTheWay
<1>3. Len(item) = Len(stack)
  BY <1>1, <1>2, Parent, Beginning
<1>. QED
  BY <1>1, <1>3, Here

\* No item that is done with is above the item at hand.
LEMMA Apart ==
  ASSUME KindsKnown, VisitsExist, OnTheWay, todo # <<>>,
         NEW k \in DOMAIN stack, NEW c \in Paths, Up(c) = stack[k].dir, c # Busy(k), NEW q \in Below(item)
  PROVE  q \notin Below(c)
<1>. SUFFICES ASSUME q \in Below(c) PROVE FALSE
  OBVIOUS
<1>1. /\ stack # <<>> /\ item \in Paths /\ Up(item) = top.dir /\ Len(item) = Len(stack)
      /\ k \in 1 .. Len(stack) /\ Len(stack) \in Nat /\ Len(stack[k].dir) = k - 1
  BY AtItem, Here DEF OnTheWay
<1>2. Len(c) = k
  BY <1>1, Parent, Beginning
<1>3. q \in Paths /\ Len(q) \in Nat /\ c = SubSeq(q, 1, k) /\ item = SubSeq(q, 1, Len(stack)) /\ Len(stack) <= Len(q)
  BY <1>1, <1>2, Beginning DEF Below
<1>4. c = SubSeq(item, 1, k)
  BY <1>1, <1>3, BeginningOfBeginning
<1>5. CASE k = Len(stack)
  BY <1>1, <1>4, <1>5, Whole DEF Busy
<1>6. CASE k < Len(stack)
  <2>1. stack[k + 1].dir = SubSeq(top.dir, 1, k)
    BY <1>1, <1>6, Here, SMTT(20) DEF OnTheWay
  <2>2. top.dir = SubSeq(item, 1, Len(stack) - 1)
    BY <1>1, Parent
  <2>3. SubSeq(top.dir, 1, k) = SubSeq(item, 1, k)
    BY <1>1, <1>6, <2>2, BeginningOfBeginning
  <2>. QED
    BY <1>4, <1>6, <2>1, <2>3 DEF Busy
<1>. QED
  BY <1>1, <1>5, <1>6

LEMMA HeadTail ==
  \A a, b, c, d : /\ Head(<<a>>) = a /\ Tail(<<a>>) = <<>>
                  /\ Head(<<a, b>>) = a /\ Tail(<<a, b>>) = <<b>>
                  /\ Head(<<a, b, c>>) = a /\ Tail(<<a, b, c>>) = <<b, c>>
                  /\ Head(<<a, b, c, d>>) = a /\ Tail(<<a, b, c, d>>) = <<b, c, d>>
OBVIOUS

\* What a call finds, and the calls after it.
LEMMA AtCall ==
  ASSUME CallRight, NEW call, Does(call)
  PROVE  LET s == src[item]  d == dst[item]  rest == Tail(todo) IN
         /\ todo # <<>> /\ call # "delete" => top.loop = "src"
         /\ call = "remove" => \/ IsFile(s) /\ ~IsFile(d) /\ d # None /\ rest = <<"open", "write">>
                               \/ IsDir(s) /\ IsFile(d) /\ rest = <<"mkdir", "sync">>
         /\ call = "open" => /\ IsFile(s)
                             /\ \/ (d = None \/ Blocked(item)) /\ rest = <<"write">>
                                \/ IsFile(d) /\ rest = <<"write", "utime", "chmod">>
         /\ call = "write" => /\ IsFile(s)
                              /\ \/ Blocked(item) /\ rest = <<>>
                                 \/ /\ IsFile(d) /\ Begins(d.data, s.data)
                                    /\ \/ todo = <<"write">> /\ rest = <<>>
                                       \/ todo = <<"write", "utime", "chmod">> /\ rest = <<"utime", "chmod">>
         /\ call = "utime" => IsFile(s) /\ IsFile(d) /\ d.data = s.data /\ rest = <<"chmod">>
         /\ call = "chmod" => IsFile(s) /\ IsFile(d) /\ d.data = s.data /\ rest = <<>>
         /\ call = "mkdir" => IsDir(s) /\ d = None /\ rest = <<"sync">>
         /\ call = "sync" => IsDir(s) /\ IsDir(d) /\ rest = <<>>
         /\ call = "delete" => top.loop = "dst" /\ s = None /\ todo = <<"delete">> /\ rest = <<>>
<1>1. todo # <<>> /\ Head(todo) = call
  BY DEF Does
<1>2. CASE top.loop = "dst" /\ src[item] = None /\ todo = <<"delete">>
  BY <1>1, <1>2, HeadTail
<1>3. CASE top.loop = "src" /\ IsFile(src[item]) /\ FileCalls(src[item], dst[item])
  <2>1. CASE todo = <<"remove", "open", "write">> /\ ~IsFile(dst[item]) /\ dst[item] # None
    BY <1>1, <1>3, <2>1, HeadTail
  <2>2. CASE todo = <<"open", "write">> /\ (dst[item] = None \/ Blocked(item))
    BY <1>1, <1>3, <2>2, HeadTail
  <2>3. CASE todo = <<"open", "write", "utime", "chmod">> /\ IsFile(dst[item])
    BY <1>1, <1>3, <2>3, HeadTail
  <2>4. CASE todo = <<"write">> /\ (Blocked(item) \/ (IsFile(dst[item]) /\ Begins(dst[item].data, src[item].data)))
    BY <1>1, <1>3, <2>4, HeadTail
  <2>5. CASE todo = <<"write", "utime", "chmod">> /\ IsFile(dst[item]) /\ Begins(dst[item].data, src[item].data)
    BY <1>1, <1>3, <2>5, HeadTail
  <2>6. CASE todo = <<"utime", "chmod">> /\ IsFile(dst[item]) /\ dst[item].data = src[item].data
    BY <1>1, <1>3, <2>6, HeadTail
  <2>7. CASE todo = <<"chmod">> /\ IsFile(dst[item]) /\ dst[item].data = src[item].data
    BY <1>1, <1>3, <2>7, HeadTail
  <2>. QED
    BY <1>3, <2>1, <2>2, <2>3, <2>4, <2>5, <2>6, <2>7 DEF FileCalls
<1>4. CASE top.loop = "src" /\ IsDir(src[item]) /\ DirCalls(dst[item])
  <2>1. CASE todo = <<"remove", "mkdir", "sync">> /\ IsFile(dst[item])
    BY <1>1, <1>4, <2>1, HeadTail
  <2>2. CASE todo = <<"mkdir", "sync">> /\ dst[item] = None
    BY <1>1, <1>4, <2>2, HeadTail
  <2>3. CASE todo = <<"sync">> /\ IsDir(dst[item])
    BY <1>1, <1>4, <2>3, HeadTail
  <2>. QED
    BY <1>4, <2>1, <2>2, <2>3 DEF DirCalls
<1>. QED
  BY <1>1, <1>2, <1>3, <1>4 DEF CallRight

\* The same facts about the next state.
HandledItems ==
  \A c \in Paths : /\ IsFile(src[c]) /\ Settled(c) => Handled(c)
                   /\ src[c] = None /\ dst[c] = None => Handled(c)
LEMMA HandledNext == KindsKnown' /\ TreeInv' => HandledItems'
<1>1. KindsKnown /\ TreeInv => HandledItems
  BY FileHandled, NoneHandled DEF HandledItems
<1>. QED
  BY <1>1, PTL

\* A call leaves the walk as it is, if it spoils nothing outside the item.
LEMMA CallMade ==
  ASSUME IInv, WalkInv, todo # <<>>, UNCHANGED <<src, old, stack, item, phase>>, todo' \in {todo, Tail(todo)},
         \A q \in Paths : Kept(q)' <=> Kept(q),
         \A q \in Paths : IsDir(src[q]) /\ IsDir(dst[q]) => IsDir(dst'[q]),
         \A q \in Paths : q \notin Below(item) => dst'[q] = dst[q],
         todo' = <<>> => Handled(item)'
  PROVE  OnTheWay' /\ WalkDone'
<1>. USE DEF IInv, WalkInv
<1>1. /\ stack # <<>> /\ item \in Paths /\ Up(item) = top.dir /\ Len(item) = Len(stack)
      /\ DOMAIN stack = 1 .. Len(stack) /\ phase = "sync"
  BY AtItem, Here
<1>2. OnTheWay'
  <2>1. top' = top
    BY DEF top
  <2>2. ASSUME NEW k \in DOMAIN stack, stack[k].dir # <<>>
        PROVE  IsDir(dst'[stack[k].dir])
    <3>1. stack[k] \in Frames
      BY DEF VisitsExist
    <3>2. stack[k].dir \in Paths
      BY <2>2, <3>1 DEF Frames
    <3>3. IsDir(src[stack[k].dir]) /\ IsDir(dst[stack[k].dir])
      BY <2>2 DEF OnTheWay
    <3>. QED
      BY <3>2, <3>3
  <2>. QED
    BY <1>1, <2>1, <2>2 DEF OnTheWay
<1>3. WalkDone'
  <2>. SUFFICES ASSUME NEW k \in DOMAIN stack, NEW c \in Paths, Up(c) = stack[k].dir,
                       c # Busy(k)', c \notin Ahead(k)'
                PROVE  Handled(c)'
    BY <1>1 DEF WalkDone
  <2>1. c \notin Ahead(k)
    BY DEF Ahead
  <2>2. CASE c # Busy(k)
    <3>1. Handled(c)
      BY <2>1, <2>2 DEF WalkDone
    <3>2. \A q \in Below(c) : q \in Paths /\ q \notin Below(item)
      BY <2>2, Apart DEF Below
    <3>. QED
      BY <3>1, <3>2 DEF Handled, Settled
  <2>3. CASE c = Busy(k)
    <3>1. c = item /\ todo' = <<>>
      BY <1>1, <2>3 DEF Busy
    <3>. QED
      BY <3>1
  <2>. QED
    BY <2>2, <2>3
<1>. QED
  BY <1>2, <1>3

\* A call that changes the item at hand, or nothing.
LEMMA ItemCall ==
  ASSUME IInv, KindsKnown', TreeInv, WalkInv, todo # <<>>, UNCHANGED <<src, old, stack, item, phase>>,
         todo' \in {todo, Tail(todo)},
         \/ UNCHANGED dst
         \/ \E i \in Items :
              /\ Becomes(i) /\ ~Kept(item) /\ (IsDir(src[item]) /\ IsDir(dst[item]) => IsDir(i))
              /\ \/ i.kind = dst[item].kind
                 \/ i = None /\ (~IsDir(dst[item]) \/ In(dst, item) = {})
                 \/ dst[item] = None
              /\ i.kind \in {"none", src[item].kind, old[item].kind}
              /\ IsFile(src[item]) /\ IsFile(i) => Copied(src[item], i, old[item]),
         todo' = <<>> => IsFile(src[item]) /\ (Blocked(item) \/ Right(src[item], dst'[item], old[item]))
  PROVE  TreeInv' /\ OnTheWay' /\ WalkDone'
<1>1. /\ item \in Paths /\ (Up(item) = <<>> \/ IsDir(dst[Up(item)])) /\ item \in Below(item)
      /\ KindsKnown /\ VisitsExist /\ OnTheWay
  BY AtItem, Parent DEF IInv, WalkInv
<1>2. /\ TreeInv' /\ \A q \in Paths : Kept(q)' <=> Kept(q)
      /\ \A q \in Paths : q # item => dst'[q] = dst[q]
      /\ IsDir(src[item]) /\ IsDir(dst[item]) => IsDir(dst'[item])
  <2>1. CASE UNCHANGED dst
    BY <2>1 DEF TreeInv, TargetTree, KindsKept, KeptStays, DataKnown, Kept, Blocked, In
  <2>2. ASSUME NEW i \in Items, Becomes(i), ~Kept(item), IsDir(src[item]) /\ IsDir(dst[item]) => IsDir(i),
               \/ i.kind = dst[item].kind
               \/ i = None /\ (~IsDir(dst[item]) \/ In(dst, item) = {})
               \/ dst[item] = None,
               i.kind \in {"none", src[item].kind, old[item].kind},
               IsFile(src[item]) /\ IsFile(i) => Copied(src[item], i, old[item])
        PROVE  /\ TreeInv' /\ \A q \in Paths : Kept(q)' <=> Kept(q)
               /\ \A q \in Paths : q # item => dst'[q] = dst[q]
               /\ IsDir(src[item]) /\ IsDir(dst[item]) => IsDir(dst'[item])
    <3>1. TreeInv' /\ \A q \in Paths : /\ dst'[q] = IF q = item THEN i ELSE dst[q]
                                       /\ Kept(q)' <=> Kept(q)
      BY <1>1, <2>2, ItemBecomes DEF Becomes
    <3>. QED
      BY <1>1, <2>2, <3>1
  <2>. QED
    BY <2>1, <2>2
<1>3. todo' = <<>> => Handled(item)'
  <2>. SUFFICES ASSUME todo' = <<>> PROVE Handled(item)'
    OBVIOUS
  <2>1. Blocked(item) => Kept(item)
    BY <1>1 DEF Kept
  <2>2. Settled(item)' /\ IsFile(src'[item])
    BY <1>1, <1>2, <2>1 DEF Settled
  <2>. QED
    BY <1>1, <1>2, <2>2, HandledNext DEF HandledItems
<1>. QED
  BY <1>1, <1>2, <1>3, CallMade

\* A directory of src has only what is Blocked in it kept.
LEMMA ItemKept ==
  ASSUME IInv, TreeInv, WalkInv, todo # <<>>
  PROVE  /\ item \in Paths /\ (Kept(item) => Blocked(item))
         /\ Blocked(item) => /\ IsDir(dst[item]) /\ In(dst, item) # {} /\ ~IsFile(dst[item]) /\ dst[item] # None
                             /\ IsFile(src[item])
BY AtItem, KeptHere, BlockedFull DEF IInv, WalkInv, Blocked

LEMMA Kinds ==
  /\ \A i : IsFile(i) => ~IsDir(i) /\ i # None
  /\ \A i : IsDir(i) => i # None
  /\ \A c, t, m : IsFile(File(c, t, m)) /\ File(c, t, m).data = c /\ File(c, t, m).kind = "file"
  /\ IsDir(Dir) /\ Dir \in Items /\ None \in Items /\ None.kind = "none" /\ Dir.kind = "dir"
BY DEF IsFile, IsDir, None, Dir, File, Items

LEMMA FileInItems ==
  ASSUME NEW c \in Contents, NEW t \in Times, NEW m \in Modes
  PROVE  File(c, t, m) \in Items
BY DEF Items

LEMMA RemoveStep ==
  ASSUME IInv, IInv', TreeInv, WalkInv, Remove
  PROVE  TreeInv' /\ WalkInv'
<1>1. /\ todo # <<>> /\ todo' = Tail(todo) /\ UNCHANGED <<src, old, stack, item, phase>> /\ Does("remove")
      /\ KindsKnown /\ KindsKnown' /\ CallRight
  BY DEF Remove, Does, Done, given, IInv, WalkInv
<1>2. \/ IsFile(src[item]) /\ IsDir(dst[item]) /\ todo' = <<"open", "write">>
      \/ IsDir(src[item]) /\ IsFile(dst[item]) /\ todo' = <<"mkdir", "sync">>
  <2>1. item \in Paths
    BY <1>1, ItemKept
  <2>2. dst[item] # None /\ ~IsFile(dst[item]) => IsDir(dst[item])
    BY <1>1, <2>1, Trees, ItemKinds
  <2>. QED
    BY <1>1, <2>2, AtCall
<1>3. /\ item \in Paths /\ (Kept(item) => Blocked(item)) /\ top' = top /\ top.loop = "src"
  BY <1>1, ItemKept, AtCall DEF top
<1>4. CASE IsDir(dst[item]) /\ In(dst, item) # {}
  <2>1. UNCHANGED dst /\ IsFile(src[item]) /\ todo' = <<"open", "write">>
    BY <1>2, <1>4, Kinds DEF Remove
  <2>2. Blocked(item) /\ Blocked(item)'
    BY <1>1, <1>3, <1>4, <2>1, FullBlocked DEF Blocked, In
  <2>3. TreeInv' /\ OnTheWay' /\ WalkDone'
    <3>1. todo' # <<>>
      BY <2>1
    <3>. QED
      BY <1>1, <2>1, <3>1, ItemCall
  <2>4. CallRight'
    BY <1>1, <1>3, <2>1, <2>2 DEF CallRight, FileCalls
  <2>. QED
    BY <2>3, <2>4 DEF WalkInv
<1>5. CASE ~(IsDir(dst[item]) /\ In(dst, item) # {})
  <2>1. Becomes(None)
    BY <1>5 DEF Remove
  <2>2. ~Kept(item)
    BY <1>1, <1>3, <1>5, ItemKept
  <2>3. dst'[item] = None
    BY <1>1, <1>3, <2>1, Trees DEF Becomes
  <2>4. TreeInv' /\ OnTheWay' /\ WalkDone'
    <3>1. ~(IsDir(src[item]) /\ IsDir(dst[item])) /\ (~IsDir(dst[item]) \/ In(dst, item) = {})
      BY <1>2, <1>5, Kinds
    <3>2. ~IsFile(None) /\ None \in Items /\ None.kind \in {"none", src[item].kind, old[item].kind}
      BY Kinds
    <3>3. todo' # <<>>
      BY <1>2
    <3>. QED
      BY <1>1, <2>1, <2>2, <3>1, <3>2, <3>3, ItemCall
  <2>5. CallRight'
    BY <1>1, <1>2, <1>3, <2>3 DEF CallRight, FileCalls, DirCalls
  <2>. QED
    BY <2>4, <2>5 DEF WalkInv
<1>. QED
  BY <1>4, <1>5

LEMMA OpenStep ==
  ASSUME IInv, IInv', TreeInv, WalkInv, Open
  PROVE  TreeInv' /\ WalkInv'
<1>1. /\ todo # <<>> /\ todo' = Tail(todo) /\ UNCHANGED <<src, old, stack, item, phase>> /\ Does("open")
      /\ KindsKnown /\ KindsKnown' /\ CallRight
  BY DEF Open, Does, Done, given, IInv, WalkInv
<1>2. /\ IsFile(src[item]) /\ top' = top /\ top.loop = "src"
      /\ \/ (dst[item] = None \/ Blocked(item)) /\ todo' = <<"write">>
         \/ IsFile(dst[item]) /\ todo' = <<"write", "utime", "chmod">>
  BY <1>1, AtCall DEF top
<1>3. item \in Paths /\ (Kept(item) => Blocked(item))
  BY <1>1, ItemKept
<1>4. CASE Blocked(item)
  <2>1. UNCHANGED dst /\ todo' = <<"write">>
    BY <1>1, <1>2, <1>4, ItemKept, Kinds DEF Open
  <2>2. Blocked(item)'
    BY <1>1, <1>4 DEF Blocked, In
  <2>3. TreeInv' /\ OnTheWay' /\ WalkDone'
    BY <1>1, <2>1, ItemCall
  <2>4. CallRight'
    BY <1>1, <1>2, <2>1, <2>2 DEF CallRight, FileCalls
  <2>. QED
    BY <2>3, <2>4 DEF WalkInv
<1>5. CASE ~Blocked(item)
  <2>1. PICK m \in Modes : Becomes(File(<<>>, Now, m))
    <3>1. CASE IsFile(dst[item])
      <4>1. dst[item].mode \in Modes
        BY <1>1, <1>3, <3>1, Trees, FileOfItem
      <4>2. Becomes(File(<<>>, Now, dst[item].mode))
        BY <3>1, Kinds DEF Open
      <4>. QED
        BY <4>1, <4>2
    <3>2. CASE ~IsFile(dst[item])
      <4>1. ~IsDir(dst[item])
        BY <1>2, <1>5, <3>2, Kinds
      <4>2. Becomes(File(<<>>, Now, Masked[src[item].mode]))
        BY <3>2, <4>1 DEF Open
      <4>3. src[item].mode \in Modes
        BY <1>1, <1>2, <1>3, Trees, FileOfItem
      <4>. QED
        BY <4>2, <4>3, TreesAssumption
    <3>. QED
      BY <3>1, <3>2
  <2>. DEFINE i == File(<<>>, Now, m)
  <2>2. i \in Items /\ IsFile(i) /\ i.kind = "file" /\ i.data = <<>>
    <3>1. <<>> \in Contents /\ Now \in Times
      BY TreesAssumption DEF Contents
    <3>. QED
      BY <3>1, FileInItems, Kinds
  <2>3. Begins(<<>>, src[item].data)
    <3>1. Len(src[item].data) \in Nat
      BY <1>1, <1>2, <1>3, Trees, FileOfItem DEF Contents
    <3>. QED
      BY <3>1 DEF Begins
  <2>4. dst'[item] = i
    BY <1>1, <1>3, <2>1, Trees DEF Becomes
  <2>. HIDE DEF i
  <2>5. src[item].kind = "file" /\ (IsFile(dst[item]) => i.kind = dst[item].kind)
    BY <1>2, <2>2 DEF IsFile
  <2>6. Copied(src[item], i, old[item])
    BY <2>2, <2>3 DEF Copied
  <2>7. TreeInv' /\ OnTheWay' /\ WalkDone'
    <3>1. Becomes(i) /\ ~Kept(item) /\ ~IsDir(src[item])
      BY <1>2, <1>3, <1>5, <2>1, Kinds DEF i
    <3>2. i.kind = dst[item].kind \/ dst[item] = None
      BY <1>2, <1>5, <2>5
    <3>3. todo' # <<>>
      BY <1>2
    <3>. QED
      BY <1>1, <2>2, <2>5, <2>6, <3>1, <3>2, <3>3, ItemCall
  <2>8. CallRight'
    BY <1>1, <1>2, <2>2, <2>3, <2>4 DEF CallRight, FileCalls
  <2>. QED
    BY <2>7, <2>8 DEF WalkInv
<1>. QED
  BY <1>4, <1>5

LEMMA WriteStep ==
  ASSUME IInv, IInv', TreeInv, WalkInv, Write
  PROVE  TreeInv' /\ WalkInv'
<1>1. /\ todo # <<>> /\ todo' \in {todo, Tail(todo)} /\ UNCHANGED <<src, old, stack, item, phase>> /\ Does("write")
      /\ KindsKnown /\ KindsKnown' /\ CallRight
  BY DEF Write, Does, Done, given, IInv, WalkInv
<1>2. /\ IsFile(src[item]) /\ top' = top /\ top.loop = "src"
      /\ \/ Blocked(item) /\ Tail(todo) = <<>>
         \/ /\ IsFile(dst[item]) /\ Begins(dst[item].data, src[item].data)
            /\ \/ todo = <<"write">> /\ Tail(todo) = <<>>
               \/ todo = <<"write", "utime", "chmod">> /\ Tail(todo) = <<"utime", "chmod">>
  BY <1>1, AtCall DEF top
<1>3. item \in Paths /\ (Kept(item) => Blocked(item))
  BY <1>1, ItemKept
<1>4. CASE Blocked(item)
  <2>1. UNCHANGED dst /\ todo' = Tail(todo)
    BY <1>1, <1>4, ItemKept DEF Write, Done
  <2>2. todo' = <<>>
    BY <1>1, <1>2, <1>4, <2>1, ItemKept
  <2>3. TreeInv' /\ OnTheWay' /\ WalkDone'
    BY <1>1, <1>2, <1>4, <2>1, ItemCall
  <2>4. CallRight'
    BY <2>2 DEF CallRight
  <2>. QED
    BY <2>3, <2>4 DEF WalkInv
<1>5. CASE ~Blocked(item)
  <2>. DEFINE d == dst[item]
              s == src[item]
  <2>1. /\ IsFile(d) /\ Begins(d.data, s.data)
        /\ \/ todo = <<"write">> /\ Tail(todo) = <<>>
           \/ todo = <<"write", "utime", "chmod">> /\ Tail(todo) = <<"utime", "chmod">>
    BY <1>2, <1>5
  <2>2. PICK n \in 0 .. MaxLen : d.data \in [1 .. n -> Blocks]
    BY <1>1, <1>3, <2>1, Trees, FileOfItem DEF Contents
  <2>3. PICK m \in 0 .. MaxLen : s.data \in [1 .. m -> Blocks]
    <3>1. s.data \in Contents
      BY <1>1, <1>2, <1>3, Trees, FileOfItem
    <3>. QED
      BY <3>1 DEF Contents
  <2>4. Len(d.data) = n /\ Len(s.data) = m /\ n <= m /\ \A k \in 1 .. n : d.data[k] = s.data[k]
    BY <2>1, <2>2, <2>3, TreesAssumption DEF Begins
  <2>5. CASE n < m
    <3>. DEFINE data == Append(d.data, s.data[n + 1])
                i == File(data, Now, d.mode)
    <3>1. Becomes(i) /\ todo' = todo
      BY <2>1, <2>4, <2>5 DEF Write
    <3>2. /\ data \in [1 .. n + 1 -> Blocks] /\ Len(data) = n + 1
          /\ \A k \in 1 .. n + 1 : data[k] = s.data[k]
      <4>1. d.data \in Seq(Blocks) /\ s.data[n + 1] \in Blocks /\ n \in Nat
        BY <2>2, <2>3, <2>4, <2>5, TreesAssumption
      <4>2. data \in Seq(Blocks) /\ Len(data) = n + 1
        BY <2>4, <4>1
      <4>3. \A k \in 1 .. n + 1 : data[k] = IF k = n + 1 THEN s.data[n + 1] ELSE d.data[k]
        BY <2>4, <4>1
      <4>. HIDE DEF d, s, data
      <4>. QED
        BY <2>4, <4>1, <4>2, <4>3
    <3>3. data \in Contents
      BY <2>5, <3>2, TreesAssumption DEF Contents
    <3>4. Begins(data, s.data)
      BY <2>4, <2>5, <3>2 DEF Begins
    <3>5. d.mode \in Modes
      BY <1>1, <1>3, <2>1, Trees, FileOfItem
    <3>. HIDE DEF data
    <3>6. i \in Items /\ IsFile(i) /\ i.kind = "file" /\ i.data = data
      BY <3>3, <3>5, TreesAssumption, FileInItems, Kinds
    <3>7. dst'[item] = i
      BY <1>1, <1>3, <3>1, Trees DEF Becomes
    <3>. HIDE DEF i
    <3>8. src[item].kind = "file" /\ i.kind = dst[item].kind
      BY <1>2, <2>1, <3>6 DEF IsFile
    <3>9. Copied(src[item], i, old[item])
      BY <3>4, <3>6 DEF Copied
    <3>10. TreeInv' /\ OnTheWay' /\ WalkDone'
      <4>1. ~Kept(item) /\ ~IsDir(src[item])
        BY <1>2, <1>3, <1>5, Kinds
      <4>. QED
        BY <1>1, <3>1, <3>6, <3>8, <3>9, <4>1, ItemCall
    <3>11. CallRight'
      BY <1>1, <1>2, <2>1, <3>1, <3>4, <3>6, <3>7 DEF CallRight, FileCalls
    <3>. QED
      BY <3>10, <3>11 DEF WalkInv
  <2>6. CASE ~(n < m)
    <3>1. UNCHANGED dst /\ todo' = Tail(todo)
      BY <2>1, <2>4, <2>6 DEF Write, Done
    <3>2. d.data = s.data
      BY <2>2, <2>3, <2>4, <2>6, SMTT(20)
    <3>3. Right(src[item], dst'[item], old[item])
      BY <1>2, <2>1, <3>1, <3>2 DEF Right, SameData, IsFile
    <3>4. TreeInv' /\ OnTheWay' /\ WalkDone'
      BY <1>1, <1>2, <3>1, <3>3, ItemCall
    <3>5. CallRight'
      BY <1>1, <1>2, <2>1, <3>1, <3>2 DEF CallRight, FileCalls
    <3>. QED
      BY <3>4, <3>5 DEF WalkInv
  <2>. QED
    BY <2>4, <2>5, <2>6
<1>. QED
  BY <1>4, <1>5

\* A file may be given another time or other permissions.
LEMMA OtherAttributes ==
  ASSUME NEW i \in Items, IsFile(i), NEW t \in Times, NEW m \in Modes
  PROVE  /\ [i EXCEPT !.mtime = t] = File(i.data, t, i.mode)
         /\ [i EXCEPT !.mode = m] = File(i.data, i.mtime, m)
         /\ File(i.data, t, i.mode) \in Items /\ File(i.data, i.mtime, m) \in Items
<1>1. i.data \in Contents /\ i.mtime \in Times /\ i.mode \in Modes /\ i = File(i.data, i.mtime, i.mode)
  BY FileOfItem
<1>. QED
  BY <1>1, FileInItems DEF File

LEMMA SetStep ==
  ASSUME IInv, IInv', TreeInv, WalkInv, SetTime \/ SetMode
  PROVE  TreeInv' /\ WalkInv'
<1>1. /\ todo # <<>> /\ todo' = Tail(todo) /\ UNCHANGED <<src, old, stack, item, phase>>
      /\ KindsKnown /\ KindsKnown' /\ CallRight
  BY DEF SetTime, SetMode, Does, Done, given, IInv, WalkInv
<1>2. /\ IsFile(src[item]) /\ IsFile(dst[item]) /\ dst[item].data = src[item].data /\ top' = top /\ top.loop = "src"
      /\ todo' \in {<<>>, <<"chmod">>}
  BY <1>1, AtCall DEF top, SetTime, SetMode
<1>3. item \in Paths /\ ~Kept(item)
  BY <1>1, <1>2, ItemKept
<1>4. PICK t \in Times, m \in Modes : Becomes(File(dst[item].data, t, m)) /\ File(dst[item].data, t, m) \in Items
  <2>1. /\ src[item] \in Items /\ dst[item] \in Items /\ src[item].mtime \in Times /\ src[item].mode \in Modes
        /\ dst[item].mtime \in Times /\ dst[item].mode \in Modes
    BY <1>1, <1>2, <1>3, Trees, FileOfItem
  <2>. QED
    BY <1>2, <2>1, OtherAttributes DEF SetTime, SetMode
<1>. DEFINE i == File(dst[item].data, t, m)
<1>5. IsFile(i) /\ i.data = dst[item].data /\ i.kind = "file" /\ i \in Items
  BY <1>4, Kinds
<1>6. dst'[item] = i
  BY <1>1, <1>3, <1>4, Trees DEF Becomes
<1>7. Becomes(i)
  BY <1>4
<1>. HIDE DEF i
<1>8. src[item].kind = "file" /\ i.kind = dst[item].kind
  BY <1>2, <1>5 DEF IsFile
<1>9. SameData(src[item], i, old[item]) /\ Copied(src[item], i, old[item]) /\ Right(src[item], dst'[item], old[item])
  BY <1>2, <1>5, <1>6, <1>8 DEF SameData, Copied, Right
<1>10. TreeInv' /\ OnTheWay' /\ WalkDone'
  <2>1. ~IsDir(src[item])
    BY <1>2, Kinds
  <2>. QED
    BY <1>1, <1>2, <1>3, <1>5, <1>7, <1>8, <1>9, <2>1, ItemCall
<1>11. CallRight'
  BY <1>1, <1>2, <1>5, <1>6 DEF CallRight, FileCalls
<1>. QED
  BY <1>10, <1>11 DEF WalkInv

LEMMA MakeDirStep ==
  ASSUME IInv, IInv', TreeInv, WalkInv, MakeDir
  PROVE  TreeInv' /\ WalkInv'
<1>1. /\ todo # <<>> /\ todo' = Tail(todo) /\ UNCHANGED <<src, old, stack, item, phase>> /\ Does("mkdir")
      /\ KindsKnown /\ KindsKnown' /\ CallRight
  BY DEF MakeDir, Does, Done, given, IInv, WalkInv
<1>2. IsDir(src[item]) /\ dst[item] = None /\ todo' = <<"sync">> /\ top' = top /\ top.loop = "src"
  BY <1>1, AtCall DEF top
<1>3. item \in Paths /\ ~Kept(item)
  BY <1>1, <1>2, ItemKept
<1>4. Becomes(Dir) /\ dst'[item] = Dir
  BY <1>1, <1>3, Trees DEF MakeDir, Becomes
<1>5. Dir.kind = src[item].kind /\ ~IsFile(Dir) /\ IsDir(Dir) /\ Dir \in Items
  BY <1>2, Kinds DEF IsDir
<1>6. TreeInv' /\ OnTheWay' /\ WalkDone'
  <2>1. todo' # <<>>
    BY <1>2
  <2>. QED
    BY <1>1, <1>2, <1>3, <1>4, <1>5, <2>1, ItemCall
<1>7. CallRight'
  BY <1>1, <1>2, <1>4, <1>5 DEF CallRight, DirCalls
<1>. QED
  BY <1>6, <1>7 DEF WalkInv

LEMMA DeleteStep ==
  ASSUME IInv, IInv', TreeInv, WalkInv, Delete
  PROVE  TreeInv' /\ WalkInv'
<1>1. /\ todo # <<>> /\ todo' \in {todo, Tail(todo)} /\ UNCHANGED <<src, old, stack, item, phase>> /\ Does("delete")
      /\ KindsKnown /\ KindsKnown' /\ CallRight /\ VisitsExist /\ OnTheWay
  BY DEF Delete, Does, Done, given, IInv, WalkInv
<1>2. src[item] = None /\ todo = <<"delete">> /\ Tail(todo) = <<>> /\ top' = top /\ top.loop = "dst"
  BY <1>1, AtCall DEF top
<1>3. item \in Paths /\ (Up(item) = <<>> \/ IsDir(src[Up(item)]))
  BY <1>1, AtItem
<1>4. PICK p \in Below(item) : /\ In(dst, p) = {} /\ dst' = [dst EXCEPT ![p] = None]
                               /\ todo' = <<>> => p = item
  BY <1>1, <1>2 DEF Delete
<1>5. p \in Paths /\ ~Kept(p) /\ src[p] = None
  BY <1>1, <1>2, <1>3, NothingKept, NothingBelow DEF Below
<1>6. TreeInv' /\ \A q \in Paths : /\ dst'[q] = IF q = p THEN None ELSE dst[q]
                                   /\ Kept(q)' <=> Kept(q)
  <2>. DEFINE i == None
  <2>1. ~IsFile(src[p]) /\ i \in Items /\ i.kind = "none" /\ i = None
    BY <1>5, Kinds
  <2>2. dst' = [dst EXCEPT ![p] = i]
    BY <1>4
  <2>. HIDE DEF i
  <2>3. TreeInv' /\ \A q \in Paths : /\ dst'[q] = IF q = p THEN i ELSE dst[q]
                                     /\ Kept(q)' <=> Kept(q)
    <3>1. i.kind \in {"none", src[p].kind, old[p].kind} /\ i = None /\ In(dst, p) = {} /\ UNCHANGED <<src, old>>
      BY <1>1, <1>4, <2>1
    <3>. QED
      BY <1>1, <1>5, <2>1, <2>2, <3>1, ItemBecomes
  <2>. QED
    BY <2>1, <2>3
<1>7. todo' = <<>> => Handled(item)'
  <2>. SUFFICES ASSUME todo' = <<>> PROVE Handled(item)'
    OBVIOUS
  <2>1. p = item /\ src' = src /\ item' = item
    BY <1>1, <1>4
  <2>2. dst'[item] = None /\ src'[item] = None
    BY <1>2, <1>3, <1>6, <2>1
  <2>. QED
    BY <1>1, <1>3, <1>6, <2>1, <2>2, HandledNext DEF HandledItems
<1>8. OnTheWay' /\ WalkDone'
  <2>1. ~IsDir(src[p])
    BY <1>5, Kinds
  <2>. QED
    BY <1>1, <1>4, <1>6, <1>7, <2>1, CallMade
<1>9. CallRight'
  BY <1>1, <1>2 DEF CallRight
<1>. QED
  BY <1>6, <1>8, <1>9 DEF WalkInv

----------------------------------------------------------------------------
(* The steps that leave dst as it is                                        *)

LEMMA TreeKept ==
  ASSUME TreeInv, UNCHANGED <<src, dst, old>>
  PROVE  /\ TreeInv' /\ \A q \in Paths : /\ Settled(q)' <=> Settled(q)
                                         /\ Handled(q)' <=> Handled(q)
BY DEF TreeInv, TargetTree, KindsKept, KeptStays, DataKnown, Settled, Handled, Kept, Blocked, In

\* The innermost call goes on: its directory and the calls around it stay.
LEMMA TopGoesOn ==
  ASSUME KindsKnown, VisitsExist, VisitsExist', TreeInv, OnTheWay, stack # <<>>, todo = <<>>,
         UNCHANGED <<src, dst, old, phase>>,
         NEW f, SetTop(f), f.dir = top.dir, \A c \in f.left : Up(c) = top.dir,
         todo' # <<>> => item' \in Paths /\ Up(item') = top.dir
  PROVE  /\ OnTheWay' /\ top' = f /\ Len(stack') = Len(stack)
         /\ DOMAIN stack' = 1 .. Len(stack) /\ Len(stack) \in Nat \ {0}
         /\ stack'[Len(stack)] = f
      /\ \A k \in 1 .. Len(stack) : k < Len(stack) => stack'[k] = stack[k]
<1>1. /\ Len(stack) \in Nat \ {0} /\ DOMAIN stack = 1 .. Len(stack) /\ top = stack[Len(stack)] /\ phase = "sync"
  BY Here
<1>2. /\ Len(stack') = Len(stack) /\ DOMAIN stack' = 1 .. Len(stack) /\ stack' # <<>>
      /\ stack'[Len(stack)] = f
      /\ \A k \in 1 .. Len(stack) : k < Len(stack) => stack'[k] = stack[k]
  <2>1. /\ stack' = [stack EXCEPT ![Len(stack)] = f] /\ stack \in Seq(Frames) /\ stack' \in Seq(Frames)
        /\ Len(stack) \in DOMAIN stack
    BY <1>1 DEF SetTop, VisitsExist
  <2>2. Len(stack') = Len(stack) /\ DOMAIN stack' = 1 .. Len(stack) /\ stack' # <<>>
    BY <1>1, <2>1
  <2>3. stack'[Len(stack)] = f /\ \A k \in DOMAIN stack : k # Len(stack) => stack'[k] = stack[k]
    <3>. DEFINE n == Len(stack)
    <3>1. stack' = [stack EXCEPT ![n] = f] /\ n \in DOMAIN stack
      BY <2>1
    <3>. HIDE DEF n
    <3>2. stack'[n] = f /\ \A k \in DOMAIN stack : k # n => stack'[k] = stack[k]
      BY <3>1
    <3>. QED
      BY <3>2 DEF n
  <2>4. \A k \in 1 .. Len(stack) : k < Len(stack) => stack'[k] = stack[k]
    BY <1>1, <2>3
  <2>. QED
    BY <2>2, <2>3, <2>4
<1>3. top' = f
  BY <1>2 DEF top
<1>4. \A k \in 1 .. Len(stack) : stack'[k].dir = stack[k].dir
  BY <1>1, <1>2
<1>5. OnTheWay'
  <2>1. ASSUME NEW k \in 1 .. Len(stack)
        PROVE  /\ Len(stack'[k].dir) = k - 1
               /\ \A j \in 1 .. k : stack'[j].dir = SubSeq(stack'[k].dir, 1, j - 1)
               /\ stack'[k].dir # <<>> => IsDir(src[stack'[k].dir]) /\ IsDir(dst[stack'[k].dir])
    <3>1. stack'[k].dir = stack[k].dir /\ \A j \in 1 .. k : j \in 1 .. Len(stack) /\ stack'[j].dir = stack[j].dir
      BY <1>1, <1>4
    <3>. QED
      BY <1>1, <3>1 DEF OnTheWay
  <2>2. ASSUME NEW k \in 1 .. Len(stack)
        PROVE  /\ k < Len(stack) => stack'[k].loop = "src"
               /\ \A c \in stack'[k].left : Up(c) = stack'[k].dir
    <3>1. CASE k < Len(stack)
      BY <1>1, <1>2, <3>1 DEF OnTheWay
    <3>2. CASE k = Len(stack)
      <4>1. \A c \in stack'[k].left : Up(c) = stack'[k].dir
        BY <1>2, <3>2
      <4>2. ~(k < Len(stack))
        BY <1>1, <3>2
      <4>. QED
        BY <4>1, <4>2
    <3>3. k < Len(stack) \/ k = Len(stack)
      <4>1. \A m \in Nat : \A j \in 1 .. m : j < m \/ j = m
        OBVIOUS
      <4>. QED
        BY <1>1, <4>1, Zenon
    <3>. QED
      BY <3>1, <3>2, <3>3
  <2>3. todo' # <<>> => stack' # <<>> /\ item' \in Paths /\ Up(item') = top'.dir
    BY <1>2, <1>3
  <2>. QED
    BY <1>1, <1>2, <2>1, <2>2, <2>3 DEF OnTheWay
<1>. QED
  BY <1>1, <1>2, <1>3, <1>5

LEMMA NextSourceStep ==
  ASSUME IInv, IInv', TreeInv, WalkInv, NextSource
  PROVE  TreeInv' /\ WalkInv'
<1>1. /\ stack # <<>> /\ todo = <<>> /\ top.loop = "src" /\ UNCHANGED <<src, dst, old, phase>>
      /\ KindsKnown /\ VisitsExist /\ VisitsExist' /\ OnTheWay /\ WalkDone
  BY DEF NextSource, Ready, given, IInv, WalkInv
<1>2. PICK p \in top.left : /\ SetTop([top EXCEPT !.left = @ \ {p}])
                            /\ item' = p /\ todo' = CallsFor(src[p], dst[p])
  BY DEF NextSource
<1>. DEFINE f == [top EXCEPT !.left = @ \ {p}]
<1>3. /\ p \in Paths /\ Up(p) = top.dir /\ src[p] # None /\ top \in Frames
      /\ top.dir # <<>> => top.dir \in Paths /\ IsDir(src[top.dir])
  BY <1>1, Here
<1>4. /\ f.dir = top.dir /\ f.loop = "src" /\ f.left = top.left \ {p}
      /\ \A c \in f.left : Up(c) = top.dir
  BY <1>1, <1>3, Here DEF Frames
<1>5. SetTop(f)
  BY <1>2
<1>. HIDE DEF f
<1>6. /\ OnTheWay' /\ top' = f /\ Len(stack') = Len(stack)
      /\ DOMAIN stack' = 1 .. Len(stack) /\ Len(stack) \in Nat \ {0}
      /\ stack'[Len(stack)] = f
      /\ \A k \in 1 .. Len(stack) : k < Len(stack) => stack'[k] = stack[k]
  BY <1>1, <1>2, <1>3, <1>4, <1>5, TopGoesOn
<1>7. TreeInv' /\ \A q \in Paths : (Settled(q)' <=> Settled(q)) /\ (Handled(q)' <=> Handled(q))
  BY <1>1, TreeKept
<1>8. Kept(p) => Blocked(p)
  BY <1>1, <1>3, KeptHere
<1>9. src[p] \in Items /\ dst[p] \in Items /\ (IsFile(src[p]) \/ IsDir(src[p]))
      /\ (dst[p] = None \/ IsFile(dst[p]) \/ IsDir(dst[p]))
  BY <1>1, <1>3, Trees, ItemKinds
<1>10. todo' # <<>> => \/ IsFile(src[p]) /\ FileCalls(src[p], dst[p])'
                       \/ IsDir(src[p]) /\ DirCalls(dst[p])'
  <2>1. CASE IsFile(src[p])
    <3>1. \/ todo' = <<>>
          \/ todo' = <<"open", "write", "utime", "chmod">> /\ IsFile(dst[p])
          \/ todo' = <<"open", "write">> /\ dst[p] = None
          \/ todo' = <<"remove", "open", "write">> /\ ~IsFile(dst[p]) /\ dst[p] # None
      BY <1>2, <2>1, Kinds DEF CallsFor
    <3>. QED
      BY <1>1, <2>1, <3>1 DEF FileCalls
  <2>2. CASE IsDir(src[p])
    <3>1. \/ todo' = <<"sync">> /\ IsDir(dst[p])
          \/ todo' = <<"mkdir", "sync">> /\ dst[p] = None
          \/ todo' = <<"remove", "mkdir", "sync">> /\ IsFile(dst[p])
      BY <1>2, <1>9, <2>2, Kinds DEF CallsFor
    <3>. QED
      BY <1>1, <2>2, <3>1 DEF DirCalls
  <2>. QED
    BY <1>9, <2>1, <2>2
<1>11. CallRight'
  BY <1>1, <1>2, <1>4, <1>6, <1>10 DEF CallRight
<1>12. todo' = <<>> => Handled(p)
  <2>. SUFFICES ASSUME todo' = <<>> PROVE Handled(p)
    OBVIOUS
  <2>1. IsFile(src[p]) /\ IsFile(dst[p]) /\ SameFile(src[p], dst[p])
    BY <1>2, <1>9, Kinds DEF CallsFor
  <2>2. Copied(src[p], dst[p], old[p])
    BY <1>3, <2>1 DEF TreeInv, DataKnown
  <2>3. SameData(src[p], dst[p], old[p])
    <3>1. CASE Begins(dst[p].data, src[p].data)
      <4>1. PICK n \in 0 .. MaxLen : dst[p].data \in [1 .. n -> Blocks]
        BY <1>9, <2>1, FileOfItem DEF Contents
      <4>2. PICK m \in 0 .. MaxLen : src[p].data \in [1 .. m -> Blocks]
        BY <1>9, <2>1, FileOfItem DEF Contents
      <4>3. n = m /\ \A k \in 1 .. n : dst[p].data[k] = src[p].data[k]
        BY <2>1, <3>1, <4>1, <4>2, TreesAssumption DEF Begins, SameFile
      <4>. QED
        BY <4>1, <4>2, <4>3 DEF SameData
    <3>. QED
      BY <2>1, <2>2, <3>1 DEF Copied, SameData
  <2>4. Settled(p)
    BY <2>1, <2>3 DEF Settled, Right, IsFile
  <2>. QED
    BY <1>1, <1>3, <2>1, <2>4, FileHandled
<1>13. WalkDone'
  <2>. SUFFICES ASSUME NEW k \in 1 .. Len(stack), NEW c \in Paths, Up(c) = stack'[k].dir,
                       c # Busy(k)', c \notin Ahead(k)'
                PROVE  Handled(c)
    BY <1>1, <1>6, <1>7, Here DEF WalkDone
  <2>1. c # <<>> /\ DOMAIN stack = 1 .. Len(stack) /\ top = stack[Len(stack)]
    BY <1>1, TreesAssumption, Here
  <2>2. CASE k < Len(stack)
    <3>1. c # Busy(k) /\ c \notin Ahead(k) /\ Up(c) = stack[k].dir
      BY <1>1, <1>4, <1>6, <2>1, <2>2 DEF Busy, Ahead
    <3>. QED
      BY <1>1, <2>1, <3>1 DEF WalkDone
  <2>3. CASE k = Len(stack) /\ c # p
    <3>1. c # Busy(k) /\ c \notin Ahead(k) /\ Up(c) = stack[k].dir
      BY <1>1, <1>4, <1>6, <2>1, <2>3 DEF Busy, Ahead
    <3>. QED
      BY <1>1, <2>1, <3>1 DEF WalkDone
  <2>4. CASE k = Len(stack) /\ c = p
    <3>1. todo' = <<>>
      BY <1>2, <1>6, <2>4 DEF Busy
    <3>. QED
      BY <1>12, <2>4, <3>1
  <2>. QED
    BY <2>2, <2>3, <2>4
<1>. QED
  BY <1>6, <1>7, <1>11, <1>13 DEF WalkInv

LEMMA RecurseStep ==
  ASSUME IInv, IInv', TreeInv, WalkInv, Recurse
  PROVE  TreeInv' /\ WalkInv'
<1>. DEFINE n == Len(stack)
<1>1. /\ todo # <<>> /\ todo' = Tail(todo) /\ UNCHANGED <<src, dst, old, item, phase>> /\ Does("sync")
      /\ KindsKnown /\ VisitsExist /\ VisitsExist' /\ CallRight /\ OnTheWay /\ WalkDone
      /\ stack' = Append(stack, Call(item))
  BY DEF Recurse, Does, Done, given, IInv, WalkInv
<1>2. IsDir(src[item]) /\ IsDir(dst[item]) /\ todo' = <<>> /\ top.loop = "src"
  BY <1>1, AtCall
<1>3. /\ stack # <<>> /\ item \in Paths /\ Up(item) = top.dir /\ Len(item) = n
      /\ n \in Nat \ {0} /\ DOMAIN stack = 1 .. n /\ top = stack[n] /\ phase = "sync"
  BY <1>1, AtItem, Here
<1>4. /\ Len(stack') = n + 1 /\ DOMAIN stack' = 1 .. n + 1 /\ stack' # <<>>
      /\ stack'[n + 1] = Call(item) /\ \A k \in 1 .. n : stack'[k] = stack[k]
  BY <1>1, <1>3 DEF VisitsExist
<1>5. Call(item).dir = item /\ Call(item).loop = "src" /\ Call(item).left = In(src, item)
  BY DEF Call
<1>6. TreeInv' /\ \A q \in Paths : (Settled(q)' <=> Settled(q)) /\ (Handled(q)' <=> Handled(q))
  BY <1>1, TreeKept
<1>7. \A j \in 1 .. n + 1 : stack'[j].dir = SubSeq(item, 1, j - 1)
  <2>. SUFFICES ASSUME NEW j \in 1 .. n + 1 PROVE stack'[j].dir = SubSeq(item, 1, j - 1)
    OBVIOUS
  <2>1. CASE j = n + 1
    BY <1>3, <1>4, <1>5, <2>1, Whole
  <2>2. CASE j # n + 1
    <3>1. stack'[j].dir = SubSeq(top.dir, 1, j - 1)
      BY <1>1, <1>3, <1>4, <2>2, SMTT(20) DEF OnTheWay
    <3>2. top.dir = SubSeq(item, 1, n - 1) /\ n - 1 \in 0 .. Len(item) /\ j - 1 \in 0 .. n - 1
      BY <1>3, <2>2, Parent
    <3>. HIDE DEF n
    <3>. QED
      BY <1>3, <3>1, <3>2, BeginningOfBeginning
  <2>. QED
    BY <2>1, <2>2
<1>. HIDE DEF n
<1>8. OnTheWay'
  <2>1. ASSUME NEW k \in 1 .. n + 1
        PROVE  /\ Len(stack'[k].dir) = k - 1
               /\ \A j \in 1 .. k : stack'[j].dir = SubSeq(stack'[k].dir, 1, j - 1)
    <3>1. CASE k = n + 1
      BY <1>3, <1>4, <1>5, <1>7, <3>1
    <3>2. CASE k # n + 1
      <4>1. k \in 1 .. n /\ stack'[k] = stack[k] /\ \A j \in 1 .. k : j \in 1 .. n /\ stack'[j] = stack[j]
        BY <1>3, <1>4, <3>2
      <4>. QED
        BY <1>1, <1>3, <4>1 DEF OnTheWay
    <3>. QED
      BY <3>1, <3>2
  <2>2. ASSUME NEW k \in 1 .. n + 1
        PROVE  /\ stack'[k].dir # <<>> => IsDir(src[stack'[k].dir]) /\ IsDir(dst[stack'[k].dir])
               /\ k < n + 1 => stack'[k].loop = "src"
               /\ \A c \in stack'[k].left : Up(c) = stack'[k].dir
    <3>1. CASE k = n + 1
      BY <1>2, <1>3, <1>4, <1>5, <3>1 DEF In
    <3>2. CASE k # n + 1
      <4>1. k \in 1 .. n /\ stack'[k] = stack[k] /\ (k # n => k < n)
        BY <1>3, <1>4, <3>2
      <4>2. stack[k].loop = "src"
        BY <1>1, <1>2, <1>3, <4>1 DEF OnTheWay, n
      <4>. QED
        BY <1>1, <1>3, <4>1, <4>2 DEF OnTheWay
    <3>. QED
      BY <3>1, <3>2
  <2>. QED
    BY <1>1, <1>2, <1>3, <1>4, <2>1, <2>2 DEF OnTheWay
<1>9. CallRight'
  BY <1>2 DEF CallRight
<1>10. WalkDone'
  <2>. SUFFICES ASSUME NEW k \in 1 .. n + 1, NEW c \in Paths, Up(c) = stack'[k].dir,
                       c # Busy(k)', c \notin Ahead(k)'
                PROVE  Handled(c)
    BY <1>1, <1>3, <1>4, <1>6 DEF WalkDone
  <2>1. CASE k = n + 1
    BY <1>1, <1>4, <1>5, <2>1 DEF Ahead, In
  <2>2. CASE k # n + 1
    <3>1. k \in 1 .. n /\ stack'[k] = stack[k]
      BY <1>3, <1>4, <2>2
    <3>2. Busy(k)' = Busy(k)
      BY <1>1, <1>2, <1>3, <1>4, <1>5, <3>1 DEF Busy, n
    <3>3. c \notin Ahead(k)
      BY <1>1, <3>1 DEF Ahead
    <3>. QED
      BY <1>1, <1>3, <3>1, <3>2, <3>3 DEF WalkDone
  <2>. QED
    BY <2>1, <2>2
<1>. QED
  BY <1>6, <1>8, <1>9, <1>10 DEF WalkInv

LEMMA SecondLoopStep ==
  ASSUME IInv, IInv', TreeInv, WalkInv, SecondLoop
  PROVE  TreeInv' /\ WalkInv'
<1>1. /\ stack # <<>> /\ todo = <<>> /\ todo' = <<>> /\ top.loop = "src" /\ top.left = {}
      /\ UNCHANGED <<src, dst, old, phase, item, todo>>
      /\ KindsKnown /\ VisitsExist /\ VisitsExist' /\ OnTheWay /\ WalkDone
  BY DEF SecondLoop, Ready, given, IInv, WalkInv
<1>. DEFINE f == [top EXCEPT !.loop = "dst", !.left = In(dst, top.dir)]
<1>2. /\ f.dir = top.dir /\ f.loop = "dst" /\ f.left = In(dst, top.dir)
      /\ \A c \in f.left : Up(c) = top.dir
  BY <1>1, Here DEF Frames, In
<1>3. SetTop(f)
  BY DEF SecondLoop
<1>. HIDE DEF f
<1>4. /\ OnTheWay' /\ top' = f /\ Len(stack') = Len(stack)
      /\ DOMAIN stack' = 1 .. Len(stack) /\ Len(stack) \in Nat \ {0}
      /\ stack'[Len(stack)] = f
      /\ \A k \in 1 .. Len(stack) : k < Len(stack) => stack'[k] = stack[k]
  BY <1>1, <1>2, <1>3, TopGoesOn
<1>5. TreeInv' /\ \A q \in Paths : (Settled(q)' <=> Settled(q)) /\ (Handled(q)' <=> Handled(q))
  BY <1>1, TreeKept
<1>6. CallRight'
  BY <1>1 DEF CallRight
<1>7. WalkDone'
  <2>. SUFFICES ASSUME NEW k \in 1 .. Len(stack), NEW c \in Paths, Up(c) = stack'[k].dir,
                       c # Busy(k)', c \notin Ahead(k)'
                PROVE  Handled(c)
    BY <1>1, <1>4, <1>5, Here DEF WalkDone
  <2>1. c # <<>> /\ DOMAIN stack = 1 .. Len(stack) /\ top = stack[Len(stack)]
    BY <1>1, TreesAssumption, Here
  <2>2. CASE k < Len(stack)
    <3>1. c # Busy(k) /\ c \notin Ahead(k) /\ Up(c) = stack[k].dir
      BY <1>1, <1>2, <1>4, <2>1, <2>2 DEF Busy, Ahead
    <3>. QED
      BY <1>1, <2>1, <3>1 DEF WalkDone
  <2>3. CASE k = Len(stack) /\ src[c] # None
    <3>1. c # Busy(k) /\ c \notin Ahead(k) /\ Up(c) = stack[k].dir
      BY <1>1, <1>2, <1>4, <2>1, <2>3 DEF Busy, Ahead
    <3>. QED
      BY <1>1, <2>1, <3>1 DEF WalkDone
  <2>4. CASE k = Len(stack) /\ src[c] = None
    <3>1. dst[c] = None
      BY <1>1, <1>2, <1>4, <2>4 DEF Ahead, In
    <3>. QED
      BY <1>1, <2>4, <3>1, NoneHandled
  <2>. QED
    BY <2>2, <2>3, <2>4
<1>. QED
  BY <1>4, <1>5, <1>6, <1>7 DEF WalkInv

LEMMA NextTargetStep ==
  ASSUME IInv, IInv', TreeInv, WalkInv, NextTarget
  PROVE  TreeInv' /\ WalkInv'
<1>1. /\ stack # <<>> /\ todo = <<>> /\ top.loop = "dst" /\ UNCHANGED <<src, dst, old, phase>>
      /\ KindsKnown /\ VisitsExist /\ VisitsExist' /\ OnTheWay /\ WalkDone
  BY DEF NextTarget, Ready, given, IInv, WalkInv
<1>2. PICK p \in top.left : /\ SetTop([top EXCEPT !.left = @ \ {p}])
                            /\ item' = p /\ todo' = IF src[p] = None THEN <<"delete">> ELSE <<>>
  BY DEF NextTarget
<1>. DEFINE f == [top EXCEPT !.left = @ \ {p}]
<1>3. p \in Paths /\ Up(p) = top.dir /\ top \in Frames
  BY <1>1, Here
<1>4. /\ f.dir = top.dir /\ f.loop = "dst" /\ f.left = top.left \ {p}
      /\ \A c \in f.left : Up(c) = top.dir
  BY <1>1, <1>3, Here DEF Frames
<1>5. SetTop(f)
  BY <1>2
<1>. HIDE DEF f
<1>6. /\ OnTheWay' /\ top' = f /\ Len(stack') = Len(stack)
      /\ DOMAIN stack' = 1 .. Len(stack) /\ Len(stack) \in Nat \ {0}
      /\ stack'[Len(stack)] = f
      /\ \A k \in 1 .. Len(stack) : k < Len(stack) => stack'[k] = stack[k]
  BY <1>1, <1>2, <1>3, <1>4, <1>5, TopGoesOn
<1>7. TreeInv' /\ \A q \in Paths : (Settled(q)' <=> Settled(q)) /\ (Handled(q)' <=> Handled(q))
  BY <1>1, TreeKept
<1>8. CallRight'
  BY <1>1, <1>2, <1>4, <1>6 DEF CallRight
<1>9. WalkDone'
  <2>. SUFFICES ASSUME NEW k \in 1 .. Len(stack), NEW c \in Paths, Up(c) = stack'[k].dir,
                       c # Busy(k)', c \notin Ahead(k)'
                PROVE  Handled(c)
    BY <1>1, <1>6, <1>7, Here DEF WalkDone
  <2>1. c # <<>> /\ DOMAIN stack = 1 .. Len(stack) /\ top = stack[Len(stack)]
    BY <1>1, TreesAssumption, Here
  <2>2. CASE k < Len(stack)
    <3>1. c # Busy(k) /\ c \notin Ahead(k) /\ Up(c) = stack[k].dir
      BY <1>1, <1>4, <1>6, <2>1, <2>2 DEF Busy, Ahead
    <3>. QED
      BY <1>1, <2>1, <3>1 DEF WalkDone
  <2>3. CASE k = Len(stack)
    <3>1. ~(c = p /\ src[p] = None)
      BY <1>2, <1>6, <2>3 DEF Busy
    <3>2. c # Busy(k) /\ c \notin Ahead(k) /\ Up(c) = stack[k].dir
      BY <1>1, <1>4, <1>6, <2>1, <2>3, <3>1 DEF Busy, Ahead
    <3>. QED
      BY <1>1, <2>1, <3>2 DEF WalkDone
  <2>. QED
    BY <2>2, <2>3
<1>. QED
  BY <1>6, <1>7, <1>8, <1>9 DEF WalkInv

LEMMA ReturnStep ==
  ASSUME IInv, IInv', TreeInv, WalkInv, Return
  PROVE  TreeInv' /\ WalkInv'
<1>. DEFINE n == Len(stack)
<1>1. /\ stack # <<>> /\ todo = <<>> /\ todo' = <<>> /\ top.loop = "dst" /\ top.left = {}
      /\ UNCHANGED <<src, dst, old, item, todo>>
      /\ KindsKnown /\ VisitsExist /\ VisitsExist' /\ OnTheWay /\ WalkDone
      /\ stack' = SubSeq(stack, 1, n - 1) /\ phase' = IF n = 1 THEN "stamp" ELSE phase
  BY DEF Return, Ready, given, IInv, WalkInv
<1>2. /\ n \in Nat \ {0} /\ DOMAIN stack = 1 .. n /\ top = stack[n] /\ top \in Frames /\ phase = "sync"
      /\ top.dir # <<>> => top.dir \in Paths /\ IsDir(src[top.dir]) /\ IsDir(dst[top.dir])
  BY <1>1, Here
<1>3. /\ Len(stack') = n - 1 /\ DOMAIN stack' = 1 .. n - 1 /\ (stack' = <<>> <=> n = 1)
      /\ \A k \in 1 .. n - 1 : stack'[k] = stack[k]
  BY <1>1, <1>2 DEF VisitsExist
<1>4. TreeInv' /\ \A q \in Paths : (Settled(q)' <=> Settled(q)) /\ (Handled(q)' <=> Handled(q))
  BY <1>1, TreeKept
<1>5. ASSUME NEW q \in Paths, Len(top.dir) < Len(q), SubSeq(q, 1, Len(top.dir)) = top.dir
      PROVE  Settled(q)
  <2>1. PICK c \in Paths : Up(c) = top.dir /\ q \in Below(c)
    BY <1>2, <1>5, ItemAbove DEF Frames
  <2>2. c # <<>>
    BY TreesAssumption
  <2>3. c # Busy(n) /\ c \notin Ahead(n)
    BY <1>1, <1>2, <2>2 DEF Busy, Ahead
  <2>4. Handled(c)
    BY <1>1, <1>2, <2>1, <2>3 DEF WalkDone
  <2>. QED
    BY <2>1, <2>4 DEF Handled
<1>6. ASSUME top.dir # <<>>
      PROVE  Handled(top.dir)
  <2>. SUFFICES ASSUME NEW q \in Below(top.dir) PROVE Settled(q)
    BY DEF Handled
  <2>1. CASE q = top.dir
    <3>1. ~IsFile(src[q]) /\ src[q].kind = dst[q].kind
      BY <1>2, <1>6, <2>1, Kinds DEF IsDir
    <3>. QED
      BY <3>1 DEF Settled, Right
  <2>2. CASE q # top.dir
    <3>1. q \in Paths /\ Len(q) >= Len(top.dir) /\ SubSeq(q, 1, Len(top.dir)) = top.dir
      BY DEF Below
    <3>2. Len(q) # Len(top.dir)
      BY <2>2, <3>1, Whole
    <3>3. Len(q) \in Nat /\ Len(top.dir) \in Nat
      BY <1>2, <1>6, <3>1, Beginning
    <3>. QED
      BY <1>5, <3>1, <3>2, <3>3
  <2>. QED
    BY <2>1, <2>2
<1>. HIDE DEF n
<1>7. OnTheWay'
  <2>1. ASSUME NEW k \in 1 .. n - 1
        PROVE  /\ Len(stack'[k].dir) = k - 1
               /\ \A j \in 1 .. k : stack'[j].dir = SubSeq(stack'[k].dir, 1, j - 1)
               /\ stack'[k].dir # <<>> => IsDir(src[stack'[k].dir]) /\ IsDir(dst[stack'[k].dir])
               /\ stack'[k].loop = "src"
               /\ \A c \in stack'[k].left : Up(c) = stack'[k].dir
    <3>1. k \in 1 .. n /\ k < n /\ stack'[k] = stack[k] /\ \A j \in 1 .. k : j \in 1 .. n /\ stack'[j] = stack[j]
      BY <1>2, <1>3
    <3>2. /\ Len(stack[k].dir) = k - 1 /\ \A j \in 1 .. k : stack[j].dir = SubSeq(stack[k].dir, 1, j - 1)
          /\ stack[k].dir # <<>> => IsDir(src[stack[k].dir]) /\ IsDir(dst[stack[k].dir])
          /\ stack[k].loop = "src" /\ \A c \in stack[k].left : Up(c) = stack[k].dir
      BY <1>1, <1>2, <3>1 DEF OnTheWay, n
    <3>. QED
      BY <1>1, <3>1, <3>2
  <2>2. phase' \in {"sync", "stamp", "done"} /\ (phase' = "sync" <=> stack' # <<>>)
    BY <1>1, <1>2, <1>3
  <2>3. todo' = <<>>
    BY <1>1
  <2>4. \A k \in DOMAIN stack' :
          /\ Len(stack'[k].dir) = k - 1
          /\ \A j \in 1 .. k : stack'[j].dir = SubSeq(stack'[k].dir, 1, j - 1)
          /\ stack'[k].dir # <<>> => IsDir(src[stack'[k].dir]) /\ IsDir(dst[stack'[k].dir])
          /\ k < Len(stack') => stack'[k].loop = "src"
          /\ \A c \in stack'[k].left : Up(c) = stack'[k].dir
    BY <1>3, <2>1, Zenon
  <2>5. UNCHANGED <<src, dst>>
    BY <1>1
  <2>. QED
    BY <2>2, <2>3, <2>4, <2>5 DEF OnTheWay
<1>8. CallRight'
  BY <1>1 DEF CallRight
<1>9. WalkDone'
  <2>1. ASSUME NEW k \in 1 .. n - 1, NEW c \in Paths, Up(c) = stack'[k].dir,
               c # Busy(k)', c \notin Ahead(k)'
        PROVE  Handled(c)
    <3>1. k \in 1 .. n /\ k < n /\ stack'[k] = stack[k] /\ c # <<>>
      BY <1>2, <1>3, TreesAssumption
    <3>2. c \notin Ahead(k) /\ Up(c) = stack[k].dir
      BY <1>1, <2>1, <3>1 DEF Ahead
    <3>3. Busy(k) = stack[k + 1].dir
      BY <3>1 DEF Busy, n
    <3>4. CASE k = n - 1 /\ c = top.dir
      BY <1>6, <3>1, <3>4
    <3>5. CASE k = n - 1 /\ c # top.dir
      BY <1>1, <1>2, <3>1, <3>2, <3>3, <3>5 DEF WalkDone
    <3>6. CASE k # n - 1
      <4>1. k < n - 1 /\ stack'[k + 1] = stack[k + 1]
        BY <1>2, <1>3, <3>6
      <4>2. Busy(k)' = Busy(k)
        BY <1>3, <3>3, <4>1 DEF Busy
      <4>. QED
        BY <1>1, <1>2, <2>1, <3>1, <3>2, <4>2 DEF WalkDone
    <3>. QED
      BY <3>4, <3>5, <3>6
  <2>2. ASSUME phase' # "sync", NEW q \in Paths
        PROVE  Settled(q)
    <3>1. n = 1
      BY <1>1, <1>2, <2>2
    <3>2. Len(top.dir) = 0
      BY <1>1, <1>2, <3>1 DEF OnTheWay
    <3>3. top.dir = <<>>
      BY <1>2, <3>2, Beginning
    <3>. QED
      BY <1>5, <3>2, <3>3, Beginning, SubSeqEmpty
  <2>. QED
    BY <1>3, <1>4, <2>1, <2>2 DEF WalkDone
<1>. QED
  BY <1>4, <1>7, <1>8, <1>9 DEF WalkInv

----------------------------------------------------------------------------
(* change_timestamps_and_perms, and the start                               *)

Stamped == phase = "done" => \A p \in Pairs : dst[p].mtime = src[p].mtime /\ dst[p].mode = src[p].mode

LEMMA PairSettled ==
  ASSUME KindsKnown, TreeInv, NEW p \in Pairs
  PROVE  /\ p \in Paths /\ IsFile(src[p]) /\ IsFile(dst[p]) /\ ~Kept(p)
         /\ Settled(p) => SameData(src[p], dst[p], old[p])
<1>1. p \in Paths /\ IsFile(src[p]) /\ IsFile(dst[p])
  BY DEF Pairs
<1>2. ~Kept(p)
  <2>. SUFFICES ASSUME NEW b \in Paths, p \in Below(b), Blocked(b) PROVE FALSE
    BY DEF Kept
  <2>1. CASE b = p
    BY <1>1, <2>1, BlockedFull
  <2>2. CASE b # p
    <3>1. IsFile(src[b]) /\ src[p] # None
      BY <1>1, Kinds DEF Blocked
    <3>. QED
      BY <2>2, <3>1, SourceTree, TreeBelow, Kinds
  <2>. QED
    BY <2>1, <2>2
<1>. QED
  BY <1>1, <1>2 DEF Settled, Right

LEMMA StampStep ==
  ASSUME IInv, TreeInv, WalkInv, Stamp
  PROVE  TreeInv' /\ WalkInv' /\ Stamped'
<1>1. /\ phase = "stamp" /\ UNCHANGED <<src, old, item, todo, stack>> /\ KindsKnown
      /\ phase' = IF dst' = dst THEN "done" ELSE phase
  BY DEF Stamp, given, IInv
<1>2. stack = <<>> /\ todo = <<>> /\ \A p \in Paths : Settled(p)
  BY <1>1 DEF WalkInv, OnTheWay, WalkDone
<1>3. OnTheWay' /\ CallRight'
  <2>1. phase' \in {"stamp", "done"} /\ DOMAIN stack = {}
    BY <1>1, <1>2
  <2>. QED
    BY <1>1, <1>2, <2>1 DEF OnTheWay, CallRight
<1>4. CASE UNCHANGED dst /\ \A p \in Pairs : dst[p].mtime = src[p].mtime /\ dst[p].mode = src[p].mode
  <2>1. TreeInv' /\ \A q \in Paths : Settled(q)' <=> Settled(q)
    BY <1>1, <1>4, TreeKept
  <2>2. WalkDone'
    BY <1>1, <1>2, <2>1 DEF WalkDone
  <2>3. Stamped'
    BY <1>1, <1>4 DEF Stamped, Pairs
  <2>. QED
    BY <1>3, <2>1, <2>2, <2>3 DEF WalkInv
<1>5. ASSUME NEW p \in Pairs,
             \/ /\ dst[p].mtime # src[p].mtime
                /\ dst' = [dst EXCEPT ![p].mtime = src[p].mtime]
             \/ /\ dst[p].mode # src[p].mode
                /\ dst' = [dst EXCEPT ![p].mode = src[p].mode]
      PROVE  TreeInv' /\ WalkInv' /\ Stamped'
  <2>1. p \in Paths /\ IsFile(src[p]) /\ IsFile(dst[p]) /\ ~Kept(p) /\ SameData(src[p], dst[p], old[p])
    BY <1>1, <1>2, PairSettled
  <2>2. /\ src[p] \in Items /\ dst[p] \in Items /\ src[p].mtime \in Times /\ src[p].mode \in Modes
        /\ dst[p].mtime \in Times /\ dst[p].mode \in Modes
    BY <1>1, <2>1, Trees, FileOfItem
  <2>3. PICK t \in Times, m \in Modes :
          /\ dst' = [dst EXCEPT ![p] = File(dst[p].data, t, m)]
          /\ File(dst[p].data, t, m) \in Items /\ (t # dst[p].mtime \/ m # dst[p].mode)
    <3>1. CASE dst' = [dst EXCEPT ![p].mtime = src[p].mtime] /\ dst[p].mtime # src[p].mtime
      <4>1. dst' = [dst EXCEPT ![p] = [dst[p] EXCEPT !.mtime = src[p].mtime]]
        BY <3>1
      <4>2. /\ [dst[p] EXCEPT !.mtime = src[p].mtime] = File(dst[p].data, src[p].mtime, dst[p].mode)
            /\ File(dst[p].data, src[p].mtime, dst[p].mode) \in Items
        BY <2>1, <2>2, OtherAttributes
      <4>3. dst' = [dst EXCEPT ![p] = File(dst[p].data, src[p].mtime, dst[p].mode)]
        BY <4>1, <4>2
      <4>. QED
        BY <2>2, <3>1, <4>2, <4>3
    <3>2. CASE dst' = [dst EXCEPT ![p].mode = src[p].mode] /\ dst[p].mode # src[p].mode
      <4>1. dst' = [dst EXCEPT ![p] = [dst[p] EXCEPT !.mode = src[p].mode]]
        BY <3>2
      <4>2. /\ [dst[p] EXCEPT !.mode = src[p].mode] = File(dst[p].data, dst[p].mtime, src[p].mode)
            /\ File(dst[p].data, dst[p].mtime, src[p].mode) \in Items
        BY <2>1, <2>2, OtherAttributes
      <4>3. dst' = [dst EXCEPT ![p] = File(dst[p].data, dst[p].mtime, src[p].mode)]
        BY <4>1, <4>2
      <4>. QED
        BY <2>2, <3>2, <4>2, <4>3
    <3>. QED
      BY <1>5, <3>1, <3>2
  <2>. DEFINE i == File(dst[p].data, t, m)
  <2>4. IsFile(i) /\ i.data = dst[p].data /\ i.mtime = t /\ i.mode = m /\ i \in Items
    BY <2>3 DEF File, IsFile
  <2>5. dst' = [dst EXCEPT ![p] = i]
    BY <2>3
  <2>. HIDE DEF i
  <2>6. src[p].kind = "file" /\ i.kind = dst[p].kind
    BY <2>1, <2>4 DEF IsFile
  <2>7. SameData(src[p], i, old[p]) /\ Copied(src[p], i, old[p])
    BY <2>1, <2>4 DEF SameData, Copied
  <2>8. i.kind \in {"none", src[p].kind, old[p].kind} /\ UNCHANGED <<src, old>>
    BY <1>1, <2>1, <2>6 DEF IsFile
  <2>9. TreeInv' /\ \A q \in Paths : /\ dst'[q] = IF q = p THEN i ELSE dst[q]
                                     /\ Kept(q)' <=> Kept(q)
    BY <1>1, <2>1, <2>4, <2>5, <2>6, <2>7, <2>8, ItemBecomes
  <2>10. \A q \in Paths : Settled(q)'
    <3>. SUFFICES ASSUME NEW q \in Paths PROVE Settled(q)'
      OBVIOUS
    <3>1. CASE q # p
      BY <1>1, <1>2, <2>9, <3>1 DEF Settled
    <3>2. CASE q = p
      <4>1. Right(src[p], i, old[p])
        BY <2>1, <2>4, <2>7 DEF Right, IsFile
      <4>. QED
        BY <1>1, <2>9, <3>2, <4>1 DEF Settled
    <3>. QED
      BY <3>1, <3>2
  <2>11. WalkDone'
    BY <1>1, <1>2, <2>10 DEF WalkDone
  <2>12. Stamped'
    <3>1. dst' # dst
      BY <2>1, <2>3, <2>4, <2>9
    <3>. QED
      BY <1>1, <3>1 DEF Stamped
  <2>. QED
    BY <1>3, <2>9, <2>11, <2>12 DEF WalkInv
<1>6. \/ UNCHANGED dst /\ \A p \in Pairs : dst[p].mtime = src[p].mtime /\ dst[p].mode = src[p].mode
      \/ \E p \in Pairs :
           \/ dst[p].mtime # src[p].mtime /\ dst' = [dst EXCEPT ![p].mtime = src[p].mtime]
           \/ dst[p].mode # src[p].mode /\ dst' = [dst EXCEPT ![p].mode = src[p].mode]
  BY DEF Stamp
<1>. QED
  BY <1>4, <1>5, <1>6

\* A walk that begins has everything ahead of it.
Fresh == KindsKnown /\ phase = "sync" /\ stack = <<Call(<<>>)>> /\ todo = <<>>

LEMMA FreshWalk == Fresh => WalkInv
<1>. SUFFICES ASSUME Fresh PROVE WalkInv
  OBVIOUS
<1>. USE DEF Fresh
<1>1. /\ Len(stack) = 1 /\ DOMAIN stack = {1} /\ stack # <<>> /\ stack[1] = Call(<<>>)
      /\ Call(<<>>).dir = <<>> /\ Call(<<>>).loop = "src" /\ Call(<<>>).left = In(src, <<>>)
  BY DEF Call
<1>2. OnTheWay
  <2>1. SubSeq(<<>>, 1, 0) = <<>> /\ Len(<<>>) = 0
    BY SubSeqEmpty
  <2>2. \A j \in 1 .. 1 : j = 1
    OBVIOUS
  <2>3. stack[1].dir = SubSeq(stack[1].dir, 1, 1 - 1) /\ Len(stack[1].dir) = 1 - 1
    <3>1. 1 - 1 = 0
      OBVIOUS
    <3>2. stack[1].dir = SubSeq(stack[1].dir, 1, 0) /\ Len(stack[1].dir) = 0
      BY <1>1, <2>1
    <3>. QED
      BY <3>1, <3>2
  <2>. QED
    BY <1>1, <2>2, <2>3 DEF OnTheWay, In
<1>3. CallRight
  BY DEF CallRight
<1>4. WalkDone
  BY <1>1 DEF WalkDone, Ahead, In
<1>. QED
  BY <1>2, <1>3, <1>4 DEF WalkInv

LEMMA FreshNext == Fresh' => WalkInv'
BY FreshWalk, PTL

LEMMA TreeInit == Init => TreeInv
<1>. SUFFICES ASSUME Init PROVE TreeInv
  OBVIOUS
<1>1. dst \in [Paths -> Items] /\ IsTree(dst) /\ old = dst /\ old \in Targets
  BY TreesAssumption DEF Init
<1>. QED
  BY <1>1 DEF TreeInv, TargetTree, KindsKept, KeptStays, DataKnown, Copied

\* Half-way, dst is a tree in which each item is as it was, gone, or what it
\* shall be, and the walk is done with all it has passed.
MirrorInv == TreeInv /\ WalkInv /\ Stamped

LEMMA MirrorInvariance == Spec => [](IInv /\ MirrorInv)
<1>1. Init => MirrorInv
  <2>. SUFFICES ASSUME Init PROVE MirrorInv
    OBVIOUS
  <2>1. Fresh
    BY InitInv DEF Init, Fresh, IInv
  <2>. QED
    BY <2>1, FreshWalk, TreeInit DEF MirrorInv, Stamped, Fresh
<1>2. IInv /\ IInv' /\ MirrorInv /\ [Next]_vars => MirrorInv'
  <2>. SUFFICES ASSUME IInv, IInv', MirrorInv, [Next]_vars PROVE MirrorInv'
    OBVIOUS
  <2>. USE DEF MirrorInv
  <2>1. CASE sync_directories
    <3>1. TreeInv' /\ WalkInv'
      BY <2>1, NextSourceStep, RemoveStep, OpenStep, WriteStep, SetStep, MakeDirStep, RecurseStep,
         SecondLoopStep, NextTargetStep, DeleteStep, ReturnStep DEF sync_directories
    <3>2. phase' # "done"
      BY <2>1 DEF sync_directories, NextSource, Remove, Open, Write, SetTime, SetMode, MakeDir, Recurse,
         SecondLoop, NextTarget, Delete, Return, Ready, Does, Done
    <3>. QED
      BY <3>1, <3>2 DEF Stamped
  <2>2. CASE Stamp
    BY <2>2, StampStep
  <2>3. CASE Stop \/ RunAgain
    <3>1. UNCHANGED <<src, dst, old>> /\ Fresh'
      BY <2>3 DEF Stop, RunAgain, Restart, Fresh, Call, In, IInv
    <3>2. TreeInv' /\ WalkInv'
      BY <3>1, TreeKept, FreshNext
    <3>. QED
      BY <3>1, <3>2 DEF Stamped, Fresh
  <2>4. CASE UNCHANGED vars
    <3>1. UNCHANGED <<src, dst, old, phase, stack, item, todo>>
      BY <2>4 DEF vars
    <3>2. TreeInv' /\ \A q \in Paths : (Settled(q)' <=> Settled(q)) /\ (Handled(q)' <=> Handled(q))
      BY <3>1, TreeKept
    <3>3. OnTheWay' /\ CallRight' /\ Stamped'
      BY <3>1 DEF WalkInv, OnTheWay, CallRight, FileCalls, DirCalls, Stamped, Pairs, top, Blocked, In
    <3>4. WalkDone'
      <4>1. \A k \in DOMAIN stack : Busy(k)' = Busy(k) /\ Ahead(k)' = Ahead(k)
        BY <3>1 DEF Busy, Ahead
      <4>. QED
        BY <3>1, <3>2, <4>1 DEF WalkInv, WalkDone
    <3>. QED
      BY <3>2, <3>3, <3>4 DEF WalkInv
  <2>. QED
    BY <2>1, <2>2, <2>3, <2>4 DEF Next, Program
<1>. QED
  BY <1>1, <1>2, Invariance, PTL DEF Spec

\* At the end the trees agree.
Mirrored == \A p \in Paths : IF Kept(p) THEN dst[p] = old[p] ELSE Agrees(src[p], dst[p], old[p])

LEMMA EndMirrored ==
  ASSUME KindsKnown, MirrorInv, phase = "done"
  PROVE  Mirrored
<1>. SUFFICES ASSUME NEW p \in Paths, ~Kept(p) PROVE Agrees(src[p], dst[p], old[p])
  BY DEF MirrorInv, TreeInv, KeptStays, Mirrored
<1>1. Right(src[p], dst[p], old[p])
  BY DEF MirrorInv, WalkInv, WalkDone, Settled
<1>2. IsFile(src[p]) => dst[p].mtime = src[p].mtime /\ dst[p].mode = src[p].mode
  BY <1>1 DEF MirrorInv, Stamped, Pairs, Right, IsFile
<1>. QED
  BY <1>1, <1>2 DEF Right, SameData, Agrees

(* At the end the trees are the same, for any trees, any order in which the *)
(* items are met and however often the program is stopped half-way and      *)
(* started again: the same items, and for files the same contents (unless   *)
(* size and time had been the same before), time and permissions; only a    *)
(* full directory in the place of a file stays (rsync.c:56-184, 199-235).   *)
THEOREM MirrorsAlways == Spec => []Mirrors
<1>1. IInv /\ MirrorInv => Mirrors
  BY EndMirrored DEF IInv, Mirrors, Mirrored, Kept
<1>. QED
  BY <1>1, MirrorInvariance, PTL

----------------------------------------------------------------------------
(* The second run                                                           *)

\* After the end nothing is about to be done but at the directories that stay.
IdleInv ==
  again => /\ Mirrored
           /\ todo = <<>> \/ Blocked(item) \/ (todo = <<"sync">> /\ IsDir(src[item]))
           /\ \A k \in DOMAIN stack : stack[k].loop = "dst" => \A c \in stack[k].left : src[c] # None

LEMMA SameKind ==
  ASSUME KindsKnown, TreeInv, Mirrored, NEW p \in Paths, Up(p) = <<>> \/ IsDir(src[Up(p)])
  PROVE  /\ Blocked(p) \/ Agrees(src[p], dst[p], old[p])
         /\ src[p] = None => dst[p] = None
<1>1. Blocked(p) \/ Agrees(src[p], dst[p], old[p])
  BY KeptHere DEF Mirrored
<1>2. ASSUME src[p] = None
      PROVE  dst[p] = None
  <2>1. ~Blocked(p)
    BY <1>2 DEF Blocked, IsFile, None
  <2>2. dst[p].kind = "none"
    BY <1>1, <1>2, <2>1 DEF Agrees, None
  <2>. QED
    BY <2>2, Trees, KindOfItem
<1>. QED
  BY <1>1, <1>2

\* What agrees is not copied.
LEMMA NoCallsFor ==
  ASSUME NEW s \in Items, NEW d \in Items, NEW o, s # None, Agrees(s, d, o)
  PROVE  CallsFor(s, d) = IF IsFile(s) THEN <<>> ELSE <<"sync">>
<1>1. s.kind = d.kind /\ (IsFile(s) \/ IsDir(s))
  BY ItemKinds DEF Agrees
<1>2. CASE IsFile(s)
  <2>1. IsFile(d) /\ SameFile(s, d)
    BY <1>1, <1>2 DEF Agrees, SameFile, IsFile
  <2>2. d # None
    BY <2>1 DEF IsFile, None
  <2>. QED
    BY <1>2, <2>1, <2>2 DEF CallsFor
<1>3. CASE ~IsFile(s)
  <2>1. IsDir(d)
    BY <1>1, <1>3 DEF IsDir
  <2>2. d # None
    BY <2>1 DEF IsDir, None
  <2>. QED
    BY <1>3, <2>1, <2>2 DEF CallsFor
<1>. QED
  BY <1>2, <1>3

LEMMA IdleStep ==
  ASSUME IInv, MirrorInv, IdleInv, again, Next
  PROVE  UNCHANGED dst
<1>1. /\ KindsKnown /\ VisitsExist /\ TreeInv /\ WalkInv /\ CallRight /\ Mirrored
      /\ todo = <<>> \/ Blocked(item) \/ (todo = <<"sync">> /\ IsDir(src[item]))
  BY DEF IInv, MirrorInv, WalkInv, IdleInv
<1>2. CASE Remove \/ Open \/ Write \/ SetTime \/ SetMode \/ MakeDir \/ Delete
  <2>1. todo # <<>> /\ Head(todo) # "sync"
    BY <1>2 DEF Remove, Open, Write, SetTime, SetMode, MakeDir, Delete, Does
  <2>2. Blocked(item)
    BY <1>1, <2>1, HeadTail
  <2>3. IsDir(dst[item]) /\ In(dst, item) # {} /\ ~IsFile(dst[item]) /\ dst[item] # None /\ IsFile(src[item])
    BY <1>1, <2>1, <2>2, ItemKept
  <2>4. ~SetTime /\ ~SetMode /\ ~MakeDir /\ ~Delete
    BY <1>1, <2>3, AtCall, Kinds DEF SetTime, SetMode, MakeDir, Delete
  <2>. QED
    BY <1>2, <2>3, <2>4 DEF Remove, Open, Write
<1>3. CASE Stamp
  <2>1. \A p \in Pairs : dst[p].mtime = src[p].mtime /\ dst[p].mode = src[p].mode
    BY <1>1, PairSettled DEF Mirrored, Agrees
  <2>. QED
    BY <1>3, <2>1 DEF Stamp
<1>4. CASE NextSource \/ Recurse \/ SecondLoop \/ NextTarget \/ Return \/ Stop \/ RunAgain
  BY <1>4 DEF NextSource, Recurse, SecondLoop, NextTarget, Return, Stop, RunAgain, Restart
<1>. QED
  BY <1>2, <1>3, <1>4 DEF Next, Program, sync_directories

\* The loops over dst have nothing to take away, and the calls about to be made
\* nothing to do.
LEMMA IdleNext ==
  ASSUME IInv, IInv', MirrorInv, IdleInv, again, Next
  PROVE  IdleInv'
<1>1. /\ KindsKnown /\ VisitsExist /\ VisitsExist' /\ TreeInv /\ WalkInv /\ OnTheWay /\ CallRight /\ Mirrored
      /\ todo = <<>> \/ Blocked(item) \/ (todo = <<"sync">> /\ IsDir(src[item]))
      /\ \A k \in DOMAIN stack : stack[k].loop = "dst" => \A c \in stack[k].left : src[c] # None
  BY DEF IInv, MirrorInv, WalkInv, IdleInv
<1>2. UNCHANGED <<src, dst, old>>
  BY IdleStep DEF Next, Program, sync_directories, NextSource, Remove, Open, Write, SetTime, SetMode, MakeDir,
     Recurse, SecondLoop, NextTarget, Delete, Return, Done, Stamp, Stop, RunAgain, Restart, given
<1>3. Mirrored' /\ \A p \in Paths : Blocked(p)' <=> Blocked(p)
  BY <1>1, <1>2 DEF Mirrored, Kept, Blocked, In
<1>4. CASE Remove \/ Open \/ Write \/ SetTime \/ SetMode \/ MakeDir \/ Delete
  <2>1. /\ todo # <<>> /\ Head(todo) # "sync" /\ UNCHANGED <<item, stack>>
    BY <1>4 DEF Remove, Open, Write, SetTime, SetMode, MakeDir, Delete, Does, Done
  <2>2. Blocked(item) /\ item \in Paths
    BY <1>1, <2>1, HeadTail, ItemKept
  <2>. QED
    BY <1>1, <1>2, <1>3, <2>1, <2>2 DEF IdleInv
<1>5. CASE Stamp
  <2>1. UNCHANGED <<item, todo, stack>>
    BY <1>5 DEF Stamp
  <2>2. todo # <<>> => item \in Paths
    BY <1>1, ItemKept
  <2>. QED
    BY <1>1, <1>2, <1>3, <2>1, <2>2 DEF IdleInv
<1>6. CASE Stop \/ RunAgain
  <2>1. todo' = <<>> /\ stack' = <<Call(<<>>)>>
    BY <1>6 DEF Stop, RunAgain, Restart
  <2>2. Call(<<>>).loop = "src" /\ stack'[1] = Call(<<>>) /\ DOMAIN stack' = {1}
    BY <2>1 DEF Call
  <2>. QED
    BY <1>3, <2>1, <2>2 DEF IdleInv
<1>7. CASE Recurse
  <2>1. todo' = <<>> /\ todo # <<>> /\ stack' = Append(stack, Call(item))
    BY <1>1, <1>7, AtCall DEF Recurse, Done, Does
  <2>2. stack # <<>> /\ item \in Paths
    BY <1>1, <2>1, AtItem
  <2>3. \A k \in DOMAIN stack' : \/ k \in DOMAIN stack /\ stack'[k] = stack[k]
                                 \/ stack'[k] = Call(item)
    BY <1>1, <2>1, <2>2, CallFrame DEF VisitsExist
  <2>. QED
    BY <1>1, <1>2, <1>3, <2>1, <2>3 DEF IdleInv, Call
<1>8. CASE Return
  <2>1. todo' = <<>> /\ stack # <<>> /\ stack' = SubSeq(stack, 1, Len(stack) - 1)
    BY <1>8 DEF Return, Ready
  <2>2. \A k \in DOMAIN stack' : k \in DOMAIN stack /\ stack'[k] = stack[k]
    BY <1>1, <2>1 DEF VisitsExist
  <2>. QED
    BY <1>1, <1>2, <1>3, <2>1, <2>2 DEF IdleInv
<1>9. ASSUME NEW f, SetTop(f), stack # <<>>, f.loop = "dst" => \A c \in f.left : src[c] # None
      PROVE  \A k \in DOMAIN stack' : stack'[k].loop = "dst" => \A c \in stack'[k].left : src'[c] # None
  <2>1. DOMAIN stack' = DOMAIN stack /\ \A k \in DOMAIN stack : stack'[k] = f \/ stack'[k] = stack[k]
    BY <1>9 DEF SetTop
  <2>. QED
    BY <1>1, <1>2, <1>9, <2>1
<1>10. CASE NextSource
  <2>1. stack # <<>> /\ top.loop = "src" /\ todo = <<>>
    BY <1>10 DEF NextSource, Ready
  <2>2. PICK p \in top.left : /\ SetTop([top EXCEPT !.left = @ \ {p}])
                              /\ item' = p /\ todo' = CallsFor(src[p], dst[p])
    BY <1>10 DEF NextSource
  <2>. DEFINE f == [top EXCEPT !.left = @ \ {p}]
  <2>3. f.loop = "src"
    BY <1>1, <2>1, Here DEF Frames
  <2>4. SetTop(f)
    BY <2>2
  <2>. HIDE DEF f
  <2>5. /\ p \in Paths /\ Up(p) = top.dir /\ src[p] # None
        /\ top.dir # <<>> => IsDir(src[top.dir])
    BY <1>1, <2>1, Here
  <2>6. Blocked(p) \/ Agrees(src[p], dst[p], old[p])
    BY <1>1, <2>5, SameKind
  <2>7. src[p] \in Items /\ dst[p] \in Items /\ (IsFile(src[p]) \/ IsDir(src[p]))
    BY <1>1, <2>5, Trees, ItemKinds
  <2>8. todo' = <<>> \/ Blocked(p) \/ (todo' = <<"sync">> /\ IsDir(src[p]))
    BY <2>2, <2>5, <2>6, <2>7, NoCallsFor
  <2>. QED
    BY <1>2, <1>3, <1>9, <2>1, <2>2, <2>3, <2>4, <2>5, <2>8 DEF IdleInv
<1>11. CASE SecondLoop
  <2>1. stack # <<>> /\ todo' = <<>>
    BY <1>11 DEF SecondLoop, Ready
  <2>. DEFINE f == [top EXCEPT !.loop = "dst", !.left = In(dst, top.dir)]
  <2>2. f.left = In(dst, top.dir) /\ (top.dir # <<>> => IsDir(src[top.dir]))
    BY <1>1, <2>1, Here DEF Frames
  <2>3. SetTop(f)
    BY <1>11 DEF SecondLoop
  <2>. HIDE DEF f
  <2>4. \A c \in f.left : src[c] # None
    <3>. SUFFICES ASSUME NEW c \in Paths, Up(c) = top.dir, dst[c] # None PROVE src[c] # None
      BY <2>2 DEF In
    <3>. QED
      BY <1>1, <2>2, SameKind
  <2>. QED
    BY <1>3, <1>9, <2>1, <2>3, <2>4 DEF IdleInv
<1>12. CASE NextTarget
  <2>1. stack # <<>> /\ top.loop = "dst"
    BY <1>12 DEF NextTarget, Ready
  <2>2. PICK p \in top.left : /\ SetTop([top EXCEPT !.left = @ \ {p}]) /\ item' = p
                              /\ todo' = IF src[p] = None THEN <<"delete">> ELSE <<>>
    BY <1>12 DEF NextTarget
  <2>. DEFINE f == [top EXCEPT !.left = @ \ {p}]
  <2>3. f.left \subseteq top.left /\ \A c \in top.left : src[c] # None
    BY <1>1, <2>1, Here DEF Frames
  <2>4. SetTop(f)
    BY <2>2
  <2>. HIDE DEF f
  <2>. QED
    BY <1>3, <1>9, <2>1, <2>2, <2>3, <2>4 DEF IdleInv
<1>. QED
  BY <1>4, <1>5, <1>6, <1>7, <1>8, <1>10, <1>11, <1>12 DEF Next, Program, sync_directories

LEMMA IdleInvariance == Spec => [](IInv /\ MirrorInv /\ IdleInv)
<1>1. Init => IdleInv
  BY DEF Init, IdleInv
<1>2. IInv /\ IInv' /\ MirrorInv /\ IdleInv /\ [Next]_vars => IdleInv'
  <2>. SUFFICES ASSUME IInv, IInv', MirrorInv, IdleInv, [Next]_vars, again' PROVE IdleInv'
    BY DEF IdleInv
  <2>1. CASE again /\ Next
    BY <2>1, IdleNext
  <2>2. CASE ~again /\ Next
    <3>1. RunAgain
      BY <2>2 DEF Next, Program, sync_directories, NextSource, Remove, Open, Write, SetTime, SetMode, MakeDir,
         Recurse, SecondLoop, NextTarget, Delete, Return, Done, Stamp, Stop, given
    <3>2. /\ phase = "done" /\ UNCHANGED <<src, dst, old>> /\ todo' = <<>> /\ stack' = <<Call(<<>>)>>
      BY <3>1 DEF RunAgain, Restart
    <3>3. Mirrored
      BY <3>2, EndMirrored DEF IInv
    <3>4. Mirrored'
      BY <3>2, <3>3 DEF Mirrored, Kept, Blocked, In
    <3>5. Call(<<>>).loop = "src" /\ stack'[1] = Call(<<>>) /\ DOMAIN stack' = {1}
      BY <3>2 DEF Call
    <3>. QED
      BY <3>2, <3>4, <3>5 DEF IdleInv
  <2>3. CASE UNCHANGED vars
    BY <2>3 DEF vars, IdleInv, Mirrored, Kept, Blocked, In
  <2>. QED
    BY <2>1, <2>2, <2>3
<1>. QED
  BY <1>1, <1>2, MirrorInvariance, PTL DEF Spec

(* Run once more, the program changes nothing, for any trees: the times and *)
(* permissions set by the second walk keep the first from copying again,    *)
(* and what it cannot replace it leaves alone (rsync.c:79, 216-225).        *)
THEOREM SecondRunIdleAlways == Spec => SecondRunIdle
<1>1. IInv /\ MirrorInv /\ IdleInv /\ [Next]_vars => [again => dst' = dst]_vars
  BY IdleStep DEF vars
<1>. QED
  BY <1>1, IdleInvariance, PTL DEF Spec, SecondRunIdle
----------------------------------------------------------------------------
(* The types                                                                *)

Counted == item \in Paths \union {<<>>} /\ stops \in 0 .. MaxStops /\ again \in BOOLEAN

\* The calls but the first are of different directories: as many as there are.
LEMMA StackBound ==
  ASSUME IInv, MirrorInv
  PROVE  Len(stack) <= Cardinality(Paths) + 1
<1>1. stack \in Seq(Frames) /\ Len(stack) \in Nat /\ DOMAIN stack = 1 .. Len(stack)
  BY DEF IInv, VisitsExist
<1>. DEFINE f == [k \in 2 .. Len(stack) |-> stack[k].dir]
<1>2. ASSUME NEW k \in 2 .. Len(stack)
      PROVE  stack[k].dir \in Paths /\ Len(stack[k].dir) = k - 1
  <2>1. k \in DOMAIN stack /\ k # 1
    BY <1>1
  <2>2. Len(stack[k].dir) = k - 1
    BY <2>1 DEF MirrorInv, WalkInv, OnTheWay
  <2>3. stack[k] \in Frames
    BY <1>1, <2>1
  <2>4. stack[k].dir \in Paths \union {<<>>}
    BY <2>3 DEF Frames
  <2>5. stack[k].dir # <<>>
    BY <2>2
  <2>. QED
    BY <2>2, <2>4, <2>5
<1>3. f \in [2 .. Len(stack) -> Paths]
  BY <1>2
<1>4. ASSUME NEW j \in 2 .. Len(stack), NEW k \in 2 .. Len(stack), f[j] = f[k]
      PROVE  j = k
  BY <1>2, <1>4
<1>5. f \in Injection(2 .. Len(stack), Paths)
  BY <1>3, <1>4 DEF Injection, IsInjective
<1>6. Cardinality(2 .. Len(stack)) <= Cardinality(Paths)
  BY <1>5, FS_Injection, TreesAssumption
<1>7. Cardinality(2 .. Len(stack)) = IF 2 > Len(stack) THEN 0 ELSE Len(stack) - 2 + 1
  BY <1>1, FS_Interval
<1>8. Cardinality(Paths) \in Nat
  BY FS_CardinalityType, TreesAssumption
<1>. QED
  BY <1>1, <1>6, <1>7, <1>8

LEMMA TodoBound ==
  ASSUME CallRight
  PROVE  Len(todo) <= 4
<1>1. \/ todo = <<>> \/ todo = <<"delete">>
      \/ todo = <<"remove", "open", "write">> \/ todo = <<"open", "write">>
      \/ todo = <<"open", "write", "utime", "chmod">> \/ todo = <<"write">>
      \/ todo = <<"write", "utime", "chmod">> \/ todo = <<"utime", "chmod">> \/ todo = <<"chmod">>
      \/ todo = <<"remove", "mkdir", "sync">> \/ todo = <<"mkdir", "sync">> \/ todo = <<"sync">>
  BY DEF CallRight, FileCalls, DirCalls
<1>2. /\ Len(<<>>) = 0 /\ \A a : Len(<<a>>) = 1 /\ \A b : Len(<<a, b>>) = 2
      /\ \A a, b, c : Len(<<a, b, c>>) = 3 /\ \A d : Len(<<a, b, c, d>>) = 4
  OBVIOUS
<1>3. Len(todo) \in {0, 1, 2, 3, 4}
  BY <1>1, <1>2, Zenon
<1>4. \A n \in {0, 1, 2, 3, 4} : n <= 4
  OBVIOUS
<1>. QED
  BY <1>3, <1>4, Zenon

LEMMA StopsAllowed == MaxStops \in Nat
BY TreesAssumption

LEMMA CountedNext ==
  ASSUME IInv, MirrorInv, Counted, [Next]_vars
  PROVE  Counted'
<1>. USE DEF Counted
<1>1. CASE NextSource \/ NextTarget
  <2>1. stack # <<>> /\ item' \in top.left /\ UNCHANGED given
    BY <1>1 DEF NextSource, NextTarget, Ready
  <2>2. item' \in Paths
    BY <2>1, Here DEF IInv, MirrorInv, WalkInv
  <2>. QED
    BY <2>1, <2>2 DEF given
<1>2. CASE Remove \/ Open \/ Write \/ SetTime \/ SetMode \/ MakeDir \/ Recurse \/ SecondLoop \/ Delete \/ Return \/ Stamp
  <2>1. UNCHANGED <<item, given>>
    BY <1>2 DEF Remove, Open, Write, SetTime, SetMode, MakeDir, Recurse, SecondLoop, Delete, Return, Stamp, Done
  <2>. QED
    BY <2>1 DEF given
<1>3. CASE Stop \/ RunAgain
  <2>1. item' = <<>> /\ again' \in BOOLEAN
    BY <1>3 DEF Stop, RunAgain, Restart
  <2>2. stops' \in 0 .. MaxStops
    BY <1>3, StopsAllowed DEF Stop, RunAgain
  <2>. QED
    BY <2>1, <2>2
<1>4. CASE UNCHANGED vars
  BY <1>4 DEF vars
<1>. QED
  BY <1>1, <1>2, <1>3, <1>4 DEF Next, Program, sync_directories

(* The types of the state, for any trees: dst stays a tree, no more calls   *)
(* of sync_directories than directories are open at a time, and no more     *)
(* than four system calls to make for an item (rsync.c:56-184).             *)
THEOREM TypeOKAlways == Spec => []TypeOK
<1>1. Init => Counted
  <2>1. Init => item = <<>> /\ stops = 0 /\ again = FALSE
    BY DEF Init
  <2>2. 0 \in 0 .. MaxStops
    BY StopsAllowed
  <2>. QED
    BY <2>1, <2>2 DEF Counted
<1>2. IInv /\ MirrorInv /\ Counted /\ [Next]_vars => Counted'
  BY CountedNext
<1>3. IInv /\ MirrorInv /\ Counted => TypeOK
  <2>. SUFFICES ASSUME IInv, MirrorInv, Counted PROVE TypeOK
    OBVIOUS
  <2>1. src \in Sources /\ old \in Targets /\ dst \in [Paths -> Items] /\ IsTree(dst)
    BY DEF IInv, KindsKnown, MirrorInv, TreeInv, TargetTree
  <2>2. phase \in {"sync", "stamp", "done"} /\ CallRight
    BY DEF MirrorInv, WalkInv, OnTheWay
  <2>. QED
    BY <2>1, <2>2, StackBound, TodoBound DEF TypeOK, Counted
<1>. QED
  BY <1>1, <1>2, <1>3, MirrorInvariance, PTL DEF Spec
=============================================================================
