-------------------------------- MODULE Rsync ------------------------------
(***************************************************************************)
(* A9/rsync.c: make the directory dst like the directory src.  One process *)
(* walks the trees, one system call at a time, and the user may stop it    *)
(* between two calls and start it again.  readdir gives the items of a     *)
(* directory in any order.                                                 *)
(***************************************************************************)
EXTENDS Integers, Sequences, FiniteSets

CONSTANTS
  Paths,     \* the items there may be: sequences of names, every prefix included
  Blocks,    \* what a file consists of, up to MaxLen of them
  MaxLen,
  Times,     \* modification times,
  Now,       \* and the time at which the program runs
  Modes,     \* permissions,
  Masked,    \* and those that open gives a new file: without the umask
  Sources, Targets,  \* the trees src and dst may be
  MaxStops   \* bound: how often it is stopped

None == [kind |-> "none"]
Dir == [kind |-> "dir"]
File(data, mtime, mode) == [kind |-> "file", data |-> data, mtime |-> mtime, mode |-> mode]
Contents == UNION {[1 .. n -> Blocks] : n \in 0 .. MaxLen}
Items == {None, Dir} \union {File(c, t, m) : c \in Contents, t \in Times, m \in Modes}

IsFile(i) == i.kind = "file"
IsDir(i) == i.kind = "dir"
Up(p) == SubSeq(p, 1, Len(p) - 1)
Below(p) == {q \in Paths : Len(q) >= Len(p) /\ SubSeq(q, 1, Len(p)) = p}
In(tree, d) == {p \in Paths : Up(p) = d /\ tree[p] # None}
IsTree(tree) ==
  \A p \in Paths : \A q \in Below(p) \ {p} : tree[q] # None => IsDir(tree[p])

Names == UNION {{p[i] : i \in DOMAIN p} : p \in Paths}

ASSUME TreesAssumption ==
  /\ IsFiniteSet(Paths) /\ Paths \subseteq Seq(Names) \ {<<>>}
  /\ \A p \in Paths : \A n \in 1 .. Len(p) : SubSeq(p, 1, n) \in Paths
  /\ Now \in Times /\ Masked \in [Modes -> Modes] /\ MaxLen \in Nat /\ MaxStops \in Nat
  /\ \A tree \in Sources \union Targets : tree \in [Paths -> Items] /\ IsTree(tree)

VARIABLES
  src, dst,
  old,     \* dst at the start
  phase,   \* which of main's two walks
  stack,   \* calls of sync_directories: the directory, which loop, what is left
  item,    \* the item of the loop,
  todo,    \* and the system calls to make for it
  stops,   \* how often the program was stopped
  again    \* it has run to its end before

vars == <<src, dst, old, phase, stack, item, todo, stops, again>>
given == <<src, old, stops, again>>

Call(d) == [dir |-> d, loop |-> "src", left |-> In(src, d)]

Init ==
  /\ src \in Sources /\ dst \in Targets /\ old = dst
  /\ phase = "sync" /\ stack = <<Call(<<>>)>> /\ item = <<>> /\ todo = <<>>
  /\ stops = 0 /\ again = FALSE

top == stack[Len(stack)]
SetTop(frame) == stack' = [stack EXCEPT ![Len(stack)] = frame]

----------------------------------------------------------------------------
(* sync_directories: the loop over src                                      *)

\* Size and time decide whether a file is copied.
SameFile(s, d) == Len(s.data) = Len(d.data) /\ s.mtime = d.mtime

\* Wrong variant of CallsFor: a file is overwritten by a new one.
CallsForAnew(s, d) ==
  IF IsFile(s)
  THEN CASE d = None -> <<"open", "write">>
         [] IsFile(d) /\ SameFile(s, d) -> <<>>
         [] OTHER -> <<"remove", "open", "write">>
  ELSE CASE IsDir(d) -> <<"sync">>
         [] d = None -> <<"mkdir", "sync">>
         [] OTHER -> <<"remove", "mkdir", "sync">>

CallsFor(s, d) ==
  IF IsFile(s)
  THEN CASE IsFile(d) /\ SameFile(s, d) -> <<>>
         [] IsFile(d) /\ ~SameFile(s, d) -> <<"open", "write", "utime", "chmod">>
         [] d = None -> <<"open", "write">>
         [] OTHER -> <<"remove", "open", "write">>
  ELSE CASE IsDir(d) -> <<"sync">>
         [] d = None -> <<"mkdir", "sync">>
         [] OTHER -> <<"remove", "mkdir", "sync">>

Ready(loop) == phase = "sync" /\ todo = <<>> /\ stack # <<>> /\ top.loop = loop

NextSource ==
  /\ Ready("src")
  /\ \E p \in top.left :
       /\ SetTop([top EXCEPT !.left = @ \ {p}])
       /\ item' = p /\ todo' = CallsFor(src[p], dst[p])
  /\ UNCHANGED <<dst, phase, given>>

Does(call) == phase = "sync" /\ todo # <<>> /\ Head(todo) = call
Becomes(i) == dst' = [dst EXCEPT ![item] = i]
Done == todo' = Tail(todo) /\ UNCHANGED <<phase, item, given>>

\* remove fails, unnoticed, for a directory that is not empty.
Remove ==
  /\ Does("remove")
  /\ IF IsDir(dst[item]) /\ In(dst, item) # {} THEN UNCHANGED dst ELSE Becomes(None)
  /\ Done /\ UNCHANGED stack

\* open with O_CREAT and O_TRUNC fails, unnoticed, for a directory.
Open ==
  /\ Does("open")
  /\ CASE IsFile(dst[item]) -> Becomes(File(<<>>, Now, dst[item].mode))
       [] IsDir(dst[item]) -> UNCHANGED dst
       [] OTHER -> Becomes(File(<<>>, Now, Masked[src[item].mode]))
  /\ Done /\ UNCHANGED stack

\* Wrong variant of Write: one block too many.
WriteTooMuch ==
  /\ Does("write")
  /\ LET have == IF IsFile(dst[item]) THEN Len(dst[item].data) ELSE -1
         data == src[item].data IN
     IF have = -1 \/ have > Len(data) \/ data = <<>> THEN UNCHANGED dst /\ Done
     ELSE /\ Becomes(File(Append(dst[item].data, data[1]), Now, dst[item].mode))
          /\ UNCHANGED <<todo, phase, item, given>>
  /\ UNCHANGED stack

\* The copying loop, a block at a time.
Write ==
  /\ Does("write")
  /\ IF IsFile(dst[item]) /\ Len(dst[item].data) < Len(src[item].data)
     THEN /\ Becomes(File(Append(dst[item].data, src[item].data[Len(dst[item].data) + 1]),
                          Now, dst[item].mode))
          /\ UNCHANGED <<todo, phase, item, given>>
     ELSE UNCHANGED dst /\ Done
  /\ UNCHANGED stack

SetTime == Does("utime") /\ Becomes([dst[item] EXCEPT !.mtime = src[item].mtime]) /\ Done /\ UNCHANGED stack
SetMode == Does("chmod") /\ Becomes([dst[item] EXCEPT !.mode = src[item].mode]) /\ Done /\ UNCHANGED stack
MakeDir == Does("mkdir") /\ Becomes(Dir) /\ Done /\ UNCHANGED stack
Recurse == Does("sync") /\ stack' = Append(stack, Call(item)) /\ Done /\ UNCHANGED dst

----------------------------------------------------------------------------
(* sync_directories: the loop over dst, and its end                         *)

SecondLoop ==
  /\ Ready("src") /\ top.left = {}
  /\ SetTop([top EXCEPT !.loop = "dst", !.left = In(dst, top.dir)])
  /\ UNCHANGED <<dst, phase, item, todo, given>>

NextTarget ==
  /\ Ready("dst")
  /\ \E p \in top.left :
       /\ SetTop([top EXCEPT !.left = @ \ {p}])
       /\ item' = p /\ todo' = IF src[p] = None THEN <<"delete">> ELSE <<>>
  /\ UNCHANGED <<dst, phase, given>>

\* Wrong variant of Delete: remove, also for a directory.
DeleteUnlessFull ==
  /\ Does("delete")
  /\ IF In(dst, item) # {} THEN UNCHANGED dst ELSE Becomes(None)
  /\ Done /\ UNCHANGED stack

\* remove_directory removes what is below a directory before the directory.
Delete ==
  /\ Does("delete")
  /\ \E p \in Below(item) :
       /\ dst[p] # None /\ In(dst, p) = {}
       /\ dst' = [dst EXCEPT ![p] = None]
       /\ IF p = item THEN Done ELSE UNCHANGED <<todo, phase, item, given>>
  /\ UNCHANGED stack

Return ==
  /\ Ready("dst") /\ top.left = {}
  /\ stack' = SubSeq(stack, 1, Len(stack) - 1)
  /\ phase' = IF Len(stack) = 1 THEN "stamp" ELSE phase
  /\ UNCHANGED <<dst, item, todo, given>>

sync_directories ==
  \/ NextSource \/ Remove \/ Open \/ Write \/ SetTime \/ SetMode \/ MakeDir \/ Recurse
  \/ SecondLoop \/ NextTarget \/ Delete \/ Return

----------------------------------------------------------------------------
(* change_timestamps_and_perms, which looks at regular files only           *)

Pairs == {p \in Paths : IsFile(src[p]) /\ IsFile(dst[p])}

\* Wrong variant of Stamp: permissions only.
StampMode ==
  /\ phase = "stamp"
  /\ \/ \E p \in Pairs : /\ dst[p].mode # src[p].mode
                         /\ dst' = [dst EXCEPT ![p].mode = src[p].mode] /\ UNCHANGED phase
     \/ /\ \A p \in Pairs : dst[p].mode = src[p].mode
        /\ phase' = "done" /\ UNCHANGED dst
  /\ UNCHANGED <<stack, item, todo, given>>

Stamp ==
  /\ phase = "stamp"
  /\ \/ \E p \in Pairs : \/ /\ dst[p].mtime # src[p].mtime
                            /\ dst' = [dst EXCEPT ![p].mtime = src[p].mtime]
                         \/ /\ dst[p].mtime = src[p].mtime /\ dst[p].mode # src[p].mode
                            /\ dst' = [dst EXCEPT ![p].mode = src[p].mode]
     \/ (\A p \in Pairs : dst[p].mtime = src[p].mtime /\ dst[p].mode = src[p].mode) /\ UNCHANGED dst
  /\ phase' = IF dst' = dst THEN "done" ELSE phase
  /\ UNCHANGED <<stack, item, todo, given>>

----------------------------------------------------------------------------
(* The user stops the program and starts it again, or runs it once more     *)

Restart ==
  /\ phase' = "sync" /\ stack' = <<Call(<<>>)>> /\ item' = <<>> /\ todo' = <<>>
  /\ UNCHANGED <<src, dst, old>>

Stop == phase # "done" /\ stops < MaxStops /\ stops' = stops + 1 /\ Restart /\ UNCHANGED again
RunAgain == phase = "done" /\ ~again /\ again' = TRUE /\ Restart /\ UNCHANGED stops

Program == sync_directories \/ Stamp
Next == Program \/ Stop \/ RunAgain

Spec == Init /\ [][Next]_vars

----------------------------------------------------------------------------
TypeOK ==
  /\ src \in Sources /\ old \in Targets
  /\ dst \in [Paths -> Items] /\ IsTree(dst)
  /\ phase \in {"sync", "stamp", "done"} /\ item \in Paths \union {<<>>}
  /\ Len(stack) <= Cardinality(Paths) + 1 /\ Len(todo) <= 4
  /\ stops \in 0 .. MaxStops /\ again \in BOOLEAN

\* A directory that is not empty is where src has a regular file.
Blocked(p) == IsFile(src[p]) /\ IsDir(old[p]) /\ In(old, p) # {}
Agrees(s, d, o) ==
  /\ s.kind = d.kind
  /\ IsFile(s) => /\ d.mtime = s.mtime /\ d.mode = s.mode
                  /\ d.data = s.data \/ (IsFile(o) /\ SameFile(s, o) /\ d.data = o.data)

(* At the end the trees are the same, whatever they were and however often  *)
(* the program was stopped half-way: the same items, and for files the same *)
(* contents (unless size and time had been the same before), time and       *)
(* permissions.  Only a full directory in the place of a file stays         *)
(* (rsync.c:56-184, 199-235).                                               *)
Mirrors ==
  phase = "done" =>
    \A p \in Paths :
      IF \E q \in Paths : p \in Below(q) /\ Blocked(q) THEN dst[p] = old[p]
      ELSE Agrees(src[p], dst[p], old[p])

(* What both trees have is never away, not even for a moment, so that a     *)
(* program stopped there leaves it (rsync.c:76-99, 145-146, 177).           *)
NeverAway == \A p \in Paths : src[p].kind = old[p].kind => dst[p].kind = old[p].kind

\* Why that is so: a call that takes something away is only ever about to be
\* made for an item that is of another kind in src.
Frames == [dir : Paths \union {<<>>}, loop : {"src", "dst"}, left : SUBSET Paths]
Calls == {"remove", "open", "write", "utime", "chmod", "mkdir", "sync", "delete"}
KindsKnown ==
  /\ src \in Sources
  /\ dst = [p \in Paths |-> dst[p]] /\ \A p \in Paths : "kind" \in DOMAIN dst[p]
VisitsExist ==
  /\ stack \in Seq(Frames)
  /\ \A k \in DOMAIN stack : stack[k].loop = "src" => \A p \in stack[k].left : src[p] # None
Fit(calls, s, d) ==
  \A k \in DOMAIN calls :
    /\ calls[k] = "remove" => k = 1 /\ s.kind # d.kind
    /\ calls[k] \in {"open", "write", "utime", "chmod"} => IsFile(s)
    /\ calls[k] \in {"mkdir", "sync"} => IsDir(s)
    /\ calls[k] = "delete" => s = None
CallsFit ==
  /\ todo \in Seq(Calls)
  /\ todo # <<>> => item \in Paths /\ Fit(todo, src[item], dst[item])

IInv == KindsKnown /\ VisitsExist /\ CallsFit /\ NeverAway

(* Run once more, the program changes nothing: the times and permissions    *)
(* set by the second walk keep the first from copying again (rsync.c:79,    *)
(* 216-225).                                                                *)
SecondRunIdle == [][again => dst' = dst]_vars
=============================================================================
