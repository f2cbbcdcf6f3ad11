# TLA+ models of the operating-systems laboratory programs (os-lab-sp24)

The repository holds nine assignments, each a program of a few C files that
exercises one area of UNIX systems programming. They share no code, so they are
nine small systems rather than one; what they have in common is that nearly all
of them are several processes or threads that meet in shared memory, semaphores,
message queues, pipes or signals, where the hard questions are about orders of
steps that no test run shows.

Contents: 1 Inventory, 2 Plan, 3 The models, 4 The runs and what they show,
5 What is proved, 6 Only model-checked, 7 Where the code and its descriptions
differ, 8 Not modelled, 9 How to run.

## 1. Inventory

| Part | Source | State | Operations | What is hard |
|---|---|---|---|---|
| Demand paging | `A8/master.c`, `sched.c`, `mmu.c`, `process.c` | page tables SM1, free frame list SM2, timestamp, three message queues, k + 1 semaphores | initial allocation; schedule, requeue, terminate; hit, fault, replace, release; request, retry, complete; clean-up | four kinds of process; who gets which reply; LRU and frame bookkeeping over long runs; clean-up while others still run |
| foothread library | `A7/foothread.c` | mutex = semaphore + owner tid; barrier = mutex + semaphore + count; global exit counters | lock, unlock, barrier wait, create, exit | fields written outside the semaphore; reuse of a barrier; counting exits |
| computesum | `A7/computesum.c` | one barrier per tree node, partial sums, one mutex | node thread, leader | a parent must add after its children; the leader must outlive everybody |
| Topological sort | `A5/boss.c`, `worker.c` | T, idx, semaphores mtx, syncid, ntfy | worker, boss | n workers wait for predecessors on one semaphore |
| Producer-consumer | `A4/prodcons_21CS30009.c` | M[0], M[1], totals | produce, consume, stop | two shared words without locks |
| Doctor's session | `A6/session.c`, `event.c`, `event.h` | event heap, queues, condition variables, counters | assistant, doctor, visitors | flags signalled without their mutex; three-party barriers; threads that end |
| Job manager | `A2/mgr.c` (runs `A2/job.c`) | process table of 11, current child, suspended count | run, continue, kill, quit, list; ^C, ^Z | signal handler against main loop; table full; children left behind |
| Twin shells | `A3/CSE_21CS30009.c` | two pipes, current roles | command, swaprole, exit | byte streams without message borders |
| Directory sync | `A9/rsync.c` | two directory trees | sync, remove, timestamps and modes | file against directory; order of two passes |
| Process tree | `A1/proctree_21CS30009.c` | recursion over forked processes | fork, exec, wait | little: depth-first, parent waits for each child |
| Generators | `A5/gengraph.c`, `A6/arrival.c`, `A7/gentree.c` | none | write an input file | nothing concurrent |
| Tutorials | `A*/examples`, `A1/tests` | none of their own | stand-alone snippets | not part of the programs |

How the parts of one program interact:

- **A8.** master allots frames, forks scheduler, MMU and processes, and waits on
  a semaphore the scheduler posts when k processes have ended. A process enters
  itself in the ready queue (queue 1), waits on its own semaphore until the
  scheduler posts it, and sends page numbers to the MMU (queue 3), which answers
  on the same queue with a frame, -1 (fault) or -2 (illegal). After a fault or
  an end the MMU tells the scheduler (queue 2), which requeues the process or
  counts it out. Only the MMU writes the tables once master has forked it.
- **A7.** computesum's threads call the library; the library's barrier calls its
  own mutex, and mutexes, barriers and exits are all System V semaphores.
- **A5.** The boss makes everything; workers signal each other through one
  semaphore and the boss through another.
- **A4.** Producer and consumers share two integers and nothing else.
- **A6.** The assistant makes the threads of the visitors, wakes doctor and visitors
  through condition variables, and meets both at a barrier of three for each visit.
- **A2.** The manager forks one job at a time and waits for it. Jobs are in process
  groups of their own, so the terminal's signals reach the manager (and a child that
  has not yet left its group), whose handler works on the table main works on.
- **A3.** The supervisor starts two windows joined by two pipes, one for each
  direction; the windows exchange commands, and by one of them their roles.
- **A9.** One process, two trees, and a user who may stop it.

What makes each part correct, in a sentence:

- A8 tables: a frame is in one place only, the free list says which, the set-up
  never hands out more than there is, and the victim is the least recently used
  page of the same process.
- A8 system: one process has the CPU, every request is answered once, and a page once
  loaded is there at the retry; and as long as answers do not go astray, everything
  ends, and is cleaned up only when no process has a request to make any more.
- foothread: mutual exclusion; every waiter at a barrier is owed exactly one
  post; nobody waits in `foothread_exit` for ever.
- computesum: each node adds sums that are final, and the root prints first.
- A5: the listing is complete, the boss's verdict is right, and predecessors
  come first.
- A4: each consumer reads as many items as were sent to it, and all end. (That it reads
  the same items is what the program is there to refute, section 7.)
- A6: nobody is served twice or forgotten; at most one visitor is inside; the
  quotas and priorities hold; the session ends.
- A2: the table says what the children do, and every command comes back to the
  prompt. A3: commands arrive in order, one window at a time reads the keyboard, and a
  user who waits for the prompt meets neither joined commands nor two keyboards. A9: the second tree becomes the first, however often the program was
  stopped on the way, and a second run has nothing to do. A1: the tree is printed
  depth first.

`PROJECT.json` lists the components with their status, and under `hazards` the
places in the code where these can go wrong, with the properties that watch them.

## 2. Plan

In the order of importance, and of what the next module needs:

| Step | Modules | Composes | State |
|---|---|---|---|
| 1 | `FramePool`, `PageTables`, `LocalLru`: the tables of A8 and two abstractions of them | `PageTables` implements `FramePool`; its operations implement those of `LocalLru` | done, proved |
| 2 | `DemandPaging`: the four programs of A8 | built on `LocalLru` | done, proved |
| 3 | `Foothread`, `FootExit`: the library of A7 | | done, first proved |
| 4 | `ComputeSum` | instances of both | done, proved |
| 5 | `TopoSort`, `ProdCons` | | done, proved |
| 6 | `EventQueue`, `EventBag`, `Session` (A6) | `Session` uses the operators of `EventQueue`; its queue implements `EventBag` | done, proved |
| 7 | `Manager` (A2): commands against signals and children | | done, proved |
| 8 | `Shells` (A3), `Rsync` (A9) | | done, proved |
| 9 | A1 | | not planned any more, see section 8 |

Abstract specifications worth stating: the frame pool (done), LRU as a list
(done), a bag of events with a least element (done), a mutex and a barrier seen
from a client as one-step operations (A7).

The theorems worth proving were the safety invariants, the step properties and the
refinements the runs check; section 5 has them all.

The proofs of each program are in a module of its own; those of the three programs that
only pass items, texts or tokens between processes (A3, A4, A5) are together in `IpcProofs`.

Bounds: for each program the smallest instance in which two members of the same
kind compete, one of them can be fast enough to go round twice, and every branch
of the code is taken.

## 3. The models

Common conventions. An action is one access to an object other processes may use
at the same moment (a semaphore, a message queue, a shared word), together with
whatever the process does on its own until the next one. Private loops over
private data are one step. A P on a System V semaphore is one guarded action: a
process that sleeps in P and one that is about to call it are the same state,
because a V only makes the value positive, and which P succeeds next is not
specified. Wrong variants of some definitions (`...Unwaiting`, `...Early` and so
on, marked as such) stand beside the definitions; no specification uses them.
They exist to show that a property depends on that line of the code.

### 3.1 A8: `PageTables`, `FramePool`, `LocalLru`

`PageTables` keeps the variables of the code: `frame` and `lru_ctr` (SM1), `SM2`
with its end mark, `count`, and master's loop variables. Phases "sum" and
"allocate" are master's two loops, one action per iteration (`AddDemand`,
`AllotFrames`); after `ForkMMU` one action stands for all the MMU does to its
tables for one message: `Complete` (-9), `InvalidReference`, `Hit`,
`LoadIntoFreeFrame`, `ReplaceLocally`, `NothingToReplace`. That is sound because
nobody else touches the tables after the fork and the MMU is sequential. The
scan of SM2 up to the end mark and the search for the smallest counter are
modelled as such (`ScanStopsAt`, `IsVictim`). Requests are arbitrary. `valid_bit`
is written and never read, and the fault and reference counts only printed.

`FramePool` says what this bookkeeping is for: frames leave a pool for one
process and come back all at once when that process ends. `LocalLru` is the same
tables as lists of pages in the order of their last use; `PageTables` maps the
counters to such lists (`EvictionOrder`), and `OperationsAreLru` says that each
operation on the tables is the operation of the same name on the lists.

### 3.2 A8: `DemandPaging`

One program counter per process (`master`, `sched`, `mmu`, `pc[p]`), the queues
as sequences, the semaphores as numbers. Names follow the code: `MmuReplyFault`
is the send of -1 followed by the fault handler, `MmuNotifyLoaded` the message
of type 1 to the scheduler, and so on; `PROJECT.json` gives the lines. A queue
hands a message to the receiver that has waited longest (`waiters`), as the
Linux implementation does. After master has removed them, operations on queues
and semaphores fail, and the model follows what each program does then: most
results are ignored, the MMU exits. Page tokens are chosen when they are sent,
which is the same as choosing reference strings beforehand. Their length is
bounded by MaxRefs where the code allows 10 m_i.

`OneCpu` counts all there is between the scheduler's V and the MMU's notice: a
semaphore that is up, a process that runs, its request, the MMU at work, an answer
with a frame that nobody has taken yet, the notice. `Demand` is the number of pages
the processes have together, what master adds up in its first loop.

Nothing is assumed of how soon a process that has sent a request comes to its `msgrcv`
(`process.c:71-74`), because the code gives nothing: the MMU may answer at once, notify the
scheduler, and the next process may ask and receive before the first. Answers then go
astray, and the system may hang (section 7). Two history variables tell these behaviours
from the others without taking any away: `asked` lists who has sent and has not come to
`msgrcv`, and `overtaken` becomes true when one comes before another who had asked earlier
(`ComeToReceive`, part of `ProcReceive`; no guard reads them). Three properties end there:
`RightUnlessOvertaken`, `CleanupUnlessOvertaken` and `EndsUnlessOvertaken`. Being late alone
does no harm; being passed is the one way to a wrong answer. `OneCpu`, `OneAnswerPerRequest`
and `RetryFindsPage` hold in all behaviours.

Two clean-up steps are coarser than one call: `MasterRemoveSems` is the k + 1 `semctl` calls
of `master.c:226-231`, `MasterRemoveQueues` the three `msgctl` calls of 233-236. A program that
meets some of its objects removed and others not is not modelled.

### 3.3 A7: `Foothread`, `FootExit`, `ComputeSum`

`Foothread` models a client that may call anything at any time: unlock a mutex it
does not hold, lock one twice, use a destroyed one. `semval` and `tid` are the two
fields of a mutex, `gate` and `count` those of a barrier, whose inner mutex is
treated as a mutex like the others (called by the barrier's name). `holds` is the
only variable the code does not have: who has passed P and not yet posted. The
post and the clearing of the tid in `foothread_mutex_unlock` are two steps, as
they are in the code, and so are P and the setting of the tid.

`FootExit` is `foothread_create` and `foothread_exit`, with joinable and detached
followers. The leader may create and exit in any order relative to them. The count
may be reached more than once, early and again when more threads have been made;
`EnoughTokens` says that it suffices, and `WaitersGetOut` that everybody gets out.

`ComputeSum` is the program on top of both: a node's calls are the library's
actions, taken from instances (`Lib`, `Ex`), and what the node does between them
is `line[i]`. The tree is a constant. When main returns the process ends (`over`),
whatever the nodes are doing.

### 3.4 A5: `TopoSort`

Every P and V of the workers names semaphore 0 of its set (sem_num is set once,
`worker.c:48`), so `sync` is one number although the set has n members. T starts
either as zeros or with what an earlier run left there (`OldT`): the boss does not
remove the memory when the order is invalid. The workers start after the boss has
made the semaphores, as the assignment demands of its user.

### 3.5 A4: `ProdCons`

Each load or store of M[0] and M[1] is a step. The program has no atomics and no
volatile: the model is that of a build without optimisation, where each access is
a load or a store; an optimising compiler may keep M[0] in a register. `ItemsAgree` is about the number of
items; what a consumer reads may be the item before (`ChecksumsAgree`, section 7).

### 3.6 A6: `EventQueue`, `EventBag`, `Session`

`EventQueue` has the heap operations of `event.c` on sequences, the loops as recursive
functions. `EventBag` is what a priority queue promises its one user: the event she
takes away is the one she looked at, and is least at that time too.

In `Session`, `at[x]` is where thread x is; the assistant's own variables are those of
`main`. Three places in `main` call visitors (`session.c:439-485`, `499-544`,
`574-621`); they differ in their conditions and in where they go on, and are one set
of actions with `part` naming the place and `after` what the hand-shake leads to.
The three functions for visitors differ in names only. The mutexes of doctor and
assistant are held within single steps; a visitor's mutex is held over several, and
`Held` says so. Setting `asst_done` and signalling are two steps, and so are the
assistant's test and her going to sleep, because the threads do not take the mutex she
tests the flag under. A visitor's time of arrival, `came`, is the only thing the code
does not keep. A thread joined twice returns at once in the GNU library; that no new
thread can have its number is part of `DismissedForGood`. Two simplifications: a thread that
is let go at the barrier is out of it in the step that lets it go (`Meet`), so that its way
out through the barrier's own mutex (`session.c:54-55`) cannot meet main's destruction of that
barrier (636-640); and `visitor_infos` (116) is as large as is needed, where the code has 100
entries, which the generator's files do not exceed.

### 3.7 A2: `Manager`

`pc` is the place of main between two statements at which a signal makes a
difference; a command is chosen at the prompt. `parentSigHandler` is the handler as
a whole, run by `Press` between any two steps of main. `proc[p]` is what the kernel
knows of process p: running, stopped, ended and not waited for, or reaped. Until its
exec the child is a copy of the manager (`copy`) with the manager's handler and, until
one of the two calls `setpgid`, in its process group: a key pressed then reaches both,
and the copy's handler, finding pid 0 in its own table, passes the signal on to the
whole group (`ChildHandles`). `Enter` writes `PT[-1]` if the handler came before it;
that is undefined and may go unnoticed or end the program. When the manager has ended
the kernel hangs up stopped jobs, whose process groups are orphaned (`Orphaned`).

`careful`, chosen at the start, tells two users apart: one presses ^Z only while main
waits for a new job, the other at any moment. Both press ^C at any moment. The handler
is one step: a second signal while it runs is not modelled. So is the assignment of the
whole entry (`Enter`, `mgr.c:135`); a signal between its stores is left out. The copy is taken
to start with `currChild` = -1 (`ChildHandles`), where fork hands on what c or k may have left
there (161, 193), and its exec (131) does not fail (`ChildExecs`).

### 3.8 A3: `Shells`

A window is a process that has a role (`curr_role`), a pipe to the other, and perhaps a
command that runs (`busy`). A pipe holds commands that were sent and not read, and one
read takes them all: two or more are one text. That text may happen to name a program, and
it may be one of the two built-in commands, because the window compares the bytes it has
read (`CSE_21CS30009.c:115-117`, `184-186`): the constants `SwapTexts` and `ExitTexts` are the
sequences of commands that run together to "swaprole" and "exit", `Swaps` and `Exits` all
that is taken for these. The window that reads a joined swaprole takes the keyboard, which
the sender, who typed none, keeps. The buffer of window E is not initialised (166), so its
first text may be garbled. A child whose execvp fails does not end (147, 211): it goes on as
the window's shell, while its parent waits for it (`forks`); when it obeys exit the
parent goes on, as an executing shell (`ended`). `typed`, `received` and `spoilt` are history
for the properties ("swapped": texts were obeyed as swaprole); `paced` is a user who types only
when the other window asks for a command.

### 3.9 A9: `Rsync`

A tree is a function from paths to items: nothing, a directory, or a file with
contents in blocks, a modification time and permissions. `stack` holds the calls of
`sync_directories`, each with its loop and what that loop has still to visit, in any
order; `todo` the system calls to make for the item looked at. Each call is a step;
copying is a step for each block. `remove` of a full directory and `open` of a directory
fail without notice; `open` for writing does not fail for a file without write permission,
as for the superuser. `Stop` ends the program between two steps and starts it
again on what it left; `RunAgain` runs it a second time after it has finished.

## 4. The runs and what they show

| Run | Instance | Shows |
|---|---|---|
| `page_tables` | K=2, M=3, F=3, MaxCount=5 | the tables are consistent whatever is requested; `PageTables` implements `FramePool`; replacement is LRU |
| `paging` | K=2, M=3, F=2, MaxRefs=6; 1.8 million states | one CPU, every request answered once, a retried page is there; until a process is overtaken before `msgrcv`, right answers, no early clean-up, and the whole ends |
| `paging_stuck` | K=2, M=2, F=2, MaxRefs=4 | fails: with two answers exchanged the scheduler gives the CPU to a process that has exited, and everybody waits for ever |
| `foothread` | three threads, a mutex, a barrier of two; or three joinable followers and a detached one | mutual exclusion, matching of a barrier's posts and waits, no unlock of an unlocked mutex; whoever waits in exit gets out, if there is a joinable follower; when all have come there are tokens for those who wait |
| `compute_sum` | root, inner node, two leaves | sums are final when used; at most one node is behind when main returns from exit |
| `topo_sort` | n=4, all 64 graphs with edges to greater vertices, two initial T | complete listing; it ends for graphs of two layers |
| `prod_cons` | three consumers, four items of two values | the numbers of items agree; all end |
| `prod_cons_checksum` | two consumers, two items of two values | fails: the checksums differ |
| `session` | two patients and one sales representative are served; 486 files of four or five arrivals | clock and `visitor_infos` have one user at a time, nobody goes in early, out of turn or never, the doctor is not idle while somebody waits nor needed after he left, the heap is a priority queue, and only a missed signal stops the session |
| `manager` | a table for two jobs, three forks, three keys | no stopped job is lost; the table is right at the prompt for a careful user; only a ^Z during c leaves the manager waiting for ever |
| `shells` | five commands out of ls, swap, role, ex, it, swaprole and exit | one window at the keyboard and commands in order, until texts run together to swaprole; for a paced user one by one; the dialogue goes on, with the exceptions `GoesOn` names |
| `rsync` | 2600 pairs of trees over four paths, files of up to two blocks; one stop, one second run | the trees agree at the end, but where a full directory stands for a file; what both have is never away; a second run changes nothing |

Why the bounds are enough to be interesting:

- `page_tables`: shares round down (m_i of 1..3, three frames), so a process may
  begin with none, some or all of its pages; faults meet a free frame, a victim, or
  neither. MaxCount = 5 operations are enough to fill memory, refresh a page,
  replace, release and load again. The bound stops the model where the code goes on.
- `paging`: m_i = 3 and 1 with two frames gives one process a frame and the other
  none, which then faults until the first has ended, the worst case for
  `EndsUnlessOvertaken`; m_i = 3 and 3 makes both replace their only page; each process may
  ask for an illegal page at any point. MaxRefs = 6 is the least length that allows
  m_i = 3 (the code's strings are 2 m_i to 10 m_i long).
- `foothread`: with three threads and a barrier of two, a thread can come back to
  the barrier while one of its former partners has not passed and a third arrives.
  Threads are interchangeable, hence the symmetry set. The library's two halves share no data,
  so the run checks them side by side: `half` says which of them a behaviour is about. The
  liveness property `WaitersGetOut` is about the followers, which are not in the symmetry set.
- `compute_sum`: the inner node's barrier feeds the root's; inputs are powers of
  two, so a missing or doubled summand shows.
- `topo_sort`: any acyclic graph has its edges to greater vertices after
  renumbering; four vertices give diamonds, paths of three edges, and pairs of
  edges that compete for signals.
- `prod_cons`: three consumers: one served, one served twice, one never.
- `session`: five arrivals, before, at and after the opening and during visits, so
  heaps of up to five events with both children compared; quotas that are met in some
  files and not in others, visitors refused, two of one kind waiting at once, a doctor
  dismissed early and late, visitors left when the events are over. The clock needs no
  bound: it stops with the last visit.
- `manager`: two places in the table, so that it can be full with a third job asked
  for; a third fork, for an entry that went to PT[-1]. Three keys: stop a job, stop it or
  another again, and one more in the window between fork and entry or after c or k.
- `shells`: five commands are enough for both windows to take both roles, for a child to
  take over in each, for exit after any of these, and for texts that run together to
  swaprole in either direction and the user then typing into both windows.
- `rsync`: paths a, b, a/c and a/c/d, so a directory can stand for a file, empty or full,
  at two depths, and a whole directory be deleted. Files differ in contents,
  size, time and permissions; one in the source is as old as the run itself, so that a
  half-written copy has its time. One stop, at any step, leaves every intermediate tree.

Fairness. Liveness is stated under weak fairness of each process or thread as a
whole (`WF_vars(Worker(i))`, `WF_vars(Process(p))`, ...): the operating system
runs whatever can run. No fairness is assumed of a particular semaphore, queue or
branch. In `Manager` main and the children are scheduled, and the user answers a question
that was asked, but need not give another command; in `Shells` the windows run and the user
need not type. In `FootExit` only threads inside the library are assumed to go on, apart
from joinable followers, which do call `foothread_exit`: the leader need not create
anybody. `EndsUnlessOvertaken` of `DemandPaging` does not need strong fairness although a
process without frames faults again and again: the ready queue is first in, first
out, so the other one is served in between.

Deadlock is checked in `page_tables`' setup phases only through the invariants (the
bound stops it); in `paging` the system may really stop, when answers were exchanged, and
`EndsUnlessOvertaken` says only then. The other programs end or may block by the client's own
doing (in `session` by the missed signal, and `SessionEnds` says by nothing else), and their configurations say so.

## 5. What is proved

For all values of the constants, under the named assumptions of each module (positive
K and M; finite sets of threads; a trip count of at least one; a tid 0 that is no
thread; graphs over the vertices; a tree in which every node leads to the root, with
integers as inputs that do not overflow; exit and swaprole are not the names of programs;
src and dst are trees over finitely many paths, the beginnings of a path being paths;
files of events, each with a positive duration, and two quotas of at least one).
All proofs are checked by TLAPS. The types of `PageTables`, `Foothread`, `TopoSort`,
`ProdCons`, `Shells`, `FootExit` and `ComputeSum` are proved here and are not checked by a
run as well; those of `DemandPaging`, `Session`, `Manager` and `Rsync` are proved and
checked.

- **`PageTablesProofs`.** `Invariance` proves `IInv`, the conjunction of type
  correctness, `SetupInv`, `FramesExclusive`, `FreeListExact` and `OnlyLegalPages`.
  `FramesExclusive` alone is not inductive: that a frame taken from the free list is
  mapped by nobody is `FreeListExact`, and that the set-up loop does not run over
  the end mark is `SetupInv`, which bounds what has been handed out by what the
  cumulative sums allow: (sum of the first i demands) x F / (sum of all). The lemmas
  `QuotientBound` to `SmallerShare` are that arithmetic. From it follow
  `FramesExclusiveAlways`, `FreeListExactAlways` and `Refinement`, in which each
  action maps to `Acquire`, `Release` or a stutter of `FramePool`.
  `PartitionAlways` says the same of the pool: a frame is in one place.
  `OperationsAreLruAlways` is the step from counters to lists. A set of pages has
  exactly one list sorted by counter and then by number (`ListExists`, `ListsAgree`;
  `SortedLists` for the `CHOOSE` in `Sorted`), so it is enough to show that what the
  list operation yields is such a list of the pages then in memory. That a page used
  now goes to the end is `LruInv`: no counter is ahead of the timestamp, and all are 0
  until the MMU serves, so that master's pages stand in the order of their numbers.
- **`DemandPagingProofs`.** In three parts, of which two hold in every behaviour.
  `Invariance` proves `IInv`. `OneCpu` and `OneAnswerPerRequest` count messages, processes
  and semaphores; a step moves a one from one place of the sum to another, and for that
  one has to know where each program is and what it has then (`Stages`: the MMU a
  request in hand, a process an answer, a semaphore not up twice, queues and semaphores
  removed in this order), that those recorded as waiting at queue 3 are those who wait,
  each once (`WaitersExact`), and that the frames free and held are F together
  (`FramesKept`), which keeps `nfree` in its range.
  `TypeOKAlways`, `OneCpuAlways` and `OneAnswerPerRequestAlways` follow: also when answers
  go astray, none is lost or sent twice, and one process has the CPU.
  `PInv` adds what of the requests is true whoever gets the answers: a request is for the
  token in its sender's hand (`TokensTrue`), and what was loaded is the last page of its
  process until that has tried again (`Recent`), because a process that waits for its
  semaphore has nothing else served, even if the -1 it got was another's. Hence
  `RetryFindsPageAlways`. `AskedExact` says that `asked` lists those before their `msgrcv`.
  `OInv` holds until somebody is overtaken. Then those who wait, followed by those who have
  asked, get their answers in the order of the answers stored, the one the MMU has in hand
  and the requests (`OneOrder`): the answer that is due is the first one's (`ReplyGoesHome`,
  `ReceiveInTurn`). The MMU says "illegal" just when the page is (`VerdictTrue`), and each last
  request is counted once on its way to `terminated` (`EndsCounted`), so that k have been sent
  when the scheduler is done (`Quiet`, with `NotYet` and `DoneAtK` of `PInv`).
  `OrderInvariance` puts the three together, and `RightUnlessOvertakenAlways` and
  `CleanupUnlessOvertakenAlways` follow. No theorem assumes anything of the order of steps.
- **`FoothreadProofs`.** `MutexInvariance` proves `MutexInv`. Mutual exclusion rests
  on the value of the semaphore (`ValueTellsLocked`: 0 exactly while somebody holds
  it) and on who may post: `OwnerHolds` says that a tid that is set names a holder or
  a thread about to clear it, which makes the check of line 94 sufficient although
  the tid is written outside the semaphore; `InsideHolds` says that whoever is past
  the check holds the mutex. `NeverAlreadyUnlockedAlways` is then a step property.
  `TokensMatchAlways` adds the counting of waiters and posts at each barrier; the
  cases are who is between arrival and gate, and `AloneAtBarrier` (from mutual
  exclusion) says that nobody else counts meanwhile.
  `ExitInvariance` proves `ExitInv` of `FootExit`: one thread at a time under `mtx`,
  what the two counters count (`CountsOK`), and `PostsOK`: once the count is reached some
  thread posts, or has posted, a token for each thread there is, and tokens made and
  tokens taken agree. A thread made after an early match raises `num_threads` above the
  count, as the leader has not exited yet (`CountBehind`), so a later exit matches again.
  `EnoughTokensAlways` counts: when all have come the count is one more than the
  threads, one of those who met has posted, and only the others can wait.
- **`ComputeSumProofs`.** `Invariance` proves `IInv`. `LinesOK` says where in the library
  a node is while it is at a line of `foothread_func` or main, so that each step of an
  instance is one of few. `BarriersOK` says who has arrived at the barrier of a parent: it
  counts those at the gate until all have come, and nobody passes before that. `SumsOK`
  then says what `sum` holds: until a node adds, what it began with, and afterwards
  `Total`. That `Total` of a node is the sum of its children's (`TotalUnfolds`) is not a
  matter of course, as `Total` is defined by recursion over a tree that is a constant: the
  recursion has a solution on ever larger sets of nodes closed under `Children`, and the
  largest is all of them, because every node leads to the root. `SumsRightAlways` follows:
  a node adds only what its children have finished. `PhasesOK` and `CountsOK` are
  the counters of `foothread_exit`: who has been counted in `num_threads`, who has posted
  and for whom; `MetOK`, `RootMutexOK` and `TokensOK` say how far the root can be when its
  children's threads have called exit, because all of them meet at its barrier. The leader
  counts as one of those who exit, so at most one node is missing when main returns, and it
  is the root or one of its children: `OnlyRootsGroupMissingAlways`.
- **`SessionProofs`.** `Invariance` proves `IInv`. While the assistant is at a given place
  there are few places for the doctor (`DoctorFollows`) and for the visitors
  (`VisitorsFollow`): a thread just made reports before anything else happens, and one
  visitor at most has been called, is inside or at the barrier. That is what stands in for
  the missing mutex: `UnlockedDataSafeAlways`. `InfoRight` adds that an entry of
  `visitor_infos` is read before it is used again. Those outside are counted exactly by
  the number waiting, one who was called and one just made (`WaitingExact`); with what
  the quotas leave (`QuotasKept`: nobody waits when both are full, as reporters
  go first) and what each part of the loop knows (`PartsKnown`) it gives
  `DismissedForGoodAlways` and `NobodyForgottenAlways`. `InTurnAlways` adds `RankKept`:
  nobody of a higher priority waits while somebody is called. `TypesAlways` bounds
  the counters by the arrivals left in the heap (`ArrivalsCounted`), which needs that the event
  she works on is still at its head (`HeadKept`: the end of a visit does not come before it).
  The heap's loops are recursive functions, and a recursive function is what its
  definition says only if it has a solution: `RecursionDefines` proves that for every
  recursion in which each call is smaller, and `SiftDownUnfolds` and `SiftUpUnfolds` apply it.
  From there each operation rearranges the queue (`SiftDownRearranges`, `SiftUpRearranges`),
  so no arrival is lost or doubled, and puts it in order: a queue in order but for the
  children of one position (`OrderedBelow`), or for one position itself (`OrderedAbove`),
  keeps that form with each exchange and is in order when the loop stops
  (`SiftDownOrders`, `SiftUpOrders`). `eventcmp` may say "less" both ways round, or neither,
  of two alike events; `EventOrder` is what the loops need of it. So `HeapOrderedAlways`,
  and the root is a least event (`RootLeast`). `QueueRefinement` adds that a rearrangement
  is the same bag (`SameBag`) and that the assistant deletes the head she looked at
  (`HeadDeleted`, from `HeadKept`): the heap of `event.c` implements `EventBag`.
- **`IpcProofs`**, in three parts. *A3*: `Invariance` proves `IInv`. Until texts run together
  to swaprole, texts are under way in one direction only (`OneWay`), what was typed is what
  was read and then what is under way (`Complete`), and while a swaprole is under way nobody
  is at a keyboard (`KeyboardAlone`), which is what makes the window that reads it the only
  one. From it follow `OneInputAlways` and `InOrderAlways`, for any set of texts that would run
  together to a built-in command. They hold also with garbled texts, with texts joined to
  anything but swaprole, and with children that took over. In every behaviour `Paced` says
  that a user who waits for the prompt has one text under way at most, so that for him
  neither exception arises.
  *A4*: `ProdConsInvariance` proves `Turns` (what M[0] may be, given where
  producer and consumers are) and `CountsMatch` (offered = read + under way, for
  each consumer); `ItemsAgreeAlways` follows because at the report nothing is under
  way. *A5*: `TopoInvariance` proves that mtx admits one worker at a time, that
  the first idx places of T are those who have listed themselves, each once, and
  that each notification is under way or heard. When n have been heard everybody
  has notified (`EverybodyNotified`), hence `ListingCompleteAlways` and
  `NoneNeedsRemovedAlways`. Nothing is assumed of the graph, not even that it has no
  cycles: these facts do not depend on who signals whom.
- **`ManagerProofs`.** `Invariance` proves `IInv`: a child has at most one entry
  (`EntriesDiffer`: pids grow), the entry about to be made is for a child the table does
  not know (`NotYetEntered`), and what lines 165 and 196 write over "suspended" is about a
  job that has ended (`EndedWhenMarked`). `StoppedIsListedAlways` follows. The handler may
  run between any two statements, also with an entry not yet filled in: then kill reaches
  the manager's own group, which leaves nothing stopped. `TypeOKAlways` needs a count: one
  ^Z may reach the handler twice, in the manager and through the copy, so that `numSuspended`
  is at most the keys pressed is inductive only together with what c or k left at
  `currChild` (`Leftover`) and what the copy may still pass on (`Unpassed`, `CountBound`).
  `TableRightAlways` is about the careful user, with `TableInv`: a child has an entry
  or is about to get one (`ChildrenEntered`), a job that runs is waited for
  (`RunningAwaited`), `currChild` is at a suspended entry only while c or k are about it
  (`CurrentKnown`), suspended entries have a pid (`EntriesFilled`), no ^Z finds a child
  without its own group (`KeysInTime`), and `numSuspended` counts the suspended entries but
  for the job c or k have at hand (`Counted`).
- **`RsyncProofs`.** `Invariance` proves `IInv`: every item has a kind (`KindsKnown`), the
  loop over src meets only what src has (`VisitsExist`), and the calls about to be made fit
  the item they are made for (`CallsFit`: only the first may be remove, and then the kinds
  differ). `NeverAwayAlways` follows; that remove_directory takes nothing src has is
  `NothingBelow`, from src being a tree. `MirrorsAlways` needs to know what dst is half-way,
  on its second start too. `TreeInv`: a tree (`TargetTree`) in which an item is gone, as it
  was, or of the kind it shall be (`KindsKept`), a file untouched, copied or the first part
  of its copy (`DataKnown`), and what is in a full directory that stands for a file is
  untouched (`KeptStays`). `WalkInv`: the directories of the calls are each the beginning
  of the next (`OnTheWay`), the calls about to be made find what they expect
  (`CallRight`), and whatever a call has neither before it (`Ahead`) nor in hand (`Busy`)
  is right with all that is below it (`WalkDone`). The step that makes it inductive is
  `Apart`: no item that is done with lies above the item at hand, so a change of the
  one leaves the others right. When `sync_directories` returns for the last time all
  is right but times and permissions, which the second walk adds (`Stamped`).
  `SecondRunIdleAlways` starts from there (`IdleInv`): trees that agree call for no
  copy (`NoCallsFor`), and a full directory answers remove and open with an error.
  `TypeOKAlways` bounds the recursion by the number of directories (`StackBound`).

## 6. Only model-checked

- Liveness: `EndsUnlessOvertaken`, `WaitersGetOut`, `DecidesInLayers`, `AllEnd`, `SessionEnds`,
  `Prompted`, `GoesOn`. Liveness is out of the prover's reach. Of
  `WaitersGetOut` the safety part is proved (`EnoughTokensAlways`); of the other programs
  the safety invariants of section 5.

## 7. Where the code and its descriptions differ

Statements of the code about itself that TLC refutes:

1. `Termination` of `DemandPaging` (run `paging_stuck`; `findings` in `PROJECT.json` has the
   quotations): answers on queue 3 carry the receiver's number, but a process takes the first
   message of type 2. The MMU reports an illegal reference to the scheduler before it
   sends -2 (`mmu.c:164`, `174`), and a fault soon after -1 (204, 264), so the next process may
   ask and receive while the first is still before its `msgrcv`. If then A takes the -1 that
   was B's and waits for its own semaphore, and B takes A's -2 and exits, the scheduler, which
   has been told that B's page is loaded and that A has ended, gives the CPU to the dead B
   (`sched.c:63`, `74`) and waits for ever.
   `RightAnswer` and `CleanupAfterLastRequest` fail for the same reason.
2. `ChecksumsAgree` of `ProdCons` (run `prod_cons_checksum`): a consumer may read M[1] after
   `Offer` and before `Put` (`prodcons_21CS30009.c:81-83`); it counts the item before once more and
   never reads the new one, so the two checksums printed (65, 98) differ where the counts
   agree. The assignment provokes this by a delay, to show that synchronisation is needed.
3. `HolderMayUnlock` of `Foothread` ("Mutex can only be unlocked by the same thread that locked
   it", `foothread.c:95`): `foothread_mutex_unlock` posts before it clears the tid, and
   may clear the tid of the next owner, whose unlock is then refused for ever.
4. `RootPrintsFirst` of `ComputeSum` ("wait for all threads to exit", `foothread.c:68`): the leader counts in `exited_threads` but not in `num_threads`,
   so it may leave one node behind, the root for instance, and end the process.
5. `PredecessorsFirst` of `TopoSort` ("semaphore to block workers until all predecessors are done",
   `boss.c:51`): all workers use semaphore 0 of the set that has one for each.

The last three, and `RightAnswer` and `CleanupAfterLastRequest`, are stated in their modules;
adding one to the configuration of its module, as an
invariant or (`HolderMayUnlock`) as a property, gives the counterexample.

Seen while modelling, without a run of their own:

- A4: the producer calls `wait` once for n children (`prodcons_21CS30009.c:93`) and
  reports when the first has ended, where the assignment lets it wait for all.
- A6: the assistant may sleep for ever. `asst_done` is set and signalled without
  `asst_mutex` (`session.c:164-165`, `178-179`), so the signal can fall between her test
  and her sleep: `SignalMissed`, the exception in `SessionEnds`.
- A6: a reporter who comes while the last patient or sales representative is inside is
  sent away: the quotas count a visit when it begins, and `session.c:320` looks at them
  only. The assignment has the doctor see all reporters who come while he is there.

- A2: a job that was continued and is stopped again by ^Z leaves the manager waiting for
  ever: `waitpid` at `mgr.c:163` has no WUNTRACED, and the handler has already set `currChild`
  to -1, so a ^C only prints a prompt. The assignment (LA2.pdf) has such a job re-suspended.
  `Prompted` names the case.
- A2: "-1 if no child is running" (`mgr.c:42`) is not kept: c and k leave `currChild` at the
  job, so a later ^C or ^Z marks a finished job TERMINATED or SUSPENDED and signals its old pid;
  after such a ^Z `numSuspended` counts it too. ^C or ^Z between fork and entry (`mgr.c:123-135`)
  ends the manager or makes it write PT[-1]. Hence the user who is `careful` in `TableRight`.
- A2: a continued job that ^C ended is listed as FINISHED (`mgr.c:164`), where the sample
  output of LA2.pdf has TERMINATED.
- A3: the supervisor waits for one of its two windows (`CSE_21CS30009.c:56`). Commands typed
  fast run together; "swap" and "role" do to swaprole, and then both windows take commands, the
  exception in `OneInput` and `InOrder`; the first text read by window E may be garbled; and after a command that was
  not found exit may end one process of the window only. `GoesOn` names these cases.
- A9: a directory that is not empty stays where src has a file (`rsync.c:122`), and times and
  permissions of directories are never set (`rsync.c:229-233`); LA9.pdf asks for both.

Consequences that need no run of their own. Even with nobody overtaken, when the last
process asks for an illegal page master may remove the queues before the MMU has sent -2
(`mmu.c:164`, `174`); the MMU then exits without its totals, and the process goes on to "Execution
complete" with its page number taken for a frame. `CleanupUnlessOvertaken` permits this: the
process has made its last request. `NeverAlreadyUnlocked` says that a branch of the library is
dead; that a lock is not posted twice, so that two threads get in, is `MutualExclusion`. After
(3), in `ComputeSum`, the mutex inside a barrier can stay locked and all threads wait for ever,
and `OnlyRootsGroupMissing` bounds who may be left behind but does not keep main from
destroying a barrier (`computesum.c:84`) that one still uses. After (5), the signals can be
split so that no worker gets all of its own: for graphs with a path of two edges the boss may
wait for ever, which is why `DecidesInLayers` speaks of the others only. By the rule of (4), a
leader with detached followers only waits in `foothread_exit` for ever (num_threads = 0), the
premise `num_threads > 0` of `WaitersGetOut`.

## 8. Not modelled

- A1: a process prints its city, and for each child forks, executes the same program
  and waits before it forks the next. Nothing is shared and nothing races; a model would
  restate the recursion.
- In A2: a second signal while the handler runs, and pids used again after 32768 others. In
  A3: end of input, commands of more than 99 characters, and windows that cannot be
  opened. In A9: items that are neither directories nor regular files, full disks, missing
  rights, and programs that change the trees meanwhile.
- In A6: wake-ups without a signal, which the barrier's wait without a loop
  (`session.c:54`) would not withstand; the printed times and token numbers.
- Input generators, the course's examples and A1's tests: no state, not part of the
  programs.
- System calls that fail for lack of resources, except on objects that have been
  removed; the layout of output; the contents of the files read.
- In A7: stack sizes; a NULL attribute, which `foothread_create` allows at one line
  and dereferences at another. In A5: workers started before the boss. In A8: SM3,
  and the branch for page -2, which no process sends.

## 9. How to run

`tlc -workers 2 -config X.cfg M` for each run (`PROJECT.json` names module and
configuration; `M` extends the specification it instantiates), and `tlapm M.tla`
for each of the eight modules `*Proofs`. A run takes between a few seconds and two or three minutes.
