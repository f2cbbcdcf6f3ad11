------------------------------ MODULE DemandPaging ------------------------------
(***************************************************************************)
(* The whole of A8: master.c, sched.c, mmu.c and k copies of process.c,    *)
(* which run concurrently and meet in three message queues and k + 1       *)
(* semaphores.  What the MMU does to its tables is LocalLru (which         *)
(* PageTables implements); this module is about who runs when, which       *)
(* message reaches whom and how everything ends.                           *)
(*                                                                         *)
(* The queues are System V queues as Linux keeps them: a message goes to   *)
(* the receiver that has waited longest for its type, or is stored; on     *)
(* removal (IPC_RMID) everything stored is lost and every wait fails.      *)
(***************************************************************************)
EXTENDS LocalLru, FiniteSets

CONSTANT MaxRefs  \* bound on the length of a reference string (the code: 10 * m_i)

ASSUME SizeAssumption == /\ K \in Nat \ {0}
                         /\ M \in Nat \ {0}
                         /\ F \in Nat
                         /\ MaxRefs \in Nat

NoToken == -1

(* What the MMU sends to a process: a frame number, -1 or -2. *)
Verdict == {"frame", "fault", "invalid"}
Answer  == [pid : Proc, num : Verdict]
NoAnswer == [pid |-> -1, num |-> "none"]
NoRequest == [pid |-> -1, num |-> -1]

VARIABLES
  m_i,           \* m_i[p]: number of pages process p may use
  master, next,  \* what master does; its loop variable
  sched,         \* what the scheduler does
  terminated,    \* sched.c: terminated_processes
  mmu,           \* what the MMU does
  cur,           \* mmu.c: the request in hand, [pid, num]
  ended,         \* mmu.c: terminated_processes
  pc,            \* pc[p]: what process p does
  left,          \* left[p]: tokens of the reference string not yet served
  token,         \* token[p]: the token in hand, chosen when first sent
  answer,        \* answer[p]: the message p has received
  sem, sem_sched,  \* the semaphores of the processes and of master
  semsRemoved,   \* master has removed the semaphores
  queuesRemoved, \* master has removed the message queues
  ready_queue,   \* msq1: process numbers
  msq2,          \* to the scheduler: [type, pid]
  requests,      \* msq3, type 1: [pid, num], num a page or -9
  replies,       \* msq3, type 2, not yet received
  waiters,       \* processes waiting in msgrcv for type 2, longest first
  asked,         \* history: who has sent a request and not come to msgrcv, in this order
  overtaken      \* history: one has come to msgrcv before another who had asked earlier

history    == <<asked, overtaken>>
masterVars == <<m_i, master, next>>
schedVars  == <<sched, terminated>>
mmuVars    == <<mmu, cur, ended>>
procVars   == <<pc, left, token, answer, history>>
semVars    == <<sem, sem_sched, semsRemoved>>
queueVars  == <<queuesRemoved, ready_queue, msq2, requests, replies, waiters>>
vars == <<lruVars, masterVars, schedVars, mmuVars, procVars, semVars, queueVars>>

Request == [pid : Proc, num : Page \cup {-9}]

MemoryTypes == nfree \in 0 .. F /\ resident \in [Proc -> Seq(Page)]
MasterTypes == /\ m_i \in [Proc -> 1 .. M]
               /\ master \in {"allocate", "wait", "rm_sems", "rm_queues", "exited"}
               /\ next \in 0 .. K
SchedTypes  == sched \in {"ready", "mmu", "signal", "exited"} /\ terminated \in Nat
MmuTypes    == /\ mmu \in {"loop", "end", "notify_end", "notify_invalid", "reply_invalid",
                           "reply_frame", "reply_fault", "notify_loaded", "reported", "failed"}
               /\ cur \in Request \cup {NoRequest}
               /\ ended \in Nat
ProcTypes   == /\ pc \in [Proc -> {"start", "ready", "send", "recv", "waiting", "answered",
                                   "faulted", "stuck", "completed", "killed"}]
               /\ left \in [Proc -> Nat]
               /\ token \in [Proc -> Page \cup {NoToken}]
               /\ answer \in [Proc -> Answer \cup {NoAnswer}]
SemTypes    == /\ sem \in [Proc -> Nat] /\ sem_sched \in Nat
               /\ semsRemoved \in BOOLEAN
QueueTypes  == /\ queuesRemoved \in BOOLEAN
               /\ ready_queue \in Seq(Proc)
               /\ msq2 \in Seq([type : {1, 2}, pid : Proc])
               /\ requests \in Seq(Request)
               /\ replies \in Seq(Answer)
               /\ waiters \in Seq(Proc)
HistoryTypes == asked \in Seq(Proc) /\ overtaken \in BOOLEAN

ProgramTypes == /\ MemoryTypes /\ MasterTypes /\ SchedTypes /\ MmuTypes
                /\ ProcTypes /\ SemTypes /\ QueueTypes

TypeOK == ProgramTypes /\ HistoryTypes

Init ==
  /\ LruInit
  /\ m_i \in [Proc -> 1 .. M]
  /\ master = "allocate" /\ next = 0
  /\ sched = "ready" /\ terminated = 0
  /\ mmu = "loop" /\ cur = NoRequest /\ ended = 0
  /\ pc = [p \in Proc |-> "start"]
  /\ left \in [Proc -> 0 .. MaxRefs]
  /\ \A p \in Proc : 2 * m_i[p] <= left[p] /\ left[p] <= 10 * m_i[p]
  /\ token = [p \in Proc |-> NoToken]
  /\ answer = [p \in Proc |-> NoAnswer]
  /\ sem = [p \in Proc |-> 0] /\ sem_sched = 0
  /\ semsRemoved = FALSE /\ queuesRemoved = FALSE
  /\ ready_queue = <<>> /\ msq2 = <<>> /\ requests = <<>>
  /\ replies = <<>> /\ waiters = <<>>
  /\ asked = <<>> /\ overtaken = FALSE

--------------------------------------------------------------------------------
(* master.c *)

(* Process p's share of the frames: in proportion to m_i, rounded down; the sum *)
(* of the m_i is the number of pages there are.                                   *)
Demand == Cardinality({r \in Proc \X Page : r[2] < m_i[r[1]]})
Share(p) == (m_i[p] * F) \div Demand

(* One iteration of the loop that allots frames. *)
MasterAllot ==
  /\ master = "allocate" /\ next < K
  /\ Allot(next, IF Share(next) < m_i[next] THEN Share(next) ELSE m_i[next])
  /\ next' = next + 1
  /\ UNCHANGED <<serving, m_i, master, schedVars, mmuVars, procVars, semVars, queueVars>>

(* Scheduler, MMU and processes are forked; they run from here on. *)
MasterFork ==
  /\ master = "allocate" /\ next = K
  /\ master' = "wait"
  /\ serving' = TRUE
  /\ UNCHANGED <<memory, m_i, next, schedVars, mmuVars, procVars, semVars, queueVars>>

MasterWait ==
  /\ master = "wait"
  /\ sem_sched > 0
  /\ sem_sched' = sem_sched - 1
  /\ master' = "rm_sems"
  /\ UNCHANGED <<lruVars, m_i, next, schedVars, mmuVars, procVars, sem, semsRemoved, queueVars>>

MasterRemoveSems ==
  /\ master = "rm_sems"
  /\ semsRemoved' = TRUE
  /\ master' = "rm_queues"
  /\ UNCHANGED <<lruVars, m_i, next, schedVars, mmuVars, procVars, sem, sem_sched, queueVars>>

(* A process whose wait fails keeps its own request in msg3: num is a page. *)
FailedReceive(p) == [pid |-> p, num |-> "frame"]

MasterRemoveQueues ==
  /\ master = "rm_queues"
  /\ queuesRemoved' = TRUE
  /\ ready_queue' = <<>> /\ msq2' = <<>> /\ requests' = <<>>
  /\ replies' = <<>> /\ waiters' = <<>>
  /\ pc' = [p \in Proc |-> IF pc[p] = "waiting" THEN "answered" ELSE pc[p]]
  /\ answer' = [p \in Proc |-> IF pc[p] = "waiting" THEN FailedReceive(p) ELSE answer[p]]
  /\ master' = "exited"
  /\ UNCHANGED <<lruVars, m_i, next, schedVars, mmuVars, left, token, history, semVars>>

Master == MasterAllot \/ MasterFork \/ MasterWait \/ MasterRemoveSems \/ MasterRemoveQueues

--------------------------------------------------------------------------------
(* sched.c *)

(* The process at the head of the ready queue gets the CPU. *)
SchedDispatch ==
  /\ serving
  /\ sched = "ready"
  /\ ready_queue # <<>>
  /\ ready_queue' = Tail(ready_queue)
  /\ sem' = [sem EXCEPT ![Head(ready_queue)] = @ + 1]
  /\ sched' = "mmu"
  /\ UNCHANGED <<lruVars, masterVars, terminated, mmuVars, procVars, sem_sched,
                 semsRemoved, queuesRemoved, msq2, requests, replies, waiters>>

(* Wrong variant of AfterNotice: off by one. *)
AfterNoticeEarly == IF terminated' >= K - 1 THEN "signal" ELSE "ready"

AfterNotice == IF terminated' >= K THEN "signal" ELSE "ready"

(* Wrong variant of SchedRequeue: the process is not put back. *)
SchedRequeueForgetting ==
  /\ sched = "mmu"
  /\ msq2 # <<>> /\ Head(msq2).type = 1
  /\ msq2' = Tail(msq2)
  /\ terminated' = terminated
  /\ sched' = AfterNotice
  /\ UNCHANGED <<lruVars, masterVars, mmuVars, procVars, semVars,
                 queuesRemoved, ready_queue, requests, replies, waiters>>

(* Type 1: the fault of a process has been handled; back to the ready queue. *)
SchedRequeue ==
  /\ sched = "mmu"
  /\ msq2 # <<>> /\ Head(msq2).type = 1
  /\ msq2' = Tail(msq2)
  /\ ready_queue' = Append(ready_queue, Head(msq2).pid)
  /\ terminated' = terminated
  /\ sched' = AfterNotice
  /\ UNCHANGED <<lruVars, masterVars, mmuVars, procVars, semVars,
                 queuesRemoved, requests, replies, waiters>>

(* Type 2: a process has terminated. *)
SchedTerminate ==
  /\ sched = "mmu"
  /\ msq2 # <<>> /\ Head(msq2).type = 2
  /\ msq2' = Tail(msq2)
  /\ terminated' = terminated + 1
  /\ sched' = AfterNotice
  /\ UNCHANGED <<lruVars, masterVars, mmuVars, procVars, semVars,
                 queuesRemoved, ready_queue, requests, replies, waiters>>

SchedSignal ==
  /\ sched = "signal"
  /\ sem_sched' = sem_sched + 1
  /\ sched' = "exited"
  /\ UNCHANGED <<lruVars, masterVars, terminated, mmuVars, procVars, sem,
                 semsRemoved, queueVars>>

Scheduler == SchedDispatch \/ SchedRequeue \/ SchedTerminate \/ SchedSignal

--------------------------------------------------------------------------------
(* mmu.c *)

(* The next message is received; r says what it is and step what follows. *)
Receive(r, step) ==
  /\ serving
  /\ mmu = "loop"
  /\ ended < K
  /\ requests # <<>> /\ r = Head(requests)
  /\ requests' = Tail(requests)
  /\ cur' = r
  /\ mmu' = step
  /\ UNCHANGED <<serving, masterVars, schedVars, ended, procVars, semVars,
                 queuesRemoved, ready_queue, msq2, replies, waiters>>

MmuEnd(r) == /\ r.num = -9
             /\ Receive(r, "notify_end")
             /\ ReleasePages(r.pid)

MmuInvalid(r) == /\ r.num >= m_i[r.pid]
                 /\ Receive(r, "notify_invalid")
                 /\ ReleasePages(r.pid)

IsLegal(r) == r.num # -9 /\ r.num < m_i[r.pid]

MmuHit(r) == /\ IsLegal(r)
             /\ InMemory(r.pid, r.num)
             /\ Receive(r, "reply_frame")
             /\ UNCHANGED memory

MmuFault(r) == /\ IsLegal(r)
               /\ ~ InMemory(r.pid, r.num)
               /\ Receive(r, "reply_fault")
               /\ UNCHANGED memory

(* A message to the scheduler about the current process. *)
Notify(type, step) ==
  /\ ~ queuesRemoved
  /\ msq2' = Append(msq2, [type |-> type, pid |-> cur.pid])
  /\ mmu' = step
  /\ UNCHANGED <<lruVars, masterVars, schedVars, cur, procVars, semVars,
                 queuesRemoved, ready_queue, requests, replies, waiters>>

(* Wrong variant of MmuNotifyEnd: the end of a process is answered with -2. *)
MmuNotifyEndAnswered == mmu = "notify_end" /\ Notify(2, "reply_invalid") /\ UNCHANGED ended

MmuNotifyEnd     == mmu = "notify_end" /\ Notify(2, "loop") /\ ended' = ended + 1
MmuNotifyInvalid == mmu = "notify_invalid" /\ Notify(2, "reply_invalid") /\ UNCHANGED ended
MmuNotifyLoaded  == mmu = "notify_loaded" /\ Notify(1, "loop") /\ UNCHANGED ended

(* The answer to a request: handed to the longest waiting process, or stored. *)
Reply(verdict, step) ==
  /\ ~ queuesRemoved
  /\ LET r == [pid |-> cur.pid, num |-> verdict] IN
       IF waiters # <<>>
       THEN /\ answer' = [answer EXCEPT ![Head(waiters)] = r]
            /\ pc' = [pc EXCEPT ![Head(waiters)] = "answered"]
            /\ waiters' = Tail(waiters)
            /\ UNCHANGED replies
       ELSE /\ replies' = Append(replies, r)
            /\ UNCHANGED <<answer, pc, waiters>>
  /\ mmu' = step
  /\ UNCHANGED <<serving, masterVars, schedVars, cur, left, token, history, semVars,
                 queuesRemoved, ready_queue, msq2, requests>>

MmuReplyFrame == /\ mmu = "reply_frame"
                 /\ Reply("frame", "loop")
                 /\ Touch(cur.pid, cur.num)
                 /\ UNCHANGED ended

(* -1 is sent, then the handler brings in the page. *)
MmuReplyFault == /\ mmu = "reply_fault"
                 /\ Reply("fault", "notify_loaded")
                 /\ HandleFault(cur.pid, cur.num)
                 /\ UNCHANGED ended

MmuReplyInvalid == /\ mmu = "reply_invalid"
                   /\ Reply("invalid", "loop")
                   /\ ended' = ended + 1
                   /\ UNCHANGED memory

(* All k processes have ended: the totals are printed. *)
MmuReport ==
  /\ mmu = "loop"
  /\ ended >= K
  /\ mmu' = "reported"
  /\ UNCHANGED <<lruVars, masterVars, schedVars, cur, ended, procVars, semVars, queueVars>>

(* A queue operation fails because master has removed the queues: exit(1). *)
MmuFail ==
  /\ queuesRemoved
  /\ \/ mmu = "loop" /\ ended < K
     \/ mmu \in {"notify_end", "notify_invalid", "notify_loaded",
                 "reply_invalid", "reply_frame", "reply_fault"}
  /\ mmu' = "failed"
  /\ UNCHANGED <<lruVars, masterVars, schedVars, cur, ended, procVars, semVars, queueVars>>

Mmu == \/ \E r \in Request : MmuEnd(r) \/ MmuInvalid(r) \/ MmuHit(r) \/ MmuFault(r)
       \/ MmuNotifyEnd \/ MmuNotifyInvalid \/ MmuNotifyLoaded
       \/ MmuReplyFrame \/ MmuReplyFault \/ MmuReplyInvalid
       \/ MmuReport \/ MmuFail

--------------------------------------------------------------------------------
(* process.c *)

(* Wrong variant of ProcStart: the process does not wait to be scheduled. *)
ProcStartUnscheduled(p) ==
  /\ serving
  /\ pc[p] = "start"
  /\ IF queuesRemoved THEN UNCHANGED ready_queue
                      ELSE ready_queue' = Append(ready_queue, p)
  /\ pc' = [pc EXCEPT ![p] = "send"]
  /\ UNCHANGED <<lruVars, masterVars, schedVars, mmuVars, left, token, answer, history, semVars,
                 queuesRemoved, msq2, requests, replies, waiters>>

(* The process puts itself in the ready queue; if master is already cleaning up *)
(* semget creates a new semaphore that nobody signals.                          *)
ProcStart(p) ==
  /\ serving
  /\ pc[p] = "start"
  /\ IF queuesRemoved THEN UNCHANGED ready_queue
                      ELSE ready_queue' = Append(ready_queue, p)
  /\ pc' = [pc EXCEPT ![p] = IF semsRemoved THEN "stuck" ELSE "ready"]
  /\ UNCHANGED <<lruVars, masterVars, schedVars, mmuVars, left, token, answer, history, semVars,
                 queuesRemoved, msq2, requests, replies, waiters>>

(* Wrong variant of ProcScheduled: the result of a wait is not waited for. *)
ProcScheduledUnwaiting(p) ==
  /\ pc[p] \in {"ready", "faulted"}
  /\ sem' = [sem EXCEPT ![p] = @ - 1]
  /\ pc' = [pc EXCEPT ![p] = "send"]
  /\ UNCHANGED <<lruVars, masterVars, schedVars, mmuVars, left, token, answer, history,
                 sem_sched, semsRemoved, queueVars>>

(* P(sem_sched): first scheduled, or scheduled again after a page fault. A wait on *)
(* a removed semaphore fails at once and its result is ignored.                    *)
ProcScheduled(p) ==
  /\ pc[p] \in {"ready", "faulted"}
  /\ semsRemoved \/ sem[p] > 0
  /\ sem' = IF semsRemoved THEN sem ELSE [sem EXCEPT ![p] = @ - 1]
  /\ pc' = [pc EXCEPT ![p] = "send"]
  /\ UNCHANGED <<lruVars, masterVars, schedVars, mmuVars, left, token, answer, history,
                 sem_sched, semsRemoved, queueVars>>

(* msgsnd, whose failure after the removal is ignored. *)
SendRequest(r) == /\ requests' = IF queuesRemoved THEN requests ELSE Append(requests, r)
                  /\ UNCHANGED <<queuesRemoved, ready_queue, msq2, replies, waiters>>

(* The next token, or after a page fault the same one again, goes to the MMU. *)
ProcSend(p) ==
  /\ pc[p] = "send"
  /\ left[p] > 0
  /\ \E g \in IF token[p] = NoToken THEN Page ELSE {token[p]} :
       /\ token' = [token EXCEPT ![p] = g]
       /\ SendRequest([pid |-> p, num |-> g])
  /\ pc' = [pc EXCEPT ![p] = "recv"]
  /\ asked' = IF overtaken THEN asked ELSE Append(asked, p)
  /\ UNCHANGED <<lruVars, masterVars, schedVars, mmuVars, left, answer, overtaken, semVars>>

(* History: once somebody is overtaken the order is of no use any more. *)
ComeToReceive(p) == /\ overtaken' = (overtaken \/ p # Head(asked))
                    /\ asked' = IF overtaken' THEN <<>> ELSE Tail(asked)

(* msgrcv of any message of type 2: whose answer it is is not looked at. *)
ProcReceive(p) ==
  /\ pc[p] = "recv"
  /\ \/ /\ ~ queuesRemoved /\ replies = <<>>
        /\ waiters' = Append(waiters, p)
        /\ pc' = [pc EXCEPT ![p] = "waiting"]
        /\ UNCHANGED <<answer, replies>>
     \/ /\ queuesRemoved \/ replies # <<>>
        /\ answer' = [answer EXCEPT ![p] =
                        IF queuesRemoved THEN FailedReceive(p) ELSE Head(replies)]
        /\ replies' = IF queuesRemoved THEN replies ELSE Tail(replies)
        /\ pc' = [pc EXCEPT ![p] = "answered"]
        /\ UNCHANGED waiters
  /\ ComeToReceive(p)
  /\ UNCHANGED <<lruVars, masterVars, schedVars, mmuVars, left, token, semVars,
                 queuesRemoved, ready_queue, msq2, requests>>

(* A frame number: on to the next token; -1: wait to be scheduled; -2: exit(1). *)
ProcAnswered(p) ==
  /\ pc[p] = "answered"
  /\ answer' = [answer EXCEPT ![p] = NoAnswer]
  /\ \/ /\ answer[p].num = "frame"
        /\ left' = [left EXCEPT ![p] = @ - 1]
        /\ token' = [token EXCEPT ![p] = NoToken]
        /\ pc' = [pc EXCEPT ![p] = "send"]
     \/ /\ answer[p].num = "fault"
        /\ pc' = [pc EXCEPT ![p] = "faulted"]
        /\ UNCHANGED <<left, token>>
     \/ /\ answer[p].num = "invalid"
        /\ pc' = [pc EXCEPT ![p] = "killed"]
        /\ UNCHANGED <<left, token>>
  /\ UNCHANGED <<lruVars, masterVars, schedVars, mmuVars, history, semVars, queueVars>>

(* The reference string is used up: -9 is sent and the process returns. *)
ProcComplete(p) ==
  /\ pc[p] = "send"
  /\ left[p] = 0
  /\ SendRequest([pid |-> p, num |-> -9])
  /\ pc' = [pc EXCEPT ![p] = "completed"]
  /\ UNCHANGED <<lruVars, masterVars, schedVars, mmuVars, left, token, answer, history, semVars>>

Process(p) == \/ ProcStart(p) \/ ProcScheduled(p) \/ ProcSend(p) \/ ProcReceive(p)
              \/ ProcAnswered(p) \/ ProcComplete(p)

--------------------------------------------------------------------------------
HasExited(p) == pc[p] \in {"completed", "killed"}

AllExited == /\ master = "exited" /\ sched = "exited"
             /\ mmu \in {"reported", "failed"}
             /\ \A p \in Proc : HasExited(p)

(* Everything has ended: not a deadlock. *)
Finished == AllExited /\ UNCHANGED vars

Next == Master \/ Scheduler \/ Mmu \/ (\E p \in Proc : Process(p)) \/ Finished

Spec == Init /\ [][Next]_vars

(* Each program is a process of its own, which the operating system runs whenever *)
(* it is not blocked.                                                              *)
Fairness == /\ WF_vars(Master) /\ WF_vars(Scheduler) /\ WF_vars(Mmu)
            /\ \A p \in Proc : WF_vars(Process(p))

FairSpec == Spec /\ Fairness

--------------------------------------------------------------------------------
(* Properties *)

Signalled == {p \in Proc : sem[p] > 0}
Running   == {p \in Proc : pc[p] = "send"}
Served    == {p \in Proc : answer[p].num = "frame"}
Asking    == {p \in Proc : pc[p] \in {"recv", "waiting"}}

Frames    == [pid : Proc, num : {"frame"}]
Questions == [pid : Proc, num : Page]

One(b) == IF b THEN 1 ELSE 0
Slot == One(sched = "mmu")
Busy == One(mmu \in {"notify_end", "notify_invalid", "notify_loaded", "reply_frame", "reply_fault"})
Owed == One(mmu \in {"notify_invalid", "reply_invalid", "reply_frame", "reply_fault"})
Count(s, S) == Cardinality({i \in DOMAIN s : s[i] \in S})

(* One CPU: between the scheduler's V on a process's semaphore and the MMU's     *)
(* notice to the scheduler exactly one of these is under way: a semaphore is up,  *)
(* a process runs, its request or a frame number is in transit, the MMU works      *)
(* for it, or the notice is in transit; and nothing is while the scheduler         *)
(* chooses, however slow the processes are to receive.                             *)
OneCpu ==
  ~ semsRemoved =>
    Cardinality(Signalled) + Cardinality(Running) + Len(requests) + Busy
    + Count(replies, Frames) + Cardinality(Served) + Len(msq2)
    = Slot

(* Every process gets the MMU's answers to its own requests and no other. *)
RightAnswer == \A p \in Proc : answer[p] # NoAnswer => answer[p].pid = p

(* Answers go astray in one way only: a process that has sent its request is held *)
(* up before msgrcv (process.c:71-74), and another one, which asked later, comes   *)
(* there first.                                                                    *)
RightUnlessOvertaken == ~ overtaken => RightAnswer

(* However slow a process is to receive, as many answers are due or on their way  *)
(* as there are processes that have asked: none is lost, none is sent twice, even   *)
(* when processes get each other's answers.                                         *)
OneAnswerPerRequest ==
  ~ queuesRemoved =>
    Count(requests, Questions) + Owed + Len(replies) = Cardinality(Asking)

(* A process scheduled again after a page fault finds the page it faulted on in   *)
(* memory, as its most recently used page, unless it holds no frame at all: with   *)
(* local replacement no other process can have taken the page meanwhile.  It does  *)
(* so even if it has got the answer to another's request.                          *)
RetryFindsPage ==
  \A p \in Proc : /\ pc[p] = "send" /\ token[p] # NoToken /\ ~ semsRemoved
                  /\ resident[p] # <<>>
                  => Last(resident[p]) = token[p]

(* When master removes semaphores and queues every process has sent its last      *)
(* request: its -9, or one for an illegal page, whose -2 it may still wait for.    *)
CleanupAfterLastRequest ==
  master \in {"rm_sems", "rm_queues"} =>
    \A p \in Proc : \/ HasExited(p)
                    \/ token[p] >= m_i[p] /\ pc[p] \in {"recv", "waiting", "answered"}

(* The scheduler counts k ends only when there have been k: as long as nobody is  *)
(* overtaken each process is told once that its page is illegal, or completes.     *)
CleanupUnlessOvertaken == ~ overtaken => CleanupAfterLastRequest

(* Every process comes to its end, and so do scheduler, MMU and master ("wait for *)
(* process to finish", sched.c:65).  It is not so: with answers exchanged the      *)
(* scheduler may give the CPU to a process that has exited, and wait for ever.     *)
Termination == <>AllExited

(* Nothing else keeps the system from its end: it comes to it, or somebody was    *)
(* overtaken on the way to msgrcv.                                                 *)
EndsUnlessOvertaken == <>(AllExited \/ overtaken)

================================================================================
