------------------------------ MODULE Manager ------------------------------
(***************************************************************************)
(* A2/mgr.c: a manager runs one job at a time in the foreground.  Each job *)
(* has a process group of its own, so ^C and ^Z reach the manager only,    *)
(* whose handler passes them on to PT[currChild].  The handler interrupts  *)
(* the main loop between any two of its statements.                        *)
(***************************************************************************)
EXTENDS Integers, FiniteSets

CONSTANTS
  N,        \* last place of PT (10 in the code; place 0 is the manager's own)
  MaxKeys,  \* bound: how often the user presses ^C or ^Z
  MaxJobs   \* bound: forks; more than N only when an entry has been lost

ASSUME BoundsAssumption == N \in Nat \ {0} /\ MaxKeys \in Nat /\ MaxJobs \in Nat \ {0}

None == -1
Slots == 1 .. N
Pids == 1 .. MaxJobs
Empty == [pid |-> 0, status |-> "EMPTY"]
Keys == {"INT", "TSTP"}

VARIABLES
  pc,            \* where main is
  PT, currChild, numSuspended,
  job,           \* main's local variable
  pid,           \* pid of the process forked last, 0 before the first
  proc,          \* proc[p]: what process p is doing
  copy,          \* how far process pid has come on its way to exec
  grouped,       \* setpgid has been called for pid
  struck,        \* signals pending in pid until it has handled them
  keys,          \* keys pressed so far
  careful        \* this user presses ^Z only while main waits for a new job

table == <<PT, currChild, numSuspended>>
child == <<copy, grouped, struck>>
user == <<keys, careful>>
vars == <<pc, table, job, pid, proc, child, user>>

Init ==
  /\ pc = "prompt"
  /\ PT = [i \in Slots |-> Empty] /\ currChild = None /\ numSuspended = 0
  /\ job = None /\ pid = 0 /\ proc = [p \in Pids |-> "none"]
  /\ copy = "job" /\ grouped = TRUE /\ struck = {}
  /\ keys = 0 /\ careful \in BOOLEAN

Alive == pc \notin {"exited", "killed"}

\* Process pid has not called exec yet: it runs the manager's code.
IsCopy == copy # "job"
InGroup == IsCopy /\ ~grouped

\* A process that has ended, or a pid no longer in use, takes no notice.
Hit(state, sig) ==
  CASE sig = "KILL" /\ state \in {"running", "stopped"} -> "zombie"
    [] sig = "TSTP" /\ state = "running" -> "stopped"
    [] sig = "CONT" /\ state = "stopped" -> "running"
    [] OTHER -> state

\* init reaps what the manager leaves, and the kernel hangs up stopped jobs,
\* whose process groups are orphaned.
Orphaned(pr) ==
  [p \in Pids |-> IF pr[p] \in {"stopped", "zombie"} THEN "reaped" ELSE pr[p]]

\* SIGKILL to the manager's process group.
KillGroup ==
  /\ pc' = "killed"
  /\ proc' = Orphaned(IF InGroup THEN [proc EXCEPT ![pid] = "zombie"] ELSE proc)

\* kill(p, sig), where p = 0 is the manager's group.  A copy handles SIGTSTP
\* and is not stopped by it; s is what is pending there already.  For the
\* manager itself a second SIGTSTP finds currChild = -1.
Kill(p, sig, s) ==
  /\ struck' = IF sig = "TSTP" /\ (IF p = 0 THEN InGroup ELSE p = pid /\ IsCopy)
               THEN s \union {sig} ELSE s
  /\ IF p = 0 /\ sig = "KILL" THEN KillGroup
     ELSE /\ proc' = IF p = 0 \/ (p = pid /\ IsCopy /\ sig = "TSTP") THEN proc
                     ELSE [proc EXCEPT ![p] = Hit(@, sig)]
          /\ UNCHANGED pc

----------------------------------------------------------------------------
(* The handler, and the user's keys                                         *)

\* Wrong variant of parentSigHandler: currChild is not reset.
parentSigHandlerForgetful(sig, s) ==
  IF currChild = None THEN struck' = s /\ UNCHANGED <<table, pc, proc>>
  ELSE
    /\ PT' = [PT EXCEPT ![currChild].status = IF sig = "INT" THEN "TERMINATED" ELSE "SUSPENDED"]
    /\ numSuspended' = IF sig = "TSTP" THEN numSuspended + 1 ELSE numSuspended
    /\ Kill(PT[currChild].pid, IF sig = "INT" THEN "KILL" ELSE "TSTP", s)
    /\ UNCHANGED currChild

\* Wrong variant of parentSigHandler: ^C takes a resumed job off the count.
parentSigHandlerCounting(sig, s) ==
  IF currChild = None THEN struck' = s /\ UNCHANGED <<table, pc, proc>>
  ELSE
    /\ PT' = [PT EXCEPT ![currChild].status = IF sig = "INT" THEN "TERMINATED" ELSE "SUSPENDED"]
    /\ numSuspended' = IF sig = "TSTP" THEN numSuspended + 1
                       ELSE IF PT[currChild].status = "SUSPENDED" THEN numSuspended - 1
                       ELSE numSuspended
    /\ currChild' = None
    /\ Kill(PT[currChild].pid, IF sig = "INT" THEN "KILL" ELSE "TSTP", s)

\* s: what is pending in the copy when the handler runs.
parentSigHandler(sig, s) ==
  IF currChild = None THEN struck' = s /\ UNCHANGED <<table, pc, proc>>
  ELSE
    /\ PT' = [PT EXCEPT ![currChild].status = IF sig = "INT" THEN "TERMINATED" ELSE "SUSPENDED"]
    /\ numSuspended' = IF sig = "TSTP" THEN numSuspended + 1 ELSE numSuspended
    /\ currChild' = None
    /\ Kill(PT[currChild].pid, IF sig = "INT" THEN "KILL" ELSE "TSTP", s)

\* The terminal signals the manager's group, in which the copy may still be.
Press(sig) ==
  /\ Alive /\ keys < MaxKeys
  /\ careful /\ sig = "TSTP" => pc = "wait"
  /\ keys' = keys + 1
  /\ parentSigHandler(sig, IF InGroup THEN struck \union {sig} ELSE struck)
  /\ UNCHANGED <<job, pid, copy, grouped, careful>>

----------------------------------------------------------------------------
(* The child, up to its exec, and the job                                   *)

Runs == pid # 0 /\ proc[pid] = "running"

\* The copy searches its own table and sets its own currChild.
ChildFindsSlot ==
  /\ Runs /\ copy = "forked"
  /\ copy' = "chosen"
  /\ UNCHANGED <<pc, table, job, pid, proc, grouped, struck, user>>

\* With currChild set, the manager's handler signals PT[currChild].pid, which
\* is 0 in the copy's table: its whole process group.
ChildHandles(sig) ==
  /\ Runs /\ IsCopy /\ sig \in struck
  /\ \/ /\ copy # "chosen"
        /\ struck' = struck \ {sig}
        /\ UNCHANGED <<pc, table, proc, copy>>
     \/ /\ copy = "chosen" /\ sig = "INT"
        /\ IF InGroup /\ Alive THEN KillGroup
           ELSE proc' = [proc EXCEPT ![pid] = "zombie"] /\ UNCHANGED pc
        /\ UNCHANGED <<table, copy, struck>>
     \/ /\ copy = "chosen" /\ sig = "TSTP"
        /\ copy' = "passed"
        /\ IF InGroup /\ Alive THEN parentSigHandler("TSTP", struck \ {sig})
           ELSE struck' = struck \ {sig} /\ UNCHANGED <<pc, table, proc>>
  /\ UNCHANGED <<job, pid, grouped, user>>

\* setpgid(0, 0) and exec.
ChildExecs ==
  /\ Runs /\ copy \in {"chosen", "passed"} /\ struck = {}
  /\ copy' = "job" /\ grouped' = TRUE
  /\ UNCHANGED <<pc, table, job, pid, proc, struck, user>>

\* A job ends after ten letters.
JobEnds(p) ==
  /\ proc[p] = "running" /\ (p = pid => ~IsCopy)
  /\ proc' = [proc EXCEPT ![p] = IF Alive THEN "zombie" ELSE "reaped"]
  /\ UNCHANGED <<pc, table, job, pid, child, user>>

Child ==
  \/ ChildFindsSlot \/ ChildExecs
  \/ \E sig \in Keys : ChildHandles(sig)
  \/ \E p \in Pids : JobEnds(p)

----------------------------------------------------------------------------
(* main.  Commands p, h and any other letter change nothing.                *)

isFull == PT[N].pid # 0

\* r: with a full table the manager exits, as it does on q.
Exit ==
  /\ pc = "prompt"
  /\ pc' = "exited" /\ proc' = Orphaned(proc)
  /\ UNCHANGED <<table, job, pid, child, user>>

Fork ==
  /\ pc = "prompt" /\ ~isFull /\ pid < MaxJobs
  /\ pid' = pid + 1 /\ proc' = [proc EXCEPT ![pid + 1] = "running"]
  /\ copy' = "forked" /\ grouped' = FALSE /\ struck' = {}
  /\ pc' = "find"
  /\ UNCHANGED <<table, job, user>>

FindSlot ==
  /\ pc = "find"
  /\ \E i \in Slots :
       /\ PT[i].pid = 0 /\ \A j \in 1 .. i - 1 : PT[j].pid # 0
       /\ currChild' = i
  /\ pc' = "group"
  /\ UNCHANGED <<PT, numSuspended, job, pid, proc, child, user>>

SetGroup ==
  /\ pc = "group"
  /\ grouped' = TRUE
  /\ pc' = "enter"
  /\ UNCHANGED <<table, job, pid, proc, copy, struck, user>>

\* PT[-1], if the handler has been there: the write may go unnoticed or end the
\* program.
Enter ==
  /\ pc = "enter"
  /\ \/ /\ currChild # None
        /\ PT' = [PT EXCEPT ![currChild] = [pid |-> pid, status |-> "FINISHED"]]
        /\ pc' = "wait" /\ UNCHANGED proc
     \/ /\ currChild = None
        /\ \/ pc' = "wait" /\ UNCHANGED proc
           \/ pc' = "killed" /\ proc' = Orphaned(proc)
        /\ UNCHANGED PT
  /\ UNCHANGED <<currChild, numSuspended, job, pid, child, user>>

\* Wrong variant of Wait: without WUNTRACED.
WaitForEnd ==
  /\ pc = "wait" /\ proc[pid] = "zombie"
  /\ proc' = [proc EXCEPT ![pid] = "reaped"]
  /\ pc' = "reset"
  /\ UNCHANGED <<table, job, pid, child, user>>

\* waitpid(pid, NULL, WUNTRACED)
Wait ==
  /\ pc = "wait" /\ proc[pid] \in {"stopped", "zombie"}
  /\ proc' = [proc EXCEPT ![pid] = IF @ = "zombie" THEN "reaped" ELSE @]
  /\ pc' = "reset"
  /\ UNCHANGED <<table, job, pid, child, user>>

ResetChild ==
  /\ pc = "reset"
  /\ currChild' = None
  /\ pc' = "prompt"
  /\ UNCHANGED <<PT, numSuspended, job, pid, proc, child, user>>

\* c and k show the list and read a number.
Ask(answer) ==
  /\ pc = "prompt" /\ numSuspended # 0
  /\ pc' = answer
  /\ UNCHANGED <<table, job, pid, proc, child, user>>

Pick(asked, next) ==
  /\ pc = asked
  /\ \E i \in Slots :
       IF PT[i].status = "SUSPENDED"
       THEN job' = i /\ currChild' = i /\ pc' = next
       ELSE pc' = "prompt" /\ UNCHANGED <<job, currChild>>
  /\ UNCHANGED <<PT, numSuspended, pid, proc, child, user>>

SendCont ==
  /\ pc = "cont"
  /\ IF PT[job].pid = 0 THEN UNCHANGED proc
     ELSE proc' = [proc EXCEPT ![PT[job].pid] = Hit(@, "CONT")]
  /\ pc' = "waitcont"
  /\ UNCHANGED <<table, job, pid, child, user>>

\* Wrong variant of WaitCont: with WUNTRACED and nothing else.
WaitContUntraced ==
  /\ pc = "waitcont"
  /\ \/ PT[job].pid = 0 /\ UNCHANGED proc
     \/ /\ PT[job].pid # 0 /\ proc[PT[job].pid] \in {"stopped", "zombie", "reaped"}
        /\ proc' = [proc EXCEPT ![PT[job].pid] = IF @ = "stopped" THEN @ ELSE "reaped"]
  /\ pc' = "finish"
  /\ UNCHANGED <<table, job, pid, child, user>>

\* waitpid(PT[job].pid, NULL, 0): not told of a stop; fails if there is no such child.
WaitCont ==
  /\ pc = "waitcont"
  /\ \/ PT[job].pid = 0 /\ UNCHANGED proc
     \/ /\ PT[job].pid # 0 /\ proc[PT[job].pid] \in {"zombie", "reaped"}
        /\ proc' = [proc EXCEPT ![PT[job].pid] = "reaped"]
  /\ pc' = "finish"
  /\ UNCHANGED <<table, job, pid, child, user>>

Finish ==
  /\ pc = "finish"
  /\ PT' = [PT EXCEPT ![job].status = "FINISHED"] /\ numSuspended' = numSuspended - 1
  /\ pc' = "prompt"
  /\ UNCHANGED <<currChild, job, pid, proc, child, user>>

SendKill ==
  /\ pc = "kill"
  /\ \/ /\ PT[job].pid # 0
        /\ proc' = [proc EXCEPT ![PT[job].pid] = Hit(@, "KILL")] /\ pc' = "mark"
     \/ PT[job].pid = 0 /\ KillGroup
  /\ UNCHANGED <<table, job, pid, child, user>>

MarkKilled ==
  /\ pc = "mark"
  /\ PT' = [PT EXCEPT ![job].status = "TERMINATED"] /\ numSuspended' = numSuspended - 1
  /\ pc' = "prompt"
  /\ UNCHANGED <<currChild, job, pid, proc, child, user>>

Command == Exit \/ Fork \/ Ask("continue?") \/ Ask("kill?")
Main ==
  \/ FindSlot \/ SetGroup \/ Enter \/ Wait \/ ResetChild
  \/ Pick("continue?", "cont") \/ SendCont \/ WaitCont \/ Finish
  \/ Pick("kill?", "kill") \/ SendKill \/ MarkKilled

Next == Command \/ Main \/ Child \/ \E sig \in Keys : Press(sig)

\* The system runs manager and children, and the user answers a question; the
\* next command may be long in coming.
Fairness == WF_vars(Main) /\ WF_vars(Child)

Spec == Init /\ [][Next]_vars /\ Fairness

----------------------------------------------------------------------------
Types ==
  /\ PT \in [Slots -> [pid : {0} \union Pids,
                       status : {"EMPTY", "FINISHED", "TERMINATED", "SUSPENDED"}]]
  /\ currChild \in Slots \union {None}
  /\ pid \in {0} \union Pids
  /\ proc \in [Pids -> {"none", "running", "stopped", "zombie", "reaped"}]
  /\ pc \in {"cont", "waitcont", "finish", "kill", "mark"} => job \in Slots

TypeOK ==
  /\ Types
  /\ pc \in {"prompt", "find", "group", "enter", "wait", "reset", "continue?", "cont",
             "waitcont", "finish", "kill?", "kill", "mark", "exited", "killed"}
  /\ job \in Slots \union {None}
  /\ numSuspended \in 0 .. MaxKeys
  /\ copy \in {"forked", "chosen", "passed", "job"} /\ grouped \in BOOLEAN
  /\ struck \subseteq Keys /\ keys \in 0 .. MaxKeys /\ careful \in BOOLEAN

Suspended == {i \in Slots : PT[i].status = "SUSPENDED"}

(* A stopped job is in the table as suspended, so that c and k can reach it, *)
(* whenever ^C and ^Z are pressed: the handler marks before it stops, and    *)
(* nothing removes the mark while the job is stopped (mgr.c:46-69).          *)
StoppedIsListed ==
  \A p \in Pids : proc[p] = "stopped" => \E i \in Suspended : PT[i].pid = p

(* At the prompt no job runs, each child not yet reaped has an entry, and    *)
(* numSuspended counts the suspended entries (mgr.c:42), if ^Z is pressed    *)
(* only while main waits for a new job; ^C may come at any time, between any *)
(* two statements of r, c and k (mgr.c:106-202).                             *)
TableRight ==
  pc = "prompt" /\ careful =>
    /\ \A p \in Pids : proc[p] # "running"
    /\ \A p \in Pids : proc[p] \in {"stopped", "zombie"} => \E i \in Slots : PT[i].pid = p
    /\ numSuspended = Cardinality(Suspended)

\* Why that is so: a child has one entry, made when it is still unknown to the
\* table; and a mark goes only when its job has ended.
EntriesDiffer ==
  /\ \A i \in Slots : PT[i].pid <= pid
  /\ \A i, j \in Slots : i # j /\ PT[i].pid = PT[j].pid => PT[i].pid = 0
NotYetEntered ==
  pc \in {"find", "group", "enter"} =>
    /\ pid \in Pids
    /\ \A i \in Slots : PT[i].pid # pid
    /\ pc # "find" /\ currChild # None => PT[currChild].pid = 0
EndedWhenMarked ==
  /\ pc = "mark" => PT[job].pid # 0
  /\ pc \in {"finish", "mark"} /\ PT[job].pid # 0 => proc[PT[job].pid] \notin {"running", "stopped"}

IInv == Types /\ EntriesDiffer /\ NotYetEntered /\ EndedWhenMarked /\ StoppedIsListed

\* The resumed job is stopped again, and waitpid does not tell.
LeftStopped == pc = "waitcont" /\ PT[job].pid # 0 /\ proc[PT[job].pid] = "stopped"

(* Every command gets back to the prompt or ends the manager (mgr.c:128-137, *)
(* 163-169); only a ^Z during c leaves it waiting for ever.                  *)
Prompted == []<>(pc = "prompt" \/ ~Alive \/ (LeftStopped /\ ~careful))
=============================================================================
