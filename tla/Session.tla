------------------------------- MODULE Session ------------------------------
(***************************************************************************)
(* A6/session.c: the assistant (the main thread) works off an event queue, *)
(* makes a thread for every visitor she admits, wakes the doctor's thread  *)
(* and then a visitor's, and meets both at a barrier when the visit is     *)
(* over.  One thread at a time is meant to use current_time, which no      *)
(* mutex protects.  A thread is placed before the call, or the unprotected *)
(* access, it makes next.  A condition variable wakes only when signalled. *)
(***************************************************************************)
EXTENDS EventQueue, FiniteSets, SequencesExt

CONSTANTS
  Files,                      \* what arrival.txt may hold
  MAX_PATIENTS, MAX_SALESREPS,
  N,                          \* a bound on the visitors of a file
  Asst, Doctor                \* two threads; the visitors' are 1 .. N

Visitors == 1 .. N
People == {Asst, Doctor} \union Visitors
Kinds == {"R", "P", "S"}
Quota == [P |-> MAX_PATIENTS, S |-> MAX_SALESREPS]

ASSUME SessionAssumption ==
  /\ MAX_PATIENTS \in Nat \ {0} /\ MAX_SALESREPS \in Nat \ {0}
  /\ N \in Nat /\ Asst \notin Visitors /\ Doctor \notin Visitors \union {Asst}
  /\ Files \subseteq Seq(Event)
  /\ \A file \in Files :
       /\ Len(file) <= N
       /\ \A i \in DOMAIN file : file[i].type \in Kinds /\ file[i].duration > 0

VARIABLES
  E, next, doc_arrived, after, part,        \* the assistant's own
  num, waiting, served, num_visitors,       \* counters, hers too
  current_time, done_time, doc_session_done,
  asst_done, doc_done, called,              \* called[t]: rep_done, pat_done, srep_done
  visitor_infos, thr,                       \* thr[k]: visitor thread k's locals
  at,                                       \* at[x]: where thread x is
  count                                     \* of the barrier

queue == <<E, next>>
own == <<doc_arrived, after, part>>
counters == <<num, waiting, served, num_visitors>>
clock == <<current_time, done_time, doc_session_done>>
flags == <<asst_done, doc_done, called>>
visits == <<visitor_infos, thr>>
vars == <<queue, own, counters, clock, flags, visits, at, count>>

Init ==
  /\ \E file \in Files : E = initEQ(file)
  /\ next = nextevent(E)
  /\ doc_arrived = 0 /\ after = "admit" /\ part = "arrival"
  /\ num = [t \in Kinds |-> 0] /\ waiting = [t \in Kinds |-> 0]
  /\ served = [t \in DOMAIN Quota |-> 0] /\ num_visitors = 0
  /\ current_time = 0 /\ done_time = 0 /\ doc_session_done = FALSE
  /\ asst_done = FALSE /\ doc_done = FALSE /\ called = [t \in Kinds |-> FALSE]
  /\ visitor_infos = [v \in 0 .. N |-> 0] /\ thr = << >>
  /\ at = [x \in People |-> CASE x = Asst -> "look" [] x = Doctor -> "wait" [] OTHER -> "unborn"]
  /\ count = 0

Goto(x, to) == at' = [at EXCEPT ![x] = to]
AnyWaiting == \E t \in Kinds : waiting[t] > 0

\* reporter_mutex, patient_mutex or salesrep_mutex is held by a visitor; the
\* assistant holds it within one step only.
Held(t) == \E k \in DOMAIN thr : thr[k].type = t /\ at[k] \in {"tell", "ring", "ask", "inside"}

----------------------------------------------------------------------------
(* pthread_barrier_wait: the third to come lets the others go.  From the    *)
(* barrier the assistant goes on to note the end of the visit, the doctor   *)
(* to wait, and a visitor ends.                                             *)

Beyond(x) == CASE x = Asst -> "note" [] x = Doctor -> "wait" [] OTHER -> "gone"

\* Wrong variant of Meet: two are enough.
MeetTwo(x) ==
  LET here == {y \in People : at[y] = "barred"} \union {x}
  IN  /\ at[x] = "barrier"
      /\ IF count + 1 >= 2
         THEN count' = 0 /\ at' = [y \in People |-> IF y \in here THEN Beyond(y) ELSE at[y]]
         ELSE count' = count + 1 /\ Goto(x, "barred")
      /\ UNCHANGED <<queue, own, counters, clock, flags, visits>>

\* Wrong variant of Meet: the count is not reset for the next visit.
MeetOnce(x) ==
  LET here == {y \in People : at[y] = "barred"} \union {x}
  IN  /\ at[x] = "barrier"
      /\ count' = count + 1
      /\ IF count + 1 >= 3
         THEN at' = [y \in People |-> IF y \in here THEN Beyond(y) ELSE at[y]]
         ELSE Goto(x, "barred")
      /\ UNCHANGED <<queue, own, counters, clock, flags, visits>>

Meet(x) ==
  LET here == {y \in People : at[y] = "barred"} \union {x}
  IN  /\ at[x] = "barrier"
      /\ IF count + 1 >= 3
         THEN count' = 0 /\ at' = [y \in People |-> IF y \in here THEN Beyond(y) ELSE at[y]]
         ELSE count' = count + 1 /\ Goto(x, "barred")
      /\ UNCHANGED <<queue, own, counters, clock, flags, visits>>

----------------------------------------------------------------------------
(* The hand-shake on asst_done: the flag is set and asst_cond signalled     *)
(* without the mutex the assistant tests it under, so the signal may fall   *)
(* between her test and her sleep.                                          *)

Tell(x) ==
  /\ at[x] = "tell"
  /\ asst_done' = TRUE
  /\ Goto(x, "ring")
  /\ UNCHANGED <<queue, own, counters, clock, doc_done, called, visits, count>>

Ring(x, to) ==
  /\ at[x] = "ring"
  /\ at' = [at EXCEPT ![x] = to, ![Asst] = IF @ = "asleep" THEN "test" ELSE @]
  /\ UNCHANGED <<queue, own, counters, clock, flags, visits, count>>

Test ==
  /\ at[Asst] = "test"
  /\ asst_done' = FALSE
  /\ Goto(Asst, IF asst_done THEN after ELSE "doze")
  /\ UNCHANGED <<queue, own, counters, clock, doc_done, called, visits, count>>

Doze ==
  /\ at[Asst] = "doze"
  /\ Goto(Asst, "asleep")
  /\ UNCHANGED <<queue, own, counters, clock, flags, visits, count>>

----------------------------------------------------------------------------
(* The doctor.  doctor_mutex is held within single steps only.              *)

DoctorTests ==
  /\ at[Doctor] = "wait"
  /\ doc_done' = FALSE
  /\ Goto(Doctor, IF doc_done THEN "woken" ELSE "asleep")
  /\ UNCHANGED <<queue, own, counters, clock, asst_done, called, visits, count>>

DoctorGoesOn ==
  /\ at[Doctor] = "woken"
  /\ ~doc_session_done
  /\ Goto(Doctor, "tell")
  /\ UNCHANGED <<queue, own, counters, clock, flags, visits, count>>

DoctorLeaves ==
  /\ at[Doctor] = "woken"
  /\ doc_session_done
  /\ done_time' = IF done_time = 0 THEN current_time ELSE done_time
  /\ Goto(Doctor, "gone")
  /\ UNCHANGED <<queue, own, counters, current_time, doc_session_done, flags, visits, count>>

DoctorSteps ==
  \/ DoctorTests \/ DoctorGoesOn \/ DoctorLeaves
  \/ Tell(Doctor) \/ Ring(Doctor, "barrier") \/ Meet(Doctor)

----------------------------------------------------------------------------
(* A visitor: patient, salesrep and reporter are one function three times.  *)

\* Its duration is read from the table, and the mutex of its kind locked.
VisitorReads(k) ==
  /\ at[k] = "new"
  /\ thr' = [thr EXCEPT ![k].duration = visitor_infos[thr[k].arg]]
  /\ Goto(k, "lock")
  /\ UNCHANGED <<queue, own, counters, clock, flags, visitor_infos, count>>

VisitorLocks(k) ==
  /\ at[k] = "lock"
  /\ ~Held(thr[k].type)
  /\ Goto(k, "tell")
  /\ UNCHANGED <<queue, own, counters, clock, flags, visits, count>>

VisitorSleeps(k) ==
  /\ at[k] = "ask"
  /\ ~called[thr[k].type]
  /\ Goto(k, "asleep")
  /\ UNCHANGED <<queue, own, counters, clock, flags, visits, count>>

\* It has been signalled and needs the mutex again.
VisitorWakes(k) ==
  /\ at[k] = "awake"
  /\ ~Held(thr[k].type)
  /\ Goto(k, "ask")
  /\ UNCHANGED <<queue, own, counters, clock, flags, visits, count>>

VisitorGoesIn(k) ==
  /\ at[k] = "ask"
  /\ called[thr[k].type]
  /\ called' = [called EXCEPT ![thr[k].type] = FALSE]
  /\ Goto(k, "inside")
  /\ UNCHANGED <<queue, own, counters, clock, asst_done, doc_done, visits, count>>

VisitorTalks(k) ==
  /\ at[k] = "inside"
  /\ current_time' = current_time + thr[k].duration
  /\ Goto(k, "barrier")
  /\ UNCHANGED <<queue, own, counters, done_time, doc_session_done, flags, visits, count>>

VisitorSteps(k) ==
  \/ VisitorReads(k) \/ VisitorLocks(k) \/ VisitorSleeps(k) \/ VisitorWakes(k)
  \/ VisitorGoesIn(k) \/ VisitorTalks(k)
  \/ Tell(k) \/ Ring(k, "ask") \/ Meet(k)

----------------------------------------------------------------------------
(* The assistant.                                                           *)

\* Wrong variant of CheckQuotas: the sales representatives are not counted.
CheckPatients ==
  IF ~doc_session_done /\ served["P"] = MAX_PATIENTS
  THEN /\ doc_session_done' = TRUE
       /\ done_time' = current_time
       /\ served' = [t \in DOMAIN Quota |-> served[t] + 1]
  ELSE UNCHANGED <<doc_session_done, done_time, served>>

\* Both quotas are served: the session is over, and the counters go beyond.
CheckQuotas ==
  IF ~doc_session_done /\ served = Quota
  THEN /\ doc_session_done' = TRUE
       /\ done_time' = current_time
       /\ served' = [t \in DOMAIN Quota |-> served[t] + 1]
  ELSE UNCHANGED <<doc_session_done, done_time, served>>

\* The head of the main loop.  A doctor who is done is dismissed before the
\* first event after his time.
Look ==
  /\ at[Asst] = "look"
  /\ ~emptyQ(E)
  /\ next' = nextevent(E)
  /\ part' = "arrival"
  /\ CheckQuotas
  /\ Goto(Asst, IF doc_session_done' /\ next'.time > done_time' THEN "dismiss" ELSE "deal")
  /\ UNCHANGED <<E, doc_arrived, after, num, waiting, num_visitors, current_time,
                 flags, visits, count>>

\* Wrong variant of LookLast: those who still wait are sent home.
LookLastAndClose ==
  /\ at[Asst] = "look"
  /\ emptyQ(E)
  /\ part' = "final"
  /\ Goto(Asst, "dismiss")
  /\ UNCHANGED <<queue, doc_arrived, after, counters, clock, flags, visits, count>>

\* No event is left: those who still wait are called.
LookLast ==
  /\ at[Asst] = "look"
  /\ emptyQ(E)
  /\ part' = "final"
  /\ Goto(Asst, "attend")
  /\ UNCHANGED <<queue, doc_arrived, after, counters, clock, flags, visits, count>>

\* Wrong variant of WakeDoctor: the flag alone.
WakeDoctorNoSignal(to) ==
  /\ doc_done' = TRUE
  /\ Goto(Asst, to)

\* doc_done is set and signalled under the doctor's mutex.
WakeDoctor(to) ==
  /\ doc_done' = TRUE
  /\ at' = [at EXCEPT ![Asst] = to, ![Doctor] = IF @ = "asleep" THEN "wait" ELSE @]

Dismiss ==
  /\ at[Asst] = "dismiss"
  /\ doc_session_done' = (doc_session_done \/ part = "final")
  /\ WakeDoctor("join")
  /\ UNCHANGED <<queue, own, counters, current_time, done_time, asst_done, called, visits, count>>

\* Joining a thread already joined returns at once.
Join ==
  /\ at[Asst] = "join"
  /\ at[Doctor] = "gone"
  /\ Goto(Asst, CASE part = "arrival" -> "deal" [] part = "queue" -> "idle" [] part = "final" -> "over")
  /\ UNCHANGED <<queue, own, counters, clock, flags, visits, count>>

\* The event is dealt with.
NextEvent ==
  /\ E' = delevent(E)
  /\ Goto(Asst, "look")
  /\ UNCHANGED next

DropDone ==
  /\ at[Asst] = "deal"
  /\ next.type = "D"
  /\ NextEvent
  /\ UNCHANGED <<own, counters, clock, flags, visits, count>>

\* An arrival in the future waits until the visitors now waiting are served.
Postpone ==
  /\ at[Asst] = "deal"
  /\ next.type # "D" /\ next.time > current_time
  /\ doc_arrived' = 1
  /\ part' = "queue"
  /\ Goto(Asst, "attend")
  /\ UNCHANGED <<queue, after, counters, clock, flags, visits, count>>

Arrives ==
  /\ at[Asst] = "deal"
  /\ next.type # "D" /\ next.time <= current_time

\* The quota is full, or, for a reporter, the session over.
Refused ==
  IF next.type = "R"
  THEN served["P"] > MAX_PATIENTS /\ served["S"] > MAX_SALESREPS
  ELSE num[next.type] >= Quota[next.type]

Refuse ==
  /\ Arrives /\ Refused
  /\ num' = [num EXCEPT ![next.type] = @ + 1]
  /\ NextEvent
  /\ UNCHANGED <<own, waiting, served, num_visitors, clock, flags, visits, count>>

Create ==
  LET k == Len(thr) + 1
  IN  /\ Arrives /\ ~Refused
      /\ visitor_infos' = [visitor_infos EXCEPT ![num_visitors] = next.duration]
      /\ thr' = Append(thr, [type |-> next.type, arg |-> num_visitors,
                             duration |-> 0, came |-> next.time])
      /\ after' = "admit"
      /\ at' = [at EXCEPT ![Asst] = "test", ![k] = "new"]
      /\ UNCHANGED <<queue, doc_arrived, part, counters, clock, flags, count>>

Admit ==
  /\ at[Asst] = "admit"
  /\ waiting' = [waiting EXCEPT ![next.type] = @ + 1]
  /\ num' = [num EXCEPT ![next.type] = @ + 1]
  /\ IF doc_arrived = 2 /\ current_time > next.time
     THEN doc_arrived' = 0 /\ NextEvent
     ELSE /\ Goto(Asst, IF doc_arrived = 2 THEN "attend" ELSE "turn")
          /\ UNCHANGED <<doc_arrived, queue>>
  /\ UNCHANGED <<after, part, served, num_visitors, clock, flags, visits, count>>

\* The condition under which the next visitor is called; an arrival calls one.
MayCall == AnyWaiting /\ (part = "queue" => current_time < next.time)

Attend ==
  /\ at[Asst] = "attend"
  /\ MayCall
  /\ after' = "call"
  /\ WakeDoctor("test")
  /\ UNCHANGED <<queue, doc_arrived, part, counters, clock, asst_done, called, visits, count>>

AttendNoMore ==
  /\ at[Asst] = "attend"
  /\ ~MayCall
  /\ IF part = "queue"
     THEN /\ CheckQuotas
          /\ Goto(Asst, IF doc_session_done' /\ next.time > done_time' THEN "dismiss" ELSE "idle")
     ELSE /\ Goto(Asst, IF part = "final" THEN "dismiss" ELSE "turn")
          /\ UNCHANGED <<served, clock>>
  /\ UNCHANGED <<queue, own, num, waiting, num_visitors, current_time, flags, visits, count>>

\* Wrong variant of Chosen: patients come first.
ChosenPatient ==
  CASE waiting["P"] > 0 -> "P" [] waiting["P"] = 0 /\ waiting["R"] > 0 -> "R" [] OTHER -> "S"

\* Reporters come first, then patients.
Chosen ==
  CASE waiting["R"] > 0 -> "R" [] waiting["R"] = 0 /\ waiting["P"] > 0 -> "P" [] OTHER -> "S"

\* The visitor's flag is set, and one of its kind signalled, under its mutex.
Call ==
  LET t == Chosen
      sleepers == {k \in DOMAIN thr : thr[k].type = t /\ at[k] = "asleep"}
  IN  /\ at[Asst] = "call"
      /\ ~Held(t)
      /\ called' = [called EXCEPT ![t] = TRUE]
      /\ waiting' = [waiting EXCEPT ![t] = @ - 1]
      /\ served' = [s \in DOMAIN Quota |-> served[s] + (IF s = t THEN 1 ELSE 0)]
      /\ IF sleepers = {} THEN Goto(Asst, "barrier")
         ELSE \E k \in sleepers : at' = [at EXCEPT ![Asst] = "barrier", ![k] = "awake"]
      /\ UNCHANGED <<queue, own, num, num_visitors, clock, asst_done, doc_done, visits, count>>

\* The visit is over now: an event of its own.
Note ==
  /\ at[Asst] = "note"
  /\ E' = addevent(E, [type |-> "D", time |-> current_time, duration |-> 0])
  /\ Goto(Asst, IF part = "arrival" THEN "turn" ELSE "attend")
  /\ UNCHANGED <<next, own, counters, clock, flags, visits, count>>

Later == IF next.time > current_time THEN next.time ELSE current_time

EndTurn ==
  /\ at[Asst] = "turn"
  /\ num_visitors' = num_visitors + 1
  /\ current_time' = Later
  /\ NextEvent
  /\ UNCHANGED <<own, num, waiting, served, done_time, doc_session_done, flags, visits, count>>

Idle ==
  /\ at[Asst] = "idle"
  /\ current_time' = Later
  /\ doc_arrived' = 2
  /\ Goto(Asst, "look")
  /\ UNCHANGED <<queue, after, part, counters, done_time, doc_session_done, flags, visits, count>>

AsstSteps ==
  \/ Look \/ LookLast \/ Dismiss \/ Join \/ DropDone \/ Postpone \/ Refuse \/ Create
  \/ Test \/ Doze \/ Admit \/ Attend \/ AttendNoMore \/ Call \/ Meet(Asst) \/ Note
  \/ EndTurn \/ Idle

Next == AsstSteps \/ DoctorSteps \/ \E k \in DOMAIN thr : VisitorSteps(k)

Spec == Init /\ [][Next]_vars

\* Every thread that can run does.
FairSpec ==
  /\ Spec
  /\ WF_vars(AsstSteps) /\ WF_vars(DoctorSteps)
  /\ \A k \in Visitors : WF_vars(k \in DOMAIN thr /\ VisitorSteps(k))

----------------------------------------------------------------------------
(* Properties.                                                              *)

AsstPlaces == {"look", "dismiss", "join", "deal", "test", "doze", "asleep", "admit",
               "attend", "call", "barrier", "barred", "note", "turn", "idle", "over"}
DoctorPlaces == {"wait", "asleep", "woken", "tell", "ring", "barrier", "barred", "gone"}
Outside == {"new", "lock", "tell", "ring", "ask", "asleep", "awake"}
VisitorPlaces == Outside \union {"unborn", "inside", "barrier", "barred", "gone"}

\* Every variable keeps its range, and the barrier counts those who wait at it.
TypeOK ==
  /\ E \in Seq(Event)
  /\ doc_arrived \in {0, 1, 2} /\ after \in {"admit", "call"}
  /\ part \in {"arrival", "queue", "final"}
  /\ num \in [Kinds -> 0 .. N] /\ waiting \in [Kinds -> 0 .. N]
  /\ served["P"] \in 0 .. MAX_PATIENTS + 1 /\ served["S"] \in 0 .. MAX_SALESREPS + 1
  /\ num_visitors \in 0 .. N
  /\ current_time \in Nat /\ done_time \in Nat /\ doc_session_done \in BOOLEAN
  /\ asst_done \in BOOLEAN /\ doc_done \in BOOLEAN /\ called \in [Kinds -> BOOLEAN]
  /\ Len(thr) <= N
  /\ at[Asst] \in AsstPlaces /\ at[Doctor] \in DoctorPlaces
  /\ \A k \in Visitors : at[k] \in VisitorPlaces /\ (at[k] = "unborn" <=> k > Len(thr))
  /\ count = Cardinality({x \in People : at[x] = "barred"}) /\ count < 3

\* No mutex protects current_time and timestr: while the doctor reads them
\* the assistant is waiting for him, and while a visitor adds its visit she
\* is at the barrier, the doctor has read, and no other visitor is inside.
ClockHasOneUser ==
  /\ at[Doctor] = "woken" => at[Asst] \in {"test", "doze", "asleep", "join"}
  /\ \A k \in DOMAIN thr : at[k] = "inside" =>
       /\ at[Asst] \in {"barrier", "barred"}
       /\ at[Doctor] # "woken"
       /\ \A j \in DOMAIN thr \ {k} : at[j] # "inside"

\* An entry of visitor_infos may be used for two visitors (num_visitors is
\* not raised on the way out of line 436), but never before the first of them
\* has read it: a new thread finds the duration of its own event.
RightInfo ==
  \A k \in DOMAIN thr :
    /\ at[k] = "new" => visitor_infos[thr[k].arg] = next.duration
    /\ at[k] \in {"inside", "barrier"} => thr[k].duration > 0

\* Clock and visitor_infos, which no mutex protects, have one user at a time.
UnlockedDataSafe == ClockHasOneUser /\ RightInfo

\* When the doctor's thread has ended nobody is left who would need it: all
\* visitors have met him, and the assistant neither waits for a thread nor
\* comes to the barrier.  No thread is made after it, so the second join of
\* the doctor finds a thread joined and not another one of his number.
DismissedForGood ==
  at[Doctor] = "gone" =>
    /\ \A k \in DOMAIN thr : at[k] = "gone"
    /\ at[Asst] \notin {"test", "doze", "asleep", "admit", "call", "barrier", "barred", "note", "turn"}

\* Nobody is passed over: while somebody is outside the clock is not set
\* forward over idle time (session.c:565), and at the end every arrival of the
\* file has been dealt with, and everybody admitted has met the doctor.
NobodyForgotten ==
  /\ at[Asst] = "idle" /\ next.time > current_time =>
       \A k \in DOMAIN thr : at[k] \notin Outside
  /\ at[Asst] = "over" =>
       /\ \A i \in DOMAIN E : E[i].type = "D"
       /\ \A k \in DOMAIN thr : at[k] = "gone"

\* The visitor who goes in leaves none of a higher priority outside, and does
\* not go in before the time of arrival the file gives.
InTurn ==
  [][\A k \in DOMAIN thr : at[k] = "ask" /\ at'[k] = "inside" =>
       /\ \A j \in DOMAIN thr : Rank[thr[j].type] < Rank[thr[k].type] => at[j] \notin Outside
       /\ current_time >= thr[k].came]_vars

\* The heap is a priority queue to the assistant: the event she deals with is
\* a least one, and it is the one delevent removes, although she may have
\* added the end of a visit since she looked.
Bag == INSTANCE EventBag
         WITH bag <- ToBag(E),
              Events <- [type : {"D"}, time : Nat, duration : {0}]
QueueSpec == Bag!Spec

\* The assistant sleeps, asst_done is set, and the signal has been given
\* before she slept: she sleeps for ever.
SignalMissed ==
  /\ at[Asst] = "asleep" /\ asst_done
  /\ \A x \in People \ {Asst} : at[x] # "ring"

\* The session comes to its end unless a signal is missed: no other way of
\* waiting for one another stops it.
SessionEnds == <>(at[Asst] = "over" \/ SignalMissed)
=============================================================================
