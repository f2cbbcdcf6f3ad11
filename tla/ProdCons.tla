------------------------------ MODULE ProdCons -----------------------------
(***************************************************************************)
(* A4/prodcons_21CS30009.c: a producer hands t items to consumers through  *)
(* two shared integers, M[0] for whom the item is and M[1] the item, and   *)
(* nothing else.  Every access to M is a step of its own; the program is   *)
(* built without optimisation, so each one is a load or a store.           *)
(***************************************************************************)
EXTENDS Integers, FiniteSets

CONSTANTS
  Consumers,    \* 1..n
  Items,        \* the items the producer may produce
  t,            \* how many it does produce
  Free, Stop    \* 0 and -1 in M[0]

ASSUME ConsumersAssumption ==
  /\ Consumers # {} /\ Free \notin Consumers /\ Stop \notin Consumers /\ Free # Stop
  /\ Items \subseteq Nat /\ Items # {} /\ t \in Nat

VARIABLES
  m0, m1,                     \* the shared memory
  stage,                         \* where the producer is
  made, item, consumer,       \* its loop counter and what it produces
  cons_itemc, cons_checksum,  \* what it has handed to each consumer
  pos,                        \* pos[c]: where consumer c is
  itemc, checksum             \* what each consumer has read

producer == <<stage, made, item, consumer, cons_itemc, cons_checksum>>
consumers == <<pos, itemc, checksum>>
prodcons_vars == <<m0, m1, producer, consumers>>

ProdConsInit ==
  /\ m0 = Free /\ m1 = 0
  /\ stage = "produce" /\ made = 0 /\ item = 0 /\ consumer \in Consumers
  /\ cons_itemc = [c \in Consumers |-> 0]
  /\ cons_checksum = [c \in Consumers |-> 0]
  /\ pos = [c \in Consumers |-> "test"]
  /\ itemc = [c \in Consumers |-> 0]
  /\ checksum = [c \in Consumers |-> 0]

----------------------------------------------------------------------------
(* The producer                                                             *)

Produce ==
  /\ stage = "produce" /\ made < t
  /\ item' \in Items /\ consumer' \in Consumers
  /\ stage' = "poll"
  /\ UNCHANGED <<m0, m1, made, cons_itemc, cons_checksum, consumers>>

\* Wrong variant of Poll: the producer does not wait.
PollUnwaiting ==
  /\ stage = "poll"
  /\ stage' = "offer"
  /\ UNCHANGED <<m0, m1, made, item, consumer, cons_itemc, cons_checksum, consumers>>

\* while(M[0] != 0) {}
Poll ==
  /\ stage = "poll" /\ m0 = Free
  /\ stage' = "offer"
  /\ UNCHANGED <<m0, m1, made, item, consumer, cons_itemc, cons_checksum, consumers>>

Offer ==
  /\ stage = "offer"
  /\ m0' = consumer
  /\ stage' = "put"
  /\ UNCHANGED <<m1, made, item, consumer, cons_itemc, cons_checksum, consumers>>

Put ==
  /\ stage = "put"
  /\ m1' = item
  /\ stage' = "account"
  /\ UNCHANGED <<m0, made, item, consumer, cons_itemc, cons_checksum, consumers>>

Account ==
  /\ stage = "account"
  /\ cons_itemc' = [cons_itemc EXCEPT ![consumer] = @ + 1]
  /\ cons_checksum' = [cons_checksum EXCEPT ![consumer] = @ + m1]
  /\ made' = made + 1
  /\ stage' = "produce"
  /\ UNCHANGED <<m0, m1, item, consumer, consumers>>

\* Wrong variant of Drain: the last item is not waited for.
DrainUnwaiting ==
  /\ stage = "produce" /\ made = t
  /\ stage' = "stop"
  /\ UNCHANGED <<m0, m1, made, item, consumer, cons_itemc, cons_checksum, consumers>>

\* After the loop: wait until the last item is taken ...
Drain ==
  /\ stage = "produce" /\ made = t /\ m0 = Free
  /\ stage' = "stop"
  /\ UNCHANGED <<m0, m1, made, item, consumer, cons_itemc, cons_checksum, consumers>>

\* ... tell the consumers to stop ...
StopAll ==
  /\ stage = "stop"
  /\ m0' = Stop
  /\ stage' = "reap"
  /\ UNCHANGED <<m1, made, item, consumer, cons_itemc, cons_checksum, consumers>>

\* ... wait for one of them, and report.
Reap ==
  /\ stage = "reap"
  /\ \E c \in Consumers : pos[c] = "ended"
  /\ stage' = "report"
  /\ UNCHANGED <<m0, m1, made, item, consumer, cons_itemc, cons_checksum, consumers>>

Producer == Produce \/ Poll \/ Offer \/ Put \/ Account \/ Drain \/ StopAll \/ Reap

----------------------------------------------------------------------------
(* A consumer                                                               *)

Moves(c, from, to) == pos[c] = from /\ pos' = [pos EXCEPT ![c] = to]

\* while(M[0] != -1)
Test(c) ==
  /\ Moves(c, "test", IF m0 = Stop THEN "ended" ELSE "look")
  /\ UNCHANGED <<m0, m1, producer, itemc, checksum>>

\* if(M[0] == i)
Look(c) ==
  /\ Moves(c, "look", IF m0 = c THEN "read" ELSE "test")
  /\ UNCHANGED <<m0, m1, producer, itemc, checksum>>

ReadItem(c) ==
  /\ Moves(c, "read", "free")
  /\ itemc' = [itemc EXCEPT ![c] = @ + 1]
  /\ checksum' = [checksum EXCEPT ![c] = @ + m1]
  /\ UNCHANGED <<m0, m1, producer>>

SetFree(c) ==
  /\ Moves(c, "free", "test")
  /\ m0' = Free
  /\ UNCHANGED <<m1, producer, itemc, checksum>>

Consumer(c) == Test(c) \/ Look(c) \/ ReadItem(c) \/ SetFree(c)

ProdConsNext == Producer \/ \E c \in Consumers : Consumer(c)

\* The system runs every process; they wait by running.
ProdConsFairness == WF_prodcons_vars(Producer) /\ \A c \in Consumers : WF_prodcons_vars(Consumer(c))

ProdConsSpec == ProdConsInit /\ [][ProdConsNext]_prodcons_vars /\ ProdConsFairness

----------------------------------------------------------------------------
ProdConsTypeOK ==
  /\ m0 \in Consumers \union {Free, Stop} /\ m1 \in Nat
  /\ stage \in {"produce", "poll", "offer", "put", "account", "stop", "reap", "report"}
  /\ made \in 0 .. t /\ item \in Nat /\ consumer \in Consumers
  /\ cons_itemc \in [Consumers -> Nat] /\ cons_checksum \in [Consumers -> Nat]
  /\ pos \in [Consumers -> {"test", "look", "read", "free", "ended"}]
  /\ itemc \in [Consumers -> Nat] /\ checksum \in [Consumers -> Nat]
  /\ made = t => stage \in {"produce", "stop", "reap", "report"}

\* Whose turn it is: M[0] changes hands only as the two loops intend.
Turns ==
  /\ \A c \in Consumers : pos[c] \in {"read", "free"} => m0 = c
  /\ \A c \in Consumers : pos[c] = "ended" => m0 = Stop
  /\ m0 = Stop <=> stage \in {"reap", "report"}
  /\ stage \in {"offer", "stop"} => m0 = Free
  /\ stage \in {"put", "account"} => m0 \in {consumer, Free}

\* Consumer c has been offered an item that the producer has not counted yet.
Uncounted(c) == IF stage \in {"put", "account"} /\ consumer = c THEN 1 ELSE 0
\* M[0] names consumer c, who has not read yet.
Unread(c) == IF m0 = c /\ pos[c] # "free" THEN 1 ELSE 0

CountsMatch ==
  \A c \in Consumers : cons_itemc[c] + Uncounted(c) = itemc[c] + Unread(c)

ProdConsInv == ProdConsTypeOK /\ Turns /\ CountsMatch

(* For each consumer the producer reports as many items as the consumer has *)
(* read: it reads once for each that M[0] offers it, although M[0] is all   *)
(* the synchronisation there is (prodcons_21CS30009.c:56-63, 79-92).        *)
ItemsAgree == stage = "report" => itemc = cons_itemc

(* And the sum of what it has read is the sum the producer reports for it   *)
(* (prodcons_21CS30009.c:65, 98).  It is not so: M[0] is set before M[1], a *)
(* consumer that looks between the two reads the item before once more, and *)
(* the new one never (lines 60, 81-83).                                     *)
ChecksumsAgree == stage = "report" => checksum = cons_checksum

(* Every consumer ends and the producer reports, although all of them wait  *)
(* by polling M[0].                                                         *)
AllEnd == <>(stage = "report" /\ \A c \in Consumers : pos[c] = "ended")
=============================================================================
