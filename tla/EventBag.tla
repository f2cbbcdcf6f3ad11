------------------------------ MODULE EventBag -----------------------------
(***************************************************************************)
(* What the assistant relies on of the event queue of A6: a bag of events  *)
(* of which she looks at a least one, and takes away the one she has       *)
(* looked at, least still, after whatever was added meanwhile.             *)
(***************************************************************************)
EXTENDS Integers, Sequences, BagsExt, SequencesExt

CONSTANTS
  Files,    \* what arrival.txt may hold: sequences of events
  Events    \* the events that may be added

VARIABLES
  bag,      \* the events
  next      \* the one looked at last

Order == [R |-> 1, P |-> 2, S |-> 3, D |-> 4]

NotAfter(e, f) ==
  \/ e.time < f.time
  \/ e.time = f.time /\ Order[e.type] <= Order[f.type]

Least(b) == {e \in DOMAIN b : \A f \in DOMAIN b : NotAfter(e, f)}

Init ==
  /\ bag \in {ToBag(file) : file \in Files}
  /\ bag # EmptyBag => next \in Least(bag)

Peek ==
  /\ next' \in Least(bag)
  /\ UNCHANGED bag

Add(e) ==
  /\ e \in Events
  /\ bag' = BagAdd(bag, e)
  /\ UNCHANGED next

Take ==
  /\ next \in Least(bag)
  /\ bag' = BagRemove(bag, next)
  /\ UNCHANGED next

Next == Peek \/ Take \/ \E e \in DOMAIN bag' : Add(e)

Spec == Init /\ [][Next]_<<bag, next>>
=============================================================================
