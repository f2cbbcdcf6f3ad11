---------------------------- MODULE MCFoothread ----------------------------
(* The library: three threads, one mutex and one barrier of two, any calls  *)
(* in any order; or a leader, three joinable followers and one detached     *)
(* one, who create and exit.  The two halves share no data (foothread.c:6-80 *)
(* and 82-139), so each behaviour uses one of them.                          *)
EXTENDS Foothread, FootExit, TLC

Trip == [b \in Barriers |-> 2]
Symmetric == Permutations(Threads)

VARIABLE half
library == <<libvars, exitvars, half>>

LibraryInit ==
  /\ Init /\ ExitInit
  /\ \/ half = "calls"
     \/ half = "exits" /\ \A t \in Threads : arg[t] \in Mutexes

Calls == half = "calls" /\ Next /\ UNCHANGED <<exitvars, half>>
Exits == half = "exits" /\ ExitNext /\ UNCHANGED <<libvars, half>>

\* ExitFairness, where there are exits.
LibraryFairness ==
  /\ WF_library(Exits /\ CreateStep)
  /\ \A t \in Joinable \union {Leader} : WF_library(Exits /\ ExitStep(t))

LibrarySpec == LibraryInit /\ [][Calls \/ Exits]_library /\ LibraryFairness
=============================================================================
