----------------------------- MODULE MCSession -----------------------------
(* Two patients and one sales representative are served.  The files have an *)
(* arrival of any kind, one of a patient and one of a sales representative, *)
(* early, on time or late, a fourth one, and perhaps a reporter after all   *)
(* visits: without it, visitors may still wait when the events are over.    *)
EXTENDS Session

Times == {-1, 1, 2}
Length == [R |-> 1, P |-> 2, S |-> 2]
Arrival(t, m) == [type |-> t, time |-> m, duration |-> Length[t]]

Fourth == {Arrival("R", 2), Arrival("P", 2), Arrival("P", 4)}
Ends == {<< >>, <<Arrival("R", 9)>>}

FileSet ==
  {<<Arrival(t, m), Arrival("P", mp), Arrival("S", ms), last>> \o end :
     t \in Kinds, m \in Times, mp \in Times, ms \in Times, last \in Fourth, end \in Ends}
=============================================================================
