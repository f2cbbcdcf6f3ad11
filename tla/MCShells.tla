------------------------------ MODULE MCShells -----------------------------
(* Seven commands: one that can be executed and four that cannot, of which  *)
(* two run together to swaprole and two to exit.  Enough for both windows   *)
(* to take both roles, with children that took over in both.                *)
EXTENDS Shells

RunTogetherToSwap == {<<"swap", "role">>}
RunTogetherToExit == {<<"ex", "it">>}
=============================================================================
