----------------------------- MODULE MCManager -----------------------------
(* A table with places for two jobs, a third fork when an entry has been    *)
(* lost, and three keys.                                                    *)
EXTENDS Manager
=============================================================================
