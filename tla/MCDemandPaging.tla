----------------------------- MODULE MCDemandPaging -----------------------------
(* DemandPaging for TLC; the instances are in the MCDemandPaging*.cfg files. *)
EXTENDS DemandPaging
================================================================================
