------------------------------ MODULE MCPageTables ------------------------------
(* PageTables for TLC. *)
EXTENDS PageTables
================================================================================
