----------------------------- MODULE MCProdCons ----------------------------
(* Three consumers and four items of two kinds: a consumer can be given     *)
(* several in a row or none at all.                                         *)
EXTENDS ProdCons
=============================================================================
