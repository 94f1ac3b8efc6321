----------------------------- MODULE MCAvlTree -----------------------------
(* AvlTree with nodes that are numbers, the last one of a key that another *)
(* node has too.                                                           *)
EXTENDS AvlTree

CONSTANT NodeCount

MCNodes == 1..NodeCount

MCKeyOf == [n \in MCNodes |-> IF n = NodeCount THEN 2 ELSE n]
=============================================================================
