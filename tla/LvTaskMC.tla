------------------------------ MODULE LvTaskMC ------------------------------
(* Three nodes that are interchangeable, priorities on both sides of the   *)
(* default one with which every task begins, and the highest.              *)
EXTENDS LvTask, TLC

MCPrios == {0, 2, 4, 5}
MCPeriods == {1}

Interchangeable == Permutations(Node)
=============================================================================
