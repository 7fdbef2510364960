------------------------------- MODULE HeapsMC -------------------------------
(* Three clients, all alike.  umm_malloc has eight blocks to give out; 4, 13 *)
(* and 21 bytes need one, three and four of them, three times as much two,   *)
(* six and nine; 4 and 12 fill theirs to the brim and 13 and 21 just do not  *)
(* fit into one less.  qmemmang has thirteen units; 8, 17 and 30 bytes need  *)
(* two, four and five, and what is left over is given along or split off.    *)
(* lv_mem has seven units; 4 and 9 bytes need two and four.                  *)
(* tlsf has pools of seventeen and seven units, of which one block each      *)
(* takes fifteen and five; 4 bytes are raised to the least, 16, 17 and 24    *)
(* need four, five and six units, in classes of two sizes each.              *)
(* mmem has seven bytes, which three times two and one more fill.            *)
EXTENDS Heaps, TLC

Symmetry == Permutations(Handle)
=============================================================================
