----------------------------- MODULE MCAetTracker -----------------------------
(* A small instance: 6-bit words, buckets of 1, 1, 2, 2, 4, 4 ... values,   *)
(* two hash buckets of two nodes, three frames that collide in one of them. *)
EXTENDS AetProcess

MCMfn == {1, 3, 5}
MCMemCounter == {0, 19}
MCRefCounts == {3, 15}
=============================================================================
