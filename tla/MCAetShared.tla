----------------------------- MODULE MCAetShared -----------------------------
(* Processors, shadow pages and frames are interchangeable.                *)
EXTENDS AetShared, TLC

Symmetry == Permutations(Cpu) \cup Permutations(Table) \cup Permutations(Mfn)
=============================================================================
