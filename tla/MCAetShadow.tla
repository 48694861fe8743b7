----------------------------- MODULE MCAetShadow -----------------------------
(* Instances of AetShadow.  Frames that are all treated alike (no Removable  *)
(* ones), regions and tables are interchangeable: nothing orders them.       *)
EXTENDS AetShadow, TLC

Symmetry == Permutations(Frame) \cup Permutations(Region) \cup Permutations(Table)
=============================================================================
