------------------------------ MODULE MCAetRetry ------------------------------
(* Operands for AetRetry: instructions that touch at most one of the pages   *)
(* sampling tags, and instructions that touch two of them.                   *)
EXTENDS AetRetry

OneSampledPage == {{0}, {0, 1}}
TwoSampledPages == {{0, 1}}
=============================================================================
