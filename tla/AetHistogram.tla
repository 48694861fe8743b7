----------------------------- MODULE AetHistogram -----------------------------
(***************************************************************************)
(* The reuse-time histogram's compression (aet.c, domain_value_to_index):  *)
(* bucket i of the first DOMAIN buckets holds one value, of the next       *)
(* DOMAIN two values, of the next four, and so on.                         *)
(*                                                                         *)
(* The C code computes on unsigned long.  WORD_BITS is the width of that   *)
(* type (64 in the build), DOMAIN the constant `domain' (256).  Each loop  *)
(* is given by its state after k rounds, all arithmetic modulo 2^WORD_BITS,*)
(* so that a loop that never exits is visible as an empty set of exits.    *)
(***************************************************************************)
EXTENDS Integers, FiniteSets

CONSTANTS WORD_BITS, DOMAIN_SIZE

\* The second conjunct follows from the first; the provers know nothing of powers.
ASSUME WordAssumption == WORD_BITS \in Nat \ {0} /\ 2^WORD_BITS \in Nat \ {0}
ASSUME DomainAssumption == DOMAIN_SIZE \in Nat \ {0}

Word == 0 .. (2^WORD_BITS - 1)

\* Conversion of a mathematical integer to unsigned long.
Unsigned(x) == x % (2^WORD_BITS)

-----------------------------------------------------------------------------
\* `loc' and `step' after k rounds of the first loop.
LocAfter(k) == Unsigned(DOMAIN_SIZE * (2^k - 1))
StepAfter(k) == Unsigned(2^k)

\* Variant: `loc' is kept in a type half as wide as the value's.
NarrowReached(k, n) ==
  (LocAfter(k) + n * StepAfter(k)) % (2^(WORD_BITS \div 2))

\* `loc' after k rounds of the first loop and n of the second.
Reached(k, n) == Unsigned(LocAfter(k) + n * StepAfter(k))

\* The rounds at which the first loop's condition is false.  After WORD_BITS
\* rounds step is 0 and the loop's state no longer changes.
FirstLoopExits(value) ==
  {k \in 0 .. WORD_BITS : ~ (Reached(k, DOMAIN_SIZE) < value)}

Terminates(value) == FirstLoopExits(value) # {}

\* The second loop exits at the latest when it reaches the point that ended
\* the first.
SecondLoopExits(value, k) ==
  {n \in 0 .. DOMAIN_SIZE : ~ (Reached(k, n) < value)}

Least(S) == CHOOSE x \in S : \A y \in S : x <= y

domain_value_to_index(value) ==
  LET k == Least(FirstLoopExits(value))
  IN  k * DOMAIN_SIZE + Least(SecondLoopExits(value, k))
=============================================================================
