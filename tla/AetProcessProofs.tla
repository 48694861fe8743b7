--------------------------- MODULE AetProcessProofs ---------------------------
(***************************************************************************)
(* Proofs about `xc -c': the walk of aet_process through the histogram     *)
(* keeps step with the recorder's compression, and the curve it writes is  *)
(* a miss ratio.                                                           *)
(***************************************************************************)
EXTENDS AetWalkProofs, AetTrackerProofs

\* A count of references the properties are about.
LEMMA ComputableType ==
  ASSUME NEW n \in Computable PROVE n \in Nat /\ n < Half /\ AllRefs(n) # 0
<1>1. n \in Word /\ n < Half /\ AllRefs(n) # 0
  BY ProcessAssumption, Zenon DEF Computable, Half
<1>2. QED
  BY <1>1, WordAssumption DEF Word

\* The curve `xc -c' computes from the histogram of any reachable state is a miss
\* ratio that does not rise with the cache.
THEOREM CurveAlwaysMissRatio == Spec => []CurveIsMissRatio
<1>1. TypeOK /\ HistogramWithinReferences => CurveIsMissRatio
  <2> SUFFICES ASSUME TypeOK, HistogramWithinReferences, NEW n \in Computable
               PROVE  LET states == aet_process(n)
                          last == states[Len(states)]
                      IN  /\ Beyond(n, last) >= 0
                          /\ \A i \in 1 .. Len(last.curve) - 1 :
                               last.curve[i + 1] <= last.curve[i]
    BY Zenon DEF CurveIsMissRatio
  <2>1. n \in Nat /\ n < Half /\ AllRefs(n) # 0
    BY ComputableType, Zenon
  <2>2. PICK q, m, W : q = aet_process(n) /\ m = Turns(n)
                       /\ W = {s \in State : WalkInv(n, s)}
    BY Zenon
  <2>3. m \in Nat \ {0} /\ Len(q) = m /\ q \in Seq(W)
    BY <2>1, <2>2, ProcessStates, Zenon
  <2>4. PICK s : s = q[m]
    BY Zenon
  <2>5. s \in W
    BY <2>3, <2>4
  <2>6. s \in State /\ WalkInv(n, s)
    BY <2>2, <2>5, Zenon
  <2>7. Beyond(n, s) >= 0
    <3>1. Beyond(n, s) \in Nat
      BY <2>1, <2>6, BeyondBounds, Zenon DEF WalkInv, Summed
    <3>2. QED
      BY <3>1
  <2>8. \A i \in 1 .. Len(s.curve) - 1 : s.curve[i + 1] <= s.curve[i]
    BY <2>6, Zenon DEF WalkInv, Falling
  <2>9. aet_process(n)[Len(aet_process(n))] = s
    BY <2>2, <2>3, <2>4, Zenon
  <2>10. QED
    BY <2>7, <2>8, <2>9, Zenon
<1>2. QED
  BY <1>1, TypeCorrect, SamplesWithinReferences, PTL

-----------------------------------------------------------------------------
\* The loops of domain_value_to_index compute without overflow as long as the
\* values before the current width are ints.
LEMMA ReachedExact ==
  ASSUME NEW k \in 0 .. WORD_BITS, NEW w \in Nat \ {0}, w = 2^k,
         DOMAIN_SIZE * (w - 1) < Half, w < 2^WORD_BITS, NEW x \in 0 .. DOMAIN_SIZE
  PROVE  Reached(k, x) = DOMAIN_SIZE * (w - 1) + x * w
<1>1. PICK m, a, b, z : /\ m = DOMAIN_SIZE /\ a = m * (w - 1) /\ b = x * w
                        /\ z = 2^WORD_BITS
  BY Zenon
<1>2. m \in Nat \ {0} /\ x \in Nat /\ x <= m /\ z \in Nat /\ a < Half
  BY <1>1, DomainAssumption, WordAssumption
<1>3. a \in Nat /\ b \in Nat
  BY <1>1, <1>2
<1>4. b <= m * w /\ m * w = a + m
  <2>1. b <= m * w
    BY <1>1, <1>2
  <2>2. m * w = m * (w - 1) + m
    BY <1>2
  <2>3. QED
    BY <1>1, <2>1, <2>2, Zenon
<1>5. a + b < z /\ a < z
  BY <1>1, <1>2, <1>3, <1>4, Widths
<1>6. LocAfter(k) = a
  <2>1. LocAfter(k) = Unsigned(a)
    BY <1>1, Zenon DEF LocAfter
  <2>2. a \in 0 .. (z - 1) /\ a \in Int
    BY <1>2, <1>3, <1>5
  <2>3. QED
    BY <1>1, <2>1, <2>2, UnsignedOf, Zenon
<1>7. StepAfter(k) = w
  <2>1. StepAfter(k) = Unsigned(w)
    BY Zenon DEF StepAfter
  <2>2. w \in 0 .. (z - 1) /\ w \in Int
    BY <1>1, <1>2
  <2>3. QED
    BY <1>1, <2>1, <2>2, UnsignedOf, Zenon
<1>8. Reached(k, x) = Unsigned(a + b)
  BY <1>1, <1>6, <1>7, Zenon DEF Reached
<1>9. a + b \in 0 .. (z - 1) /\ a + b \in Int
  BY <1>2, <1>3, <1>5
<1>10. QED
  BY <1>1, <1>8, <1>9, UnsignedOf, Zenon

\* The least element of a set of natural numbers, by what it is.
LEMMA LeastIs ==
  ASSUME NEW S, S \subseteq Nat, NEW x \in S, \A y \in S : x <= y
  PROVE  Least(S) = x
<1>1. PICK l : l = Least(S)
  BY Zenon
<1>2. l \in S /\ l <= x
  BY <1>1, LeastProperties, Zenon
<1>3. x <= l /\ x \in Nat /\ l \in Nat
  BY <1>2, Zenon
<1>4. QED
  BY <1>1, <1>2, <1>3

\* domain_value_to_index finds bucket d of width 2^j for the values in it.
LEMMA IndexOf ==
  ASSUME NEW j \in 0 .. (INT_BITS - 1), NEW d \in 1 .. DOMAIN_SIZE, NEW v \in Nat,
         NEW w, w = 2^j, NEW last, last = DOMAIN_SIZE * (w - 1) + d * w,
         last < Half, last - w < v, v <= last
  PROVE  domain_value_to_index(v) = j * DOMAIN_SIZE + d
<1>1. PICK m, a, b : m = DOMAIN_SIZE /\ a = m * (w - 1) /\ b = d * w
  BY Zenon
<1>2. j \in Exponent /\ j \in 0 .. WORD_BITS /\ j \in Nat
  BY ProcessAssumption, WordAssumption, SizeAssumption DEF Exponent
<1>3. m \in Nat \ {0} /\ w \in Nat \ {0} /\ d \in Nat /\ d <= m /\ d >= 1
  BY <1>1, <1>2, PowersOfTwo, DomainAssumption DEF Exponent
<1>4. a \in Nat /\ b \in Nat /\ b >= w /\ last = a + b
  BY <1>1, <1>3
<1>5. a < Half /\ a < v /\ last \in Nat /\ w < 2^WORD_BITS
  BY <1>3, <1>4, Widths, DomainAssumption
<1>6. ASSUME NEW x \in 0 .. m PROVE Reached(j, x) = a + x * w
  BY <1>1, <1>2, <1>3, <1>5, ReachedExact, Zenon
<1>7. j \in FirstLoopExits(v)
  <2>1. m \in 0 .. m
    BY <1>3
  <2>2. Reached(j, m) = a + m * w
    BY <1>6, <2>1, Zenon
  <2>3. m * w >= b /\ m * w \in Nat
    BY <1>1, <1>3
  <2>4. ~ (a + m * w < v)
    BY <1>4, <2>3
  <2>5. QED
    BY <1>1, <1>2, <2>2, <2>4, Zenon DEF FirstLoopExits
<1>8. ASSUME NEW i \in FirstLoopExits(v) PROVE j <= i
  <2>1. i \in 0 .. WORD_BITS /\ ~ (Reached(i, m) < v)
    BY <1>1, Zenon DEF FirstLoopExits
  <2>2. i \in Nat /\ i \in Exponent
    BY <2>1, WordAssumption, SizeAssumption DEF Exponent
  <2>3. ASSUME i < j PROVE FALSE
    <3>1. PICK u : u = 2^i
      BY Zenon
    <3>2. u \in Nat \ {0} /\ 2 * u <= w
      BY <1>2, <2>2, <2>3, <3>1, PowerGrows, Zenon
    <3>3. m * (u - 1) + m * u = m * (2 * u - 1)
      BY <1>3, <3>2
    <3>4. m * (2 * u - 1) <= m * (w - 1)
      BY <1>3, <3>2
    <3>5. m * (u - 1) \in Nat /\ m * u \in Nat
      BY <1>3, <3>2
    <3>6. m * (u - 1) < Half /\ u < 2^WORD_BITS
      BY <1>1, <1>3, <1>4, <1>5, <3>2, <3>3, <3>4, <3>5, Widths, WordAssumption
    <3>7. m \in 0 .. m
      BY <1>3
    <3>8. Reached(i, m) = m * (u - 1) + m * u
      BY <1>1, <2>1, <3>1, <3>2, <3>6, <3>7, ReachedExact, Zenon
    <3>9. m * (u - 1) + m * u < v
      BY <1>1, <1>4, <1>5, <3>3, <3>4, <3>5
    <3>10. QED
      BY <2>1, <3>8, <3>9, Zenon
  <2>4. QED
    BY <1>2, <2>2, <2>3
<1>9. Least(FirstLoopExits(v)) = j
  <2>1. FirstLoopExits(v) \subseteq Nat
    BY WordAssumption DEF FirstLoopExits
  <2>2. QED
    BY <1>7, <1>8, <2>1, LeastIs, Zenon
<1>10. d \in SecondLoopExits(v, j)
  <2>1. d \in 0 .. m /\ ~ (a + b < v)
    BY <1>3, <1>4, <1>5
  <2>2. Reached(j, d) = a + b
    BY <1>1, <1>6, <2>1, Zenon
  <2>3. QED
    BY <1>1, <2>1, <2>2, Zenon DEF SecondLoopExits
<1>11. ASSUME NEW x \in SecondLoopExits(v, j) PROVE d <= x
  <2>1. x \in 0 .. m /\ ~ (Reached(j, x) < v)
    BY <1>1, Zenon DEF SecondLoopExits
  <2>2. ~ (a + x * w < v)
    BY <1>6, <2>1, Zenon
  <2>3. ASSUME x < d PROVE FALSE
    <3>1. x \in Nat /\ x + 1 <= d
      BY <1>3, <2>1, <2>3
    <3>2. (x + 1) * w <= d * w
      BY <1>3, <3>1
    <3>3. (x + 1) * w = x * w + w /\ x * w \in Nat
      BY <1>3, <3>1
    <3>4. QED
      BY <1>1, <1>3, <1>4, <2>2, <3>2, <3>3
  <2>4. QED
    BY <1>3, <2>1, <2>3
<1>12. Least(SecondLoopExits(v, j)) = d
  <2>1. SecondLoopExits(v, j) \subseteq Nat
    BY DomainAssumption DEF SecondLoopExits
  <2>2. QED
    BY <1>10, <1>11, <2>1, LeastIs, Zenon
<1>13. QED
  BY <1>9, <1>12, Zenon DEF domain_value_to_index

\* aet_process finds the samples of every distance where add_to_aet_histogram put
\* them, whatever has been recorded.
THEOREM CurveAlwaysUndoes == Spec => []CurveUndoesCompression
<1>1. TypeOK /\ HistogramWithinReferences => CurveUndoesCompression
  <2> SUFFICES ASSUME TypeOK, HistogramWithinReferences, NEW n \in Computable,
                      NEW k \in DOMAIN aet_process(n),
                      NEW s, s = aet_process(n)[k],
                      s.T > 0, ~ Left(s), s.loc >= s.T
               PROVE  /\ s.dT = domain_value_to_index(s.T)
                      /\ s.loc = s.T =>
                           s.sum = Scale * SumFunctionOnSet(aet_hist[1], 1 .. s.dT)
    BY Zenon DEF CurveUndoesCompression
  <2>1. n \in Nat /\ n < Half /\ AllRefs(n) # 0
    BY ComputableType, Zenon
  <2>2. PICK q, W : q = aet_process(n) /\ W = {t \in State : WalkInv(n, t)}
    BY Zenon
  <2>3. q \in Seq(W)
    BY <2>1, <2>2, ProcessStates, Zenon
  <2>4. s \in W
    <3>1. k \in DOMAIN q /\ s = q[k]
      BY <2>2, Zenon
    <3>2. QED
      BY <2>3, <3>1
  <2>5. s \in State /\ WalkInv(n, s) /\ Placed(s) /\ Summed(s) /\ Bucketed(s)
    BY <2>2, <2>4, Zenon DEF WalkInv, Placed
  <2>6. PICK T, loc, last, w, d : /\ T = s.T /\ loc = s.loc /\ last = LastValue(s)
                                  /\ w = s.step /\ d = s._dom
    BY Zenon
  <2>7. T \in Nat /\ loc \in Int /\ last \in Nat /\ w \in Nat \ {0} /\ d \in Nat
    BY <2>5, <2>6, StateTypes, WidthWithinLast, Zenon
  <2>8. T > 0 /\ loc >= T
    BY <2>6, Zenon
  <2>9. last < Half /\ loc = last
    <3>1. last >= Half => loc \in (- Half) .. (- 1)
      BY <2>5, <2>6, Zenon DEF Bucketed
    <3>2. last < Half
      BY <2>7, <2>8, <3>1, Widths
    <3>3. QED
      BY <2>5, <2>6, <3>2, Zenon DEF Bucketed
  <2>10. Rank(s) \in 1 .. w /\ Rank(s) = T - (last - w)
    BY <2>5, <2>6, Zenon DEF Placed, Rank
  <2>11. last - w < T /\ T <= last
    BY <2>7, <2>10
  <2>12. d # 0 /\ d \in 1 .. DOMAIN_SIZE
    <3>1. d = 0 => T = 0
      BY <2>5, <2>6, Zenon DEF Placed
    <3>2. d # 0
      BY <2>8, <3>1
    <3>3. QED
      BY <2>5, <2>6, <3>2, Zenon DEF Bucketed
  <2>13. s.dT = domain_value_to_index(s.T)
    <3>1. PICK j \in 0 .. (INT_BITS - 1) : w = 2^j /\ s.dT = j * DOMAIN_SIZE + d
      BY <2>5, <2>6, Zenon DEF Bucketed
    <3>2. last = DOMAIN_SIZE * (w - 1) + d * w
      BY <2>6, Zenon DEF LastValue
    <3>3. domain_value_to_index(T) = j * DOMAIN_SIZE + d
      BY <2>7, <2>9, <2>11, <2>12, <3>1, <3>2, IndexOf, Zenon
    <3>4. QED
      BY <2>6, <3>1, <3>3, Zenon
  <2>14. ASSUME s.loc = s.T
         PROVE  s.sum = Scale * SumFunctionOnSet(aet_hist[1], 1 .. s.dT)
    <3>1. Rank(s) = s.step
      <4>1. T = last
        BY <2>6, <2>9, <2>14, Zenon
      <4>2. Rank(s) = w
        BY <2>7, <2>10, <4>1
      <4>3. QED
        BY <2>6, <4>2, Zenon
    <3>2. s._dom # 0
      BY <2>6, <2>12, Zenon
    <3>3. s.sum = Scale * Passed(s) + Rank(s) * Share(s)
      BY <2>5, <3>2, Zenon DEF Summed
    <3>4. QED
      BY <2>5, <3>1, <3>2, <3>3, BucketSummed, Zenon
  <2>15. QED
    BY <2>13, <2>14, Zenon
<1>2. QED
  BY <1>1, TypeCorrect, SamplesWithinReferences, PTL
=============================================================================
