---------------------------- MODULE AetWalkProofs ----------------------------
(***************************************************************************)
(* The loop invariant of the walk of aet_process through the histogram:    *)
(* its bucket is the one the recorder keeps the distance in, its sum is    *)
(* the part of the histogram it has passed, and the points fall.           *)
(***************************************************************************)
EXTENDS AetProcess, SumTheorems

Exponent == 0 .. (WORD_BITS + MAX_PAGE_NUM)

\* The number of values of int that are not negative.
Half == 2^(INT_BITS - 1)

\* A smaller power of two divides a larger one.
LEMMA PowerDivides ==
  ASSUME NEW a \in Exponent, NEW b \in Exponent, a <= b
  PROVE  \E q \in Nat \ {0} : 2^b = q * 2^a
<1> DEFINE N == {d \in Nat : a + d \in Exponent =>
                               \E q \in Nat \ {0} : 2^(a + d) = q * 2^a}
<1>0. a \in Nat /\ b \in Nat /\ 2^a \in Nat
  BY PowersOfTwo DEF Exponent
<1>1. 0 \in N
  <2>1. 2^(a + 0) = 1 * 2^a
    BY <1>0
  <2>2. QED
    BY <2>1
<1>2. ASSUME NEW d \in N PROVE d + 1 \in N
  <2>1. ASSUME a + (d + 1) \in Exponent
        PROVE  \E q \in Nat \ {0} : 2^(a + (d + 1)) = q * 2^a
    <3>1. a + d \in Exponent /\ a + (d + 1) = (a + d) + 1
      BY <1>0, <2>1, WordAssumption, SizeAssumption DEF Exponent
    <3>2. PICK q \in Nat \ {0} : 2^(a + d) = q * 2^a
      BY <3>1, Zenon
    <3>3. 2^(a + (d + 1)) = 2 * 2^(a + d)
      BY <3>1, PowersOfTwo, Zenon DEF Exponent
    <3>4. PICK p : p \in Nat /\ p = 2^a
      BY <1>0, Zenon
    <3>5. 2 * (q * p) = (2 * q) * p /\ 2 * q \in Nat \ {0}
      BY <3>4
    <3>6. QED
      BY <3>2, <3>3, <3>4, <3>5, Zenon
  <2>2. QED
    BY <2>1
<1> HIDE DEF N
<1>3. N = Nat
  BY <1>1, <1>2, NatInd, Zenon DEF N
<1>4. b - a \in N /\ a + (b - a) = b
  BY <1>0, <1>3
<1>5. QED
  BY <1>4, Zenon DEF N

\* Powers of two grow, and double at least from one exponent to a later one.
LEMMA PowerGrows ==
  ASSUME NEW a \in Exponent, NEW b \in Exponent
  PROVE  /\ 2^a \in Nat \ {0} /\ 2^b \in Nat \ {0}
         /\ a <= b => 2^a <= 2^b
         /\ a < b => 2 * 2^a <= 2^b
<1>1. 2^a \in Nat \ {0} /\ 2^b \in Nat \ {0}
  BY PowersOfTwo, Zenon DEF Exponent
<1>2. ASSUME NEW c \in Exponent, c <= b PROVE 2^c <= 2^b
  <2>1. PICK q \in Nat \ {0} : 2^b = q * 2^c
    BY <1>2, PowerDivides, Zenon
  <2>2. PICK p : p = 2^c /\ p \in Nat
    BY PowersOfTwo, Zenon DEF Exponent
  <2>3. q * p >= p
    BY <2>2
  <2>4. QED
    BY <2>1, <2>2, <2>3, Zenon
<1>3. ASSUME a < b PROVE 2 * 2^a <= 2^b
  <2>1. a + 1 \in Exponent /\ a + 1 <= b
    BY <1>3, WordAssumption, SizeAssumption DEF Exponent
  <2>2. 2^(a + 1) = 2 * 2^a
    BY PowersOfTwo, Zenon DEF Exponent
  <2>3. 2^(a + 1) <= 2^b
    BY <1>2, <2>1, Zenon
  <2>4. QED
    BY <2>2, <2>3, Zenon
<1>4. QED
  BY <1>1, <1>2, <1>3, Zenon

\* What the widths say of each other.
LEMMA Widths ==
  /\ Half \in Nat \ {0} /\ 2^INT_BITS = 2 * Half
  /\ 2 * Half + DOMAIN_SIZE <= 2^WORD_BITS /\ 2^WORD_BITS \in Nat
<1>1. INT_BITS - 1 \in Exponent /\ (INT_BITS - 1) + 1 = INT_BITS
  BY ProcessAssumption, WordAssumption, SizeAssumption DEF Exponent
<1>2. Half \in Nat \ {0} /\ 2^((INT_BITS - 1) + 1) = 2 * Half
  BY <1>1, PowersOfTwo, Zenon DEF Exponent, Half
<1>3. QED
  BY <1>1, <1>2, WidthAssumption, WordAssumption, Zenon

\* A remainder, for a dividend less than twice the divisor and for one that is
\* negative by no more than the divisor.
LEMMA Remainder ==
  ASSUME NEW a \in Int, NEW b \in Nat \ {0}
  PROVE  /\ a \in 0 .. (b - 1) => a % b = a
         /\ a \in b .. (2 * b - 1) => a % b = a - b
         /\ a \in (- b) .. (- 1) => a % b = a + b
OBVIOUS

\* Conversion of a bucket's last value to int.
LEMMA SignedOf ==
  ASSUME NEW x \in Nat, x < 2 * Half
  PROVE  /\ x < Half => Signed(x) = x
         /\ x >= Half => Signed(x) \in (- Half) .. (- 1)
<1>1. PICK h : h = Half /\ h \in Nat \ {0}
  BY Widths, Zenon
<1>2. Signed(x) = ((x + h) % (2 * h)) - h
  BY <1>1, Widths, Zenon DEF Signed, Half
<1>3. CASE x < h
  BY <1>1, <1>2, <1>3, Remainder
<1>4. CASE x >= h
  <2>1. (x + h) % (2 * h) = (x + h) - (2 * h)
    <3>1. 2 * h \in Nat \ {0} /\ x + h \in (2 * h) .. (2 * (2 * h) - 1)
      BY <1>1, <1>4
    <3>2. QED
      BY <3>1, Remainder
  <2>2. QED
    BY <1>1, <1>2, <1>4, <2>1
<1>5. QED
  BY <1>1, <1>3, <1>4, Zenon

\* Conversion of an int to unsigned long: a negative one becomes larger than
\* every other.
LEMMA UnsignedOf ==
  ASSUME NEW x \in Int
  PROVE  /\ x \in 0 .. (2^WORD_BITS - 1) => Unsigned(x) = x
         /\ x \in (- Half) .. (- 1) => Unsigned(x) >= Half
<1>1. PICK w, h : w = 2^WORD_BITS /\ h = Half /\ w \in Nat \ {0} /\ h \in Nat \ {0}
                  /\ 2 * h <= w
  BY Widths, DomainAssumption
<1>2. Unsigned(x) = x % w
  BY <1>1, Zenon DEF Unsigned
<1>3. QED
  BY <1>1, <1>2, Remainder
-----------------------------------------------------------------------------
\* The variables of the walk.
State == [c : Nat, T : Nat, dT : Nat, _dom : Nat, loc : Int, step : Nat,
          sum : Nat, tot : Int, curve : Seq(Nat)]

\* The last value of bucket dT, which loc holds as long as it is an int.
LastValue(s) == DOMAIN_SIZE * (s.step - 1) + s._dom * s.step

\* The bucket, its number among those of its width, and its width belong
\* together, and loc is the bucket's last value or has become negative.
Bucketed(s) ==
  /\ \E j \in 0 .. (INT_BITS - 1) : s.step = 2^j /\ s.dT = j * DOMAIN_SIZE + s._dom
  /\ s._dom \in 1 .. DOMAIN_SIZE \/ (s._dom = 0 /\ s.step = 1)
  /\ LastValue(s) < Half => s.loc = LastValue(s)
  /\ LastValue(s) >= Half => s.loc \in (- Half) .. (- 1)

\* The types of the variables.
LEMMA StateTypes ==
  ASSUME NEW s \in State
  PROVE  /\ s.c \in Nat /\ s.T \in Nat /\ s.dT \in Nat /\ s._dom \in Nat
         /\ s.loc \in Int /\ s.step \in Nat /\ s.sum \in Nat /\ s.tot \in Int
         /\ s.curve \in Seq(Nat)
BY Zenon DEF State

\* The last value of bucket d of m buckets of width w, against the width.
LEMMA LastArithmetic ==
  ASSUME NEW m \in Nat \ {0}, NEW w \in Nat \ {0}, NEW d \in Nat,
         d \in 1 .. m \/ (d = 0 /\ w = 1), NEW last, last = m * (w - 1) + d * w
  PROVE  /\ last \in Nat /\ w <= last + 1 /\ d <= m
         /\ d = m => 2 * w <= last + 1
<1>1. PICK x, y : x = m * (w - 1) /\ y = d * w /\ x \in Nat /\ y \in Nat
  OBVIOUS
<1>2. x >= w - 1
  BY <1>1
<1>3. d # 0 => y >= w
  BY <1>1
<1>4. QED
  BY <1>1, <1>2, <1>3

\* The last value of the next bucket of the same width.
LEMMA NextArithmetic ==
  ASSUME NEW m \in Nat, NEW w \in Nat, NEW d \in Nat,
         NEW last, last = m * (w - 1) + d * w
  PROVE  m * (w - 1) + (d + 1) * w = last + w
<1>1. (d + 1) * w = d * w + w
  OBVIOUS
<1>2. m * (w - 1) \in Int /\ d * w \in Int
  OBVIOUS
<1>3. QED
  BY <1>1, <1>2

\* The same for the first bucket of the doubled width.
LEMMA DoubledArithmetic ==
  ASSUME NEW m \in Nat, NEW w \in Nat, NEW last, last = m * (w - 1) + m * w
  PROVE  m * (2 * w - 1) + 1 * (2 * w) = last + 2 * w
<1>1. m * (2 * w - 1) = m * (w - 1) + m * w
  OBVIOUS
<1>2. QED
  BY <1>1

\* A bucket's width does not exceed its last value by more than one.
LEMMA WidthWithinLast ==
  ASSUME NEW s \in State, Bucketed(s)
  PROVE  /\ s.step \in Nat \ {0} /\ LastValue(s) \in Nat
         /\ s.step <= LastValue(s) + 1
         /\ s._dom = DOMAIN_SIZE => 2 * s.step <= LastValue(s) + 1
         /\ s._dom \in 0 .. DOMAIN_SIZE
<1>1. PICK j \in 0 .. (INT_BITS - 1) : s.step = 2^j
  BY Zenon DEF Bucketed
<1>2. j \in Exponent
  BY ProcessAssumption, WordAssumption, SizeAssumption DEF Exponent
<1>3. PICK w, d, m : /\ w = s.step /\ d = s._dom /\ m = DOMAIN_SIZE
                     /\ w \in Nat \ {0} /\ d \in Nat /\ m \in Nat \ {0}
  BY <1>1, <1>2, PowersOfTwo, DomainAssumption, Zenon DEF Exponent, State
<1>4. LastValue(s) = m * (w - 1) + d * w
  BY <1>3, Zenon DEF LastValue
<1>5. d \in 1 .. m \/ (d = 0 /\ w = 1)
  BY <1>3, Zenon DEF Bucketed
<1>6. PICK last : last = LastValue(s) /\ last = m * (w - 1) + d * w
  BY <1>4, Zenon
<1>7. /\ last \in Nat /\ w <= last + 1 /\ d <= m
      /\ d = m => 2 * w <= last + 1
  BY <1>3, <1>5, <1>6, LastArithmetic, Zenon
<1>8. d \in 0 .. m
  BY <1>3, <1>7
<1>9. QED
  BY <1>3, <1>6, <1>7, <1>8, Zenon

\* A walk moved to another bucket.
LEMMA InBucket ==
  ASSUME NEW s \in State, NEW dT, NEW dom, NEW step, NEW loc, NEW t,
         dT \in Nat, dom \in Nat, step \in Nat, loc \in Int,
         t = [s EXCEPT !.dT = dT, !._dom = dom, !.step = step, !.loc = loc]
  PROVE  t \in State
BY Zenon DEF State

\* The next bucket begins where this one ends, and has the next number.
LEMMA NextBucketed ==
  ASSUME NEW s \in State, Bucketed(s), LastValue(s) < Half,
         NEW t, t = NextBucket(s)
  PROVE  /\ t \in State /\ Bucketed(t)
         /\ LastValue(t) = LastValue(s) + t.step
         /\ t._dom > 0 /\ t.dT = s.dT + 1
         /\ t.T = s.T /\ t.c = s.c /\ t.sum = s.sum /\ t.tot = s.tot
         /\ t.curve = s.curve
<1>1. PICK j \in 0 .. (INT_BITS - 1) :
             s.step = 2^j /\ s.dT = j * DOMAIN_SIZE + s._dom
  BY Zenon DEF Bucketed
<1>2. PICK w, d, m : /\ w = s.step /\ d = s._dom /\ m = DOMAIN_SIZE
                     /\ w \in Nat \ {0} /\ d \in Nat /\ d <= m
                     /\ m \in Nat \ {0} /\ w \in Nat /\ m \in Nat
  BY WidthWithinLast, DomainAssumption
<1>3. s.loc = LastValue(s)
  BY Zenon DEF Bucketed
<1>4. LastValue(s) = m * (w - 1) + d * w
  BY <1>2, Zenon DEF LastValue
<1>5. PICK last : last = LastValue(s) /\ last \in Nat /\ w <= last + 1
                  /\ (d = m => 2 * w <= last + 1) /\ last < Half
  BY <1>2, WidthWithinLast, Zenon
<1>6. last = m * (w - 1) + d * w /\ s.loc = last
  BY <1>3, <1>4, <1>5, Zenon
<1>7. CASE d + 1 > DOMAIN_SIZE
  <2>1. d = m
    BY <1>2, <1>7
  <2>2. 2 * w \in 0 .. (2^WORD_BITS - 1) /\ 2 * w <= Half
    BY <1>2, <1>5, <2>1, Widths
  <2>3. Unsigned(2 * w) = 2 * w
    BY <1>2, <2>2, UnsignedOf
  <2>4. t = [s EXCEPT !.dT = s.dT + 1, !._dom = 1, !.step = 2 * w,
                      !.loc = Signed(s.loc + 2 * w)]
    BY <1>2, <1>7, <2>3, Zenon DEF NextBucket, State
  <2>5. /\ t.step = 2 * w /\ t._dom = 1 /\ t.dT = s.dT + 1
        /\ t.T = s.T /\ t.c = s.c /\ t.sum = s.sum /\ t.tot = s.tot
        /\ t.curve = s.curve /\ t.loc = Signed(last + 2 * w)
    BY <1>6, <2>4, Zenon DEF State
  <2>6. LastValue(t) = last + 2 * w
    <3>1. LastValue(t) = m * (2 * w - 1) + 1 * (2 * w)
      BY <1>2, <2>5, Zenon DEF LastValue
    <3>2. m * (2 * w - 1) + 1 * (2 * w) = last + 2 * w
      BY <1>2, <1>6, <2>1, DoubledArithmetic
    <3>3. QED
      BY <3>1, <3>2, Zenon
  <2>7. /\ last + 2 * w \in Nat /\ last + 2 * w < 2 * Half
    BY <1>2, <1>5, <2>1, <2>2, Widths
  <2>8. /\ last + 2 * w < Half => t.loc = last + 2 * w
        /\ last + 2 * w >= Half => t.loc \in (- Half) .. (- 1)
    BY <2>5, <2>7, SignedOf, Zenon
  <2>9. j + 1 \in 0 .. (INT_BITS - 1) /\ 2 * w = 2^(j + 1)
    <3>1. j \in Exponent /\ INT_BITS - 1 \in Exponent
      BY ProcessAssumption, WordAssumption, SizeAssumption DEF Exponent
    <3>2. 2^(j + 1) = 2 * 2^j
      BY <3>1, PowersOfTwo, Zenon DEF Exponent
    <3>3. j # INT_BITS - 1
      <4>1. w # Half
        BY <1>2, <2>2, Widths
      <4>2. QED
        BY <1>1, <1>2, <4>1, Zenon DEF Half
    <3>4. j + 1 \in 0 .. (INT_BITS - 1)
      BY <3>3, ProcessAssumption
    <3>5. QED
      BY <1>1, <1>2, <3>2, <3>4, Zenon
  <2>10. t.dT = (j + 1) * DOMAIN_SIZE + 1
    <3>1. (j + 1) * m = j * m + m
      BY <1>2
    <3>2. j * m \in Nat
      BY <1>2
    <3>3. QED
      BY <1>1, <1>2, <2>1, <2>5, <3>1, <3>2, Zenon
  <2>11. t \in State
    <3>1. Signed(s.loc + 2 * w) \in Int
      BY <2>5, <2>7, <2>8, <1>6, Widths
    <3>2. s.dT \in Nat /\ s._dom \in Nat
      BY StateTypes, Zenon
    <3>3. s.dT + 1 \in Nat /\ s._dom + 1 \in Nat /\ 2 * w \in Nat /\ w \in Nat /\ 1 \in Nat
      BY <1>2, <3>2
    <3>4. PICK e, f, g, h : /\ e = s.dT + 1 /\ f = 1
                            /\ g = 2 * w /\ h = Signed(s.loc + 2 * w)
      BY Zenon
    <3>5. t = [s EXCEPT !.dT = e, !._dom = f, !.step = g, !.loc = h]
      BY <2>4, <3>4, Zenon
    <3>6. e \in Nat /\ f \in Nat /\ g \in Nat /\ h \in Int
      BY <3>1, <3>3, <3>4, Zenon
    <3>7. QED
      BY <3>5, <3>6, InBucket, Zenon
  <2>12. \E i \in 0 .. (INT_BITS - 1) : t.step = 2^i /\ t.dT = i * DOMAIN_SIZE + t._dom
    BY <2>5, <2>9, <2>10, Zenon
  <2>13. t._dom \in 1 .. DOMAIN_SIZE
    BY <1>2, <2>5
  <2>14. Bucketed(t)
    <3>1. /\ LastValue(t) < Half => t.loc = LastValue(t)
          /\ LastValue(t) >= Half => t.loc \in (- Half) .. (- 1)
      BY <2>6, <2>8, Zenon
    <3>2. QED
      BY <2>12, <2>13, <3>1, Zenon DEF Bucketed
  <2>15. QED
    BY <1>5, <2>5, <2>6, <2>11, <2>14
<1>8. CASE ~ (d + 1 > DOMAIN_SIZE)
  <2>4. t = [s EXCEPT !.dT = s.dT + 1, !._dom = s._dom + 1, !.step = w,
                      !.loc = Signed(s.loc + w)]
    BY <1>2, <1>8, Zenon DEF NextBucket, State
  <2>5. /\ t.step = w /\ t._dom = d + 1 /\ t.dT = s.dT + 1
        /\ t.T = s.T /\ t.c = s.c /\ t.sum = s.sum /\ t.tot = s.tot
        /\ t.curve = s.curve /\ t.loc = Signed(last + w)
    BY <1>2, <1>6, <2>4, Zenon DEF State
  <2>6. LastValue(t) = last + w
    <3>1. LastValue(t) = m * (w - 1) + (d + 1) * w
      BY <1>2, <2>5, Zenon DEF LastValue
    <3>2. m \in Nat /\ w \in Nat /\ d \in Nat /\ last = m * (w - 1) + d * w
      BY <1>2, <1>6, Zenon
    <3>3. m * (w - 1) + (d + 1) * w = last + w
      BY <3>2, NextArithmetic
    <3>4. QED
      BY <3>1, <3>3, Zenon
  <2>7. /\ last + w \in Nat /\ last + w < 2 * Half
    BY <1>2, <1>5, Widths
  <2>8. /\ last + w < Half => t.loc = last + w
        /\ last + w >= Half => t.loc \in (- Half) .. (- 1)
    BY <2>5, <2>7, SignedOf, Zenon
  <2>9. t.dT = j * DOMAIN_SIZE + t._dom
    <3>1. j * m \in Nat
      BY <1>2
    <3>2. QED
      BY <1>1, <1>2, <2>5, <3>1
  <2>10. t \in State
    <3>1. Signed(s.loc + w) \in Int
      BY <2>5, <2>7, <2>8, <1>6, Widths
    <3>2. s.dT \in Nat /\ s._dom \in Nat
      BY StateTypes, Zenon
    <3>3. s.dT + 1 \in Nat /\ s._dom + 1 \in Nat /\ 2 * w \in Nat /\ w \in Nat /\ 1 \in Nat
      BY <1>2, <3>2
    <3>4. PICK e, f, g, h : /\ e = s.dT + 1 /\ f = s._dom + 1
                            /\ g = w /\ h = Signed(s.loc + w)
      BY Zenon
    <3>5. t = [s EXCEPT !.dT = e, !._dom = f, !.step = g, !.loc = h]
      BY <2>4, <3>4, Zenon
    <3>6. e \in Nat /\ f \in Nat /\ g \in Nat /\ h \in Int
      BY <3>1, <3>3, <3>4, Zenon
    <3>7. QED
      BY <3>5, <3>6, InBucket, Zenon
  <2>11. \E i \in 0 .. (INT_BITS - 1) : t.step = 2^i /\ t.dT = i * DOMAIN_SIZE + t._dom
    BY <1>1, <1>2, <2>5, <2>9, Zenon
  <2>12. t._dom \in 1 .. DOMAIN_SIZE
    BY <1>2, <1>8, <2>5
  <2>13. Bucketed(t)
    <3>1. /\ LastValue(t) < Half => t.loc = LastValue(t)
          /\ LastValue(t) >= Half => t.loc \in (- Half) .. (- 1)
      BY <2>6, <2>8, Zenon
    <3>2. QED
      BY <2>11, <2>12, <3>1, Zenon DEF Bucketed
  <2>14. QED
    BY <1>2, <1>5, <2>5, <2>6, <2>10, <2>12, <2>13
<1>9. QED
  BY <1>7, <1>8, Zenon

-----------------------------------------------------------------------------
\* Quotient and remainder.
LEMMA Division ==
  ASSUME NEW a \in Nat, NEW m \in Nat \ {0}
  PROVE  /\ a \div m \in Int /\ a % m \in 0 .. (m - 1)
         /\ a = m * (a \div m) + (a % m)
<1>1. a \div m \in Int
  OBVIOUS
<1>2. a % m \in 0 .. (m - 1)
  OBVIOUS
<1>3. a = m * (a \div m) + (a % m)
  OBVIOUS
<1>4. QED
  BY <1>1, <1>2, <1>3, Zenon

\* The quotient is the largest multiple.
LEMMA QuotientBound ==
  ASSUME NEW a \in Nat, NEW j \in Nat, NEW m \in Nat \ {0}, j * m <= a
  PROVE  a \div m \in Nat /\ a \div m <= a /\ j <= a \div m
<1>0. PICK q, r : q = a \div m /\ r = a % m
  BY Zenon
<1>1. q = a \div m /\ q \in Int /\ r \in 0 .. (m - 1) /\ a = m * q + r
  BY <1>0, Division, Zenon
<1>2. ASSUME q < 0 PROVE FALSE
  <2>1. m * q <= - m
    BY <1>1, <1>2
  <2>2. QED
    BY <1>1, <2>1
<1>3. ASSUME q < j PROVE FALSE
  <2>1. m * (q + 1) <= m * j
    BY <1>1, <1>3
  <2>2. m * (q + 1) = m * q + m /\ m * j = j * m
    BY <1>1
  <2>3. QED
    BY <1>1, <2>1, <2>2
<1>4. q <= m * q
  BY <1>1, <1>2
<1>5. QED
  BY <1>1, <1>2, <1>3, <1>4

\* The quotient of a multiple.
LEMMA QuotientOfMultiple ==
  ASSUME NEW w \in Nat \ {0}, NEW q \in Nat
  PROVE  (q * w) \div w = q
<1>0. PICK a, b, r : a = q * w /\ b = a \div w /\ r = a % w
  BY Zenon
<1>1. /\ a = q * w /\ b = (q * w) \div w /\ a \in Nat /\ b \in Int
      /\ r \in 0 .. (w - 1) /\ a = w * b + r
  <2>1. a \in Nat
    BY <1>0
  <2>2. QED
    BY <1>0, <2>1, Division, Zenon
<1>2. w * (q - b) = r
  BY <1>1
<1>3. ASSUME q - b >= 1 PROVE FALSE
  <2>1. w * (q - b) >= w
    BY <1>1, <1>3
  <2>2. QED
    BY <1>1, <1>2, <2>1
<1>4. ASSUME q - b <= - 1 PROVE FALSE
  <2>1. w * (q - b) <= - w
    BY <1>1, <1>4
  <2>2. QED
    BY <1>1, <1>2, <2>1
<1>5. QED
  BY <1>1, <1>3, <1>4

\* Inside the histogram a bucket's width divides Scale.
LEMMA WidthDividesScale ==
  ASSUME NEW s \in State, Bucketed(s), ~ Left(s)
  PROVE  /\ Scale \in Nat \ {0} /\ Scale \div s.step \in Nat
         /\ s.step * (Scale \div s.step) = Scale
<1>1. PICK j \in 0 .. (INT_BITS - 1) :
             s.step = 2^j /\ s.dT = j * DOMAIN_SIZE + s._dom
  BY Zenon DEF Bucketed
<1>2. PICK a, m, J : /\ a = MAX_PAGE_NUM - 1 /\ m = DOMAIN_SIZE /\ J = a \div m
                     /\ a \in Nat /\ m \in Nat \ {0} /\ j \in Nat
  BY SizeAssumption, DomainAssumption, ProcessAssumption
<1>3. s.dT \in Nat /\ s._dom \in Nat
  BY StateTypes, Zenon
<1>4. j * m <= a
  <2>1. j * m \in Nat
    BY <1>2
  <2>2. s.dT = j * m + s._dom
    BY <1>1, <1>2, Zenon
  <2>3. s.dT < MAX_PAGE_NUM
    BY <1>3, SizeAssumption DEF Left
  <2>4. QED
    BY <1>2, <1>3, <2>1, <2>2, <2>3, SizeAssumption
<1>5. J \in Nat /\ J <= a /\ j <= J
  BY <1>2, <1>4, QuotientBound, Zenon
<1>6. J \in Exponent /\ j \in Exponent
  BY <1>2, <1>5, SizeAssumption, WordAssumption DEF Exponent
<1>7. PICK q \in Nat \ {0} : 2^J = q * 2^j
  BY <1>5, <1>6, PowerDivides, Zenon
<1>8. Scale = 2^J
  BY <1>2, Zenon DEF Scale
<1>9. PICK w : w = s.step /\ w \in Nat \ {0} /\ w = 2^j
  BY <1>1, WidthWithinLast, Zenon
<1>10. Scale = q * w
  BY <1>7, <1>8, <1>9, Zenon
<1>11. (q * w) \div w = q
  BY <1>9, QuotientOfMultiple, Zenon
<1>12. Scale \div s.step = q
  BY <1>9, <1>10, <1>11, Zenon
<1>13. w * q = q * w /\ q * w \in Nat \ {0}
  BY <1>9
<1>14. QED
  BY <1>9, <1>10, <1>12, <1>13, Zenon

\* The samples of the buckets before dT, and what a distance in dT adds to sum.
Passed(s) == SumFunctionOnSet(aet_hist[1], 1 .. (s.dT - 1))
Share(s) == aet_hist[1][s.dT] * (Scale \div s.step)

\* The distances of bucket dT that are in sum.
Rank(s) == s.T - (LastValue(s) - s.step)

\* The buckets are those of the histogram of domain 1.
LEMMA Buckets ==
  ASSUME TypeOK
  PROVE  /\ IsFiniteSet(Index) /\ aet_hist[1] \in [Index -> Nat]
         /\ SumFunction(aet_hist[1]) \in Nat
<1>1. IsFiniteSet(Index)
  BY FS_Interval, SizeAssumption DEF Index
<1>2. 1 \in Dom
  BY DEF Dom, MAX_DOM_NR
<1>3. aet_hist[1] \in [Index -> Nat]
  BY <1>2, Zenon DEF TypeOK
<1>4. Index \in SUBSET Index /\ DOMAIN aet_hist[1] = Index
  BY <1>3, Zenon
<1>5. SumFunctionOnSet(aet_hist[1], Index) \in Nat
  BY <1>1, <1>3, <1>4, SumOnSet, Zenon
<1>6. QED
  BY <1>1, <1>3, <1>4, <1>5, Zenon DEF SumFunction

\* One more bucket passed.
LEMMA PassedGrows ==
  ASSUME TypeOK, NEW k \in Nat, k > 0, k < MAX_PAGE_NUM
  PROVE  /\ SumFunctionOnSet(aet_hist[1], 1 .. (k - 1)) \in Nat
         /\ aet_hist[1][k] \in Nat
         /\ SumFunctionOnSet(aet_hist[1], 1 .. k) =
              SumFunctionOnSet(aet_hist[1], 1 .. (k - 1)) + aet_hist[1][k]
         /\ SumFunctionOnSet(aet_hist[1], 1 .. k) <= SumFunction(aet_hist[1])
         /\ SumFunction(aet_hist[1]) \in Nat
<1>1. PICK f, J : f = aet_hist[1] /\ J = 1 .. (k - 1)
  BY Zenon
<1>2. IsFiniteSet(Index) /\ f \in [Index -> Nat]
  BY <1>1, Buckets, Zenon
<1>3. /\ J \in SUBSET Index /\ k \in Index \ J /\ J \cup {k} = 1 .. k
      /\ (1 .. k) \in SUBSET Index
  BY <1>1, SizeAssumption DEF Index
<1>4. SumFunctionOnSet(f, J) \in Nat
  BY <1>2, <1>3, SumOnSet, Zenon
<1>5. SumFunctionOnSet(f, J \cup {k}) = SumFunctionOnSet(f, J) + f[k]
  <2>1. J \in SUBSET Index
    BY <1>3, Zenon
  <2>2. \A x \in Index \ J :
          SumFunctionOnSet(f, J \cup {x}) = SumFunctionOnSet(f, J) + f[x]
    BY <1>2, <2>1, SumOnSet
  <2>3. QED
    BY <1>3, <2>2, Zenon
<1>6. SumFunctionOnSet(f, 1 .. k) <= SumFunction(f)
  BY <1>2, <1>3, SumMonotone, Zenon
<1>7. f[k] \in Nat
  BY <1>2, <1>3, Zenon
<1>8. SumFunction(f) \in Nat
  BY <1>1, Buckets, Zenon
<1>9. QED
  BY <1>1, <1>3, <1>4, <1>5, <1>6, <1>7, <1>8, Zenon

\* k distances of a bucket of width w bring k of w parts of its samples h.
LEMMA ShareArithmetic ==
  ASSUME NEW p \in Nat, NEW h \in Nat, NEW q \in Nat, NEW w \in Nat,
         NEW k \in Nat, k <= w, NEW scale, w * q = scale
  PROVE  /\ scale * p + k * (h * q) <= scale * (p + h)
         /\ k = w => scale * p + k * (h * q) = scale * (p + h)
<1>1. PICK x : x = h * q /\ x \in Nat
  OBVIOUS
<1>2. w * x = scale * h
  BY <1>1
<1>3. k * x <= w * x
  BY <1>1
<1>4. scale \in Nat
  OBVIOUS
<1>5. scale * (p + h) = scale * p + scale * h
  BY <1>4
<1>6. scale * p \in Nat /\ scale * h \in Nat /\ k * x \in Nat /\ w * x \in Nat
  BY <1>1, <1>4
<1>7. QED
  BY <1>1, <1>2, <1>3, <1>5, <1>6

-----------------------------------------------------------------------------
\* The walk is at its place: T lies in bucket dT, and sum holds the samples of
\* the buckets before and the parts of this bucket up to T.
Placed(s) ==
  /\ s \in State /\ Bucketed(s)
  /\ Rank(s) \in 1 .. s.step
  /\ s._dom = 0 => s.T = 0 /\ s.dT = 0 /\ s.sum = 0
Summed(s) ==
  /\ s._dom # 0 /\ ~ Left(s) => s.sum = Scale * Passed(s) + Rank(s) * Share(s)
  /\ s.sum <= Scale * SumFunction(aet_hist[1])

\* Where T is the last value of its bucket, sum holds the whole bucket, and never
\* more than that.
LEMMA BucketSummed ==
  ASSUME TypeOK, NEW s, Placed(s), s._dom # 0, ~ Left(s),
         s.sum = Scale * Passed(s) + Rank(s) * Share(s)
  PROVE  /\ s.sum <= Scale * SumFunctionOnSet(aet_hist[1], 1 .. s.dT)
         /\ Rank(s) = s.step =>
              s.sum = Scale * SumFunctionOnSet(aet_hist[1], 1 .. s.dT)
         /\ s.sum <= Scale * SumFunction(aet_hist[1])
<1>1. s \in State /\ Bucketed(s) /\ Rank(s) \in 1 .. s.step
  BY Zenon DEF Placed
<1>2. /\ Scale \in Nat \ {0} /\ Scale \div s.step \in Nat
      /\ s.step * (Scale \div s.step) = Scale
  BY <1>1, WidthDividesScale, Zenon
<1>3. s.dT \in Nat /\ s.step \in Nat
  BY <1>1, StateTypes, Zenon
<1>4. s.dT > 0 /\ s.dT < MAX_PAGE_NUM
  <2>1. PICK j \in 0 .. (INT_BITS - 1) : s.dT = j * DOMAIN_SIZE + s._dom
    BY <1>1, Zenon DEF Bucketed
  <2>2. s._dom \in Nat /\ j \in Nat
    BY <1>1, StateTypes, ProcessAssumption
  <2>3. j * DOMAIN_SIZE \in Nat
    BY <2>2, DomainAssumption
  <2>4. QED
    BY <1>3, <2>1, <2>2, <2>3, SizeAssumption DEF Left
<1>5. PICK p, h, q, w, k, a, sum :
             /\ p = Passed(s) /\ h = aet_hist[1][s.dT] /\ q = Scale \div s.step
             /\ w = s.step /\ k = Rank(s) /\ sum = SumFunction(aet_hist[1])
             /\ a = SumFunctionOnSet(aet_hist[1], 1 .. s.dT)
  BY Zenon
<1>6. p \in Nat /\ h \in Nat /\ a = p + h /\ a <= sum /\ sum \in Nat
  BY <1>3, <1>4, <1>5, PassedGrows, Zenon DEF Passed
<1>7. q \in Nat /\ w \in Nat /\ w * q = Scale /\ k \in 1 .. w
  BY <1>1, <1>2, <1>3, <1>5, Zenon
<1>8. s.sum = Scale * p + k * (h * q)
  BY <1>5, Zenon DEF Share
<1>9. k \in Nat /\ k <= w
  BY <1>7
<1>10. /\ Scale * p + k * (h * q) <= Scale * (p + h)
       /\ k = w => Scale * p + k * (h * q) = Scale * (p + h)
  BY <1>2, <1>6, <1>7, <1>9, ShareArithmetic
<1>11. s.sum <= Scale * a /\ (k = w => s.sum = Scale * a)
  BY <1>6, <1>8, <1>10, Zenon
<1>12. Scale * a <= Scale * sum
  BY <1>2, <1>6
<1>13. s.sum <= Scale * sum
  <2>1. PICK x, y, z : x = s.sum /\ y = Scale * a /\ z = Scale * sum
    BY Zenon
  <2>2. x <= y /\ y <= z
    BY <1>11, <1>12, <2>1, Zenon
  <2>3. x \in Int /\ y \in Int /\ z \in Int
    <3>1. s.sum \in Nat
      BY <1>1, StateTypes, Zenon
    <3>2. QED
      BY <1>2, <1>6, <2>1, <3>1
  <2>4. QED
    BY <2>1, <2>2, <2>3
<1>14. QED
  BY <1>5, <1>11, <1>13, Zenon

\* AddShare changes sum, by the share of the bucket, and nothing else.
LEMMA AddShareEffect ==
  ASSUME TypeOK, NEW s \in State, Bucketed(s), NEW t, t = AddShare(s)
  PROVE  /\ t \in State
         /\ t.c = s.c /\ t.T = s.T /\ t.dT = s.dT /\ t._dom = s._dom
         /\ t.loc = s.loc /\ t.step = s.step /\ t.curve = s.curve
         /\ Left(s) => t.sum = s.sum
         /\ ~ Left(s) => t.sum = s.sum + Share(s) /\ Share(s) \in Nat
<1>1. CASE Left(s)
  BY <1>1, Zenon DEF AddShare
<1>2. CASE ~ Left(s)
  <2>1. t = [s EXCEPT !.sum = s.sum + Share(s)]
    BY <1>2, Zenon DEF AddShare, State, Share
  <2>2. Share(s) \in Nat
    <3>1. Scale \div s.step \in Nat
      BY <1>2, WidthDividesScale, Zenon
    <3>2. s.dT \in Nat
      BY StateTypes, Zenon
    <3>3. s.dT \in Index
      BY <1>2, <3>2, SizeAssumption DEF Left, Index
    <3>4. aet_hist[1][s.dT] \in Nat
      BY <3>3, Buckets, Zenon
    <3>5. QED
      BY <3>1, <3>4 DEF Share
  <2>3. s.sum \in Nat
    BY StateTypes, Zenon
  <2>4. PICK x : x = s.sum + Share(s) /\ x \in Nat
    BY <2>2, <2>3
  <2>5. t = [s EXCEPT !.sum = x]
    BY <2>1, <2>4, Zenon
  <2>6. /\ t \in State /\ t.sum = x
        /\ t.c = s.c /\ t.T = s.T /\ t.dT = s.dT /\ t._dom = s._dom
        /\ t.loc = s.loc /\ t.step = s.step /\ t.curve = s.curve
    BY <2>4, <2>5, Zenon DEF State
  <2>7. QED
    BY <1>2, <2>2, <2>4, <2>6, Zenon
<1>3. QED
  BY <1>1, <1>2, Zenon

\* A walk that differs only in T, tot, sum, c or the curve is in the same bucket.
LEMMA SameBucket ==
  ASSUME NEW s, Bucketed(s), NEW t, t.dT = s.dT, t._dom = s._dom, t.loc = s.loc,
         t.step = s.step
  PROVE  Bucketed(t) /\ LastValue(t) = LastValue(s)
<1>1. LastValue(t) = LastValue(s)
  BY Zenon DEF LastValue
<1>2. QED
  BY <1>1, Zenon DEF Bucketed

\* N, and the part of it not yet in sum, are whole numbers here.
LEMMA BeyondType ==
  ASSUME TypeOK, NEW n \in Nat
  PROVE  /\ tot_ref[1] \in Nat /\ CountedRefs(n) \in Nat /\ ColdRefs \in Nat
         /\ Scale \in Nat \ {0} /\ AllRefs(n) \in Nat
         /\ \A s \in State : Beyond(n, s) \in Int
<1>1. tot_ref[1] \in Nat /\ node_count[1] \in Nat
  BY DEF TypeOK, Dom, MAX_DOM_NR
<1>2. ASSUME NEW x \in Int PROVE Unsigned(x) \in Nat
  BY WordAssumption DEF Unsigned
<1>3. ColdRefs \in Nat
  <2>1. STEP \in Nat
    BY ProcessAssumption, Zenon
  <2>2. node_count[1] * STEP \in Int
    BY <1>1, <2>1
  <2>3. QED
    BY <1>2, <2>2, Zenon DEF ColdRefs
<1>4. CountedRefs(n) \in Nat
  <2>1. n - ColdRefs \in Int
    BY <1>3
  <2>2. QED
    BY <1>2, <2>1, Zenon DEF CountedRefs
<1>5. Scale \in Nat \ {0}
  <2>1. PICK a, m : a = MAX_PAGE_NUM - 1 /\ m = DOMAIN_SIZE /\ a \in Nat /\ m \in Nat \ {0}
    BY SizeAssumption, DomainAssumption
  <2>2. 0 * m <= a /\ 0 \in Nat
    BY <2>1
  <2>3. a \div m \in Nat /\ a \div m <= a
    BY <2>1, <2>2, QuotientBound, Zenon
  <2>4. a \div m \in Exponent
    BY <2>1, <2>3, SizeAssumption, WordAssumption DEF Exponent
  <2>5. QED
    BY <2>1, <2>4, PowersOfTwo, Zenon DEF Scale, Exponent
<1>6. PICK a, b, c, d : /\ a = tot_ref[1] /\ b = CountedRefs(n) /\ c = ColdRefs
                        /\ d = Scale /\ a \in Nat /\ b \in Nat /\ c \in Nat /\ d \in Nat
  BY <1>1, <1>3, <1>4, <1>5, Zenon
<1>7. AllRefs(n) = (a * b + a * c) * d
  BY <1>6, Zenon DEF AllRefs
<1>8. AllRefs(n) \in Nat
  <2>1. a * b \in Nat /\ a * c \in Nat
    BY <1>6
  <2>2. QED
    BY <1>6, <1>7, <2>1
<1>9. ASSUME NEW s \in State PROVE Beyond(n, s) \in Int
  <2>1. s.sum \in Nat
    BY StateTypes, Zenon
  <2>2. s.sum * CountedRefs(n) \in Nat
    BY <1>4, <2>1
  <2>3. QED
    BY <1>8, <2>2 DEF Beyond
<1>10. QED
  BY <1>1, <1>3, <1>4, <1>5, <1>8, <1>9, Zenon

\* The test T > loc, with loc converted to unsigned long, is true exactly when T
\* has gone beyond the bucket, as long as T is an int.
LEMMA BucketTest ==
  ASSUME NEW s \in State, Bucketed(s), NEW T \in Nat, T <= Half
  PROVE  /\ T > Unsigned(s.loc) => LastValue(s) < Half /\ T > LastValue(s)
         /\ ~ (T > Unsigned(s.loc)) => T <= LastValue(s)
<1>1. PICK last, h : last = LastValue(s) /\ h = Half /\ last \in Nat /\ h \in Nat
  BY WidthWithinLast, Widths, Zenon
<1>2. CASE last < h
  <2>1. s.loc = last
    BY <1>1, <1>2, Zenon DEF Bucketed
  <2>2. last \in 0 .. (2^WORD_BITS - 1) /\ last \in Int
    BY <1>1, <1>2, Widths, DomainAssumption
  <2>3. Unsigned(s.loc) = last
    BY <2>1, <2>2, UnsignedOf, Zenon
  <2>4. QED
    BY <1>1, <1>2, <2>3
<1>3. CASE ~ (last < h)
  <2>1. last >= h
    BY <1>1, <1>3
  <2>2. s.loc \in (- Half) .. (- 1)
    BY <1>1, <2>1, Zenon DEF Bucketed
  <2>3. s.loc \in Int
    BY StateTypes, Zenon
  <2>4. Unsigned(s.loc) >= h
    BY <1>1, <2>2, <2>3, UnsignedOf, Zenon
  <2>5. Unsigned(s.loc) \in Int
    BY <2>3, WordAssumption DEF Unsigned
  <2>6. QED
    BY <1>1, <2>1, <2>4, <2>5
<1>4. QED
  BY <1>2, <1>3, Zenon

\* T leaves its bucket: the next one begins, with the sum of all before.
LEMMA NextBucketKeeps ==
  ASSUME TypeOK, NEW s, Placed(s), Summed(s), ~ Left(s),
         NEW t \in State, Bucketed(t), LastValue(t) = LastValue(s),
         LastValue(s) < Half, t.T = s.T + 1, t.T > LastValue(s),
         t.dT = s.dT, t.sum = s.sum,
         NEW u, u = AddShare(NextBucket(t))
  PROVE  /\ Placed(u) /\ Summed(u) /\ u.T = t.T /\ u.c = t.c
         /\ u.curve = t.curve /\ u.sum >= s.sum
<1>1. PICK v : v = NextBucket(t)
  BY Zenon
<1>2. /\ v \in State /\ Bucketed(v) /\ LastValue(v) = LastValue(s) + v.step
      /\ v._dom > 0 /\ v.dT = s.dT + 1 /\ v.T = s.T + 1 /\ v.c = t.c
      /\ v.sum = s.sum /\ v.curve = t.curve
  BY <1>1, NextBucketed, ZenonT(40)
<1>3. /\ u \in State
      /\ u.c = v.c /\ u.T = v.T /\ u.dT = v.dT /\ u._dom = v._dom
      /\ u.loc = v.loc /\ u.step = v.step /\ u.curve = v.curve
      /\ Left(v) => u.sum = v.sum
      /\ ~ Left(v) => u.sum = v.sum + Share(v) /\ Share(v) \in Nat
  BY <1>1, <1>2, AddShareEffect, ZenonT(40)
<1>4. Bucketed(u) /\ LastValue(u) = LastValue(v)
  BY <1>2, <1>3, SameBucket, Zenon
<1>5. s \in State /\ Bucketed(s) /\ Rank(s) \in 1 .. s.step
  BY Zenon DEF Placed
<1>6. PICK T, last, w, x : T = s.T /\ last = LastValue(s) /\ w = s.step /\ x = v.step
  BY Zenon
<1>7. T \in Nat /\ last \in Nat /\ w \in Nat \ {0} /\ x \in Nat \ {0}
  BY <1>2, <1>5, <1>6, StateTypes, WidthWithinLast, Zenon
<1>8. T = last /\ Rank(s) = s.step
  <2>1. Rank(s) = T - (last - w) /\ Rank(s) \in 1 .. w
    BY <1>5, <1>6, Zenon DEF Rank
  <2>2. T + 1 > last
    BY <1>6, Zenon
  <2>3. T = last
    BY <1>7, <2>1, <2>2
  <2>4. QED
    BY <1>6, <1>7, <2>1, <2>3
<1>9. Rank(u) = 1
  <2>1. Rank(u) = (T + 1) - ((last + x) - x)
    BY <1>2, <1>3, <1>4, <1>6, Zenon DEF Rank
  <2>2. QED
    BY <1>7, <1>8, <2>1
<1>10. Placed(u)
  <2>1. u._dom # 0
    BY <1>2, <1>3
  <2>2. Rank(u) \in 1 .. u.step
    BY <1>3, <1>6, <1>7, <1>9
  <2>3. QED
    BY <1>3, <1>4, <2>1, <2>2, Zenon DEF Placed
<1>11. s.sum = Scale * SumFunctionOnSet(aet_hist[1], 1 .. s.dT)
  <2>1. CASE s._dom # 0
    <3>1. s.sum = Scale * Passed(s) + Rank(s) * Share(s)
      BY <2>1, Zenon DEF Summed
    <3>2. QED
      BY <1>8, <2>1, <3>1, BucketSummed, Zenon
  <2>2. CASE s._dom = 0
    <3>1. s.dT = 0 /\ s.sum = 0
      BY <2>2, Zenon DEF Placed
    <3>2. PICK J : J = 1 .. s.dT
      BY Zenon
    <3>3. J = {} /\ J \in SUBSET Index
      BY <3>1, <3>2
    <3>4. SumFunctionOnSet(aet_hist[1], J) = 0
      BY <3>3, Buckets, SumOnSet, Zenon
    <3>5. Scale * 0 = 0
      <4>1. Scale \in Nat
        BY <1>5, WidthDividesScale, Zenon
      <4>2. QED
        BY <4>1
    <3>6. QED
      BY <3>1, <3>2, <3>4, <3>5, Zenon
  <2>3. QED
    BY <2>1, <2>2, Zenon
<1>12. Passed(u) = SumFunctionOnSet(aet_hist[1], 1 .. s.dT)
  <2>1. u.dT - 1 = s.dT
    <3>1. s.dT \in Nat
      BY <1>5, StateTypes, Zenon
    <3>2. QED
      BY <1>2, <1>3, <3>1
  <2>2. QED
    BY <2>1, Zenon DEF Passed
<1>13. Left(u) <=> Left(v)
  BY <1>3, Zenon DEF Left
<1>14. CASE Left(v)
  <2>1. u.sum = s.sum
    BY <1>2, <1>3, <1>14, Zenon
  <2>2. Summed(u)
    BY <1>13, <1>14, <2>1, Zenon DEF Summed
  <2>3. u.sum \in Nat
    BY <1>3, StateTypes, Zenon
  <2>4. u.sum >= s.sum
    BY <2>1, <2>3
  <2>5. QED
    BY <1>2, <1>3, <1>10, <2>2, <2>4, Zenon
<1>15. CASE ~ Left(v)
  <2>1. Share(u) = Share(v)
    BY <1>3, Zenon DEF Share
  <2>2. u.sum = s.sum + Share(u) /\ Share(u) \in Nat
    BY <1>2, <1>3, <1>15, <2>1, Zenon
  <2>3. u.sum = Scale * Passed(u) + Rank(u) * Share(u)
    <3>1. 1 * Share(u) = Share(u)
      BY <2>2
    <3>2. QED
      BY <1>9, <1>11, <1>12, <2>2, <3>1, Zenon
  <2>4. u._dom # 0 /\ ~ Left(u)
    BY <1>2, <1>3, <1>13, <1>15
  <2>5. u.sum <= Scale * SumFunction(aet_hist[1])
    BY <1>10, <2>3, <2>4, BucketSummed, Zenon
  <2>6. Summed(u)
    BY <2>3, <2>5, Zenon DEF Summed
  <2>7. s.sum \in Nat
    BY <1>5, StateTypes, Zenon
  <2>8. u.sum >= s.sum
    BY <2>2, <2>7
  <2>9. QED
    BY <1>2, <1>3, <1>10, <2>6, <2>8, Zenon
<1>16. QED
  BY <1>14, <1>15, Zenon

\* T stays in its bucket: one more distance of it is in sum.
LEMMA SameBucketKeeps ==
  ASSUME TypeOK, NEW s, Placed(s), Summed(s), ~ Left(s),
         NEW t \in State, Bucketed(t), LastValue(t) = LastValue(s),
         t.T = s.T + 1, t.T <= LastValue(s), t.dT = s.dT, t.step = s.step,
         t._dom = s._dom, t.sum = s.sum, NEW u, u = AddShare(t)
  PROVE  /\ Placed(u) /\ Summed(u) /\ u.T = t.T /\ u.c = t.c
         /\ u.curve = t.curve /\ u.sum >= s.sum
<1>1. /\ u \in State
      /\ u.c = t.c /\ u.T = t.T /\ u.dT = t.dT /\ u._dom = t._dom
      /\ u.loc = t.loc /\ u.step = t.step /\ u.curve = t.curve
      /\ ~ Left(t) => u.sum = t.sum + Share(t) /\ Share(t) \in Nat
  BY AddShareEffect, Zenon
<1>2. Bucketed(u) /\ LastValue(u) = LastValue(t)
  BY <1>1, SameBucket, Zenon
<1>3. s \in State /\ Bucketed(s) /\ Rank(s) \in 1 .. s.step
  BY Zenon DEF Placed
<1>4. PICK T, last, w, r : T = s.T /\ last = LastValue(s) /\ w = s.step /\ r = Rank(s)
  BY Zenon
<1>5. T \in Nat /\ last \in Nat /\ w \in Nat \ {0} /\ r \in 1 .. w
  BY <1>3, <1>4, StateTypes, WidthWithinLast, Zenon
<1>6. T + 1 <= last
  BY <1>4, Zenon
<1>7. Rank(u) = r + 1 /\ Rank(u) \in 1 .. w
  <2>1. Rank(u) = (T + 1) - (last - w)
    BY <1>1, <1>2, <1>4, Zenon DEF Rank
  <2>2. r = T - (last - w)
    BY <1>4, Zenon DEF Rank
  <2>3. QED
    BY <1>5, <1>6, <2>1, <2>2
<1>8. s._dom # 0
  <2>1. ASSUME s._dom = 0 PROVE FALSE
    <3>1. s.step = 1
      BY <1>3, <2>1 DEF Bucketed
    <3>2. LastValue(s) = DOMAIN_SIZE * (1 - 1) + 0 * 1
      BY <2>1, <3>1, Zenon DEF LastValue
    <3>3. last = 0
      BY <1>4, <3>2, DomainAssumption
    <3>4. QED
      BY <1>5, <1>6, <3>3
  <2>2. QED
    BY <2>1, Zenon
<1>9. Placed(u)
  <2>1. u.step = w /\ u._dom # 0
    BY <1>1, <1>4, <1>8, Zenon
  <2>2. QED
    BY <1>1, <1>2, <1>7, <2>1, Zenon DEF Placed
<1>10. ~ Left(t) /\ ~ Left(u)
  BY <1>1, Zenon DEF Left
<1>11. Passed(u) = Passed(s) /\ Share(u) = Share(s) /\ Share(t) = Share(s)
  BY <1>1, Zenon DEF Passed, Share
<1>12. u.sum = s.sum + Share(s) /\ Share(s) \in Nat
  BY <1>1, <1>10, <1>11, Zenon
<1>13. s.sum = Scale * Passed(s) + r * Share(s)
  BY <1>4, <1>8, Zenon DEF Summed
<1>14. u.sum = Scale * Passed(u) + Rank(u) * Share(u)
  <2>1. PICK p, x : p = Scale * Passed(s) /\ x = Share(s)
    BY Zenon
  <2>2. u.sum = (p + r * x) + x /\ x \in Nat
    BY <1>12, <1>13, <2>1, Zenon
  <2>3. p \in Int
    <3>1. s.sum \in Nat
      BY <1>3, StateTypes, Zenon
    <3>2. Scale \in Nat
      BY <1>3, WidthDividesScale, Zenon
    <3>3. Passed(s) \in Nat
      <4>1. PICK J : J = 1 .. (s.dT - 1)
        BY Zenon
      <4>2. J \in SUBSET Index
        <5>1. s.dT \in Nat /\ s.dT < MAX_PAGE_NUM
          BY <1>3, StateTypes, SizeAssumption DEF Left
        <5>2. QED
          BY <4>1, <5>1, SizeAssumption DEF Index
      <4>3. SumFunctionOnSet(aet_hist[1], J) \in Nat
        BY <4>2, Buckets, SumOnSet, Zenon
      <4>4. QED
        BY <4>1, <4>3, Zenon DEF Passed
    <3>4. QED
      BY <2>1, <3>2, <3>3
  <2>4. (p + r * x) + x = p + (r + 1) * x
    <3>1. r * x \in Int /\ (r + 1) * x = r * x + x
      BY <1>5, <2>2
    <3>2. QED
      BY <2>2, <2>3, <3>1
  <2>5. QED
    BY <1>7, <1>11, <2>1, <2>2, <2>4, Zenon
<1>15. u._dom # 0
  BY <1>1, <1>8, Zenon
<1>16. u.sum <= Scale * SumFunction(aet_hist[1])
  BY <1>9, <1>10, <1>14, <1>15, BucketSummed, Zenon
<1>17. Summed(u)
  BY <1>14, <1>16, Zenon DEF Summed
<1>18. s.sum \in Nat
  BY <1>3, StateTypes, Zenon
<1>19. u.sum >= s.sum
  BY <1>12, <1>18
<1>20. QED
  BY <1>1, <1>9, <1>17, <1>19, Zenon

\* The points so far fall, and none is below the ratio of this moment.
Falling(n, s) ==
  /\ \A i \in 1 .. Len(s.curve) : Beyond(n, s) <= s.curve[i]
  /\ \A i \in 1 .. (Len(s.curve) - 1) : s.curve[i + 1] <= s.curve[i]

\* The loop invariant of aet_process.
WalkInv(n, s) == Placed(s) /\ Summed(s) /\ s.T <= n + 1 /\ Falling(n, s)

\* The loop begins with it.
LEMMA WalkStarts ==
  ASSUME TypeOK, NEW n \in Nat
  PROVE  WalkInv(n, Start)
<1>1. PICK s : s = Start
  BY Zenon
<1>2. /\ s.c = 1 /\ s.T = 0 /\ s.dT = 0 /\ s._dom = 0 /\ s.loc = 0 /\ s.step = 1
      /\ s.sum = 0 /\ s.tot = 0 /\ s.curve = <<>>
  BY <1>1, Zenon DEF Start
<1>3. s \in State
  BY <1>1 DEF Start, State
<1>4. LastValue(s) = 0
  <2>1. LastValue(s) = DOMAIN_SIZE * (1 - 1) + 0 * 1
    BY <1>2, Zenon DEF LastValue
  <2>2. QED
    BY <2>1, DomainAssumption
<1>5. Bucketed(s)
  <2>1. 0 \in 0 .. (INT_BITS - 1) /\ s.step = 2^0 /\ s.dT = 0 * DOMAIN_SIZE + s._dom
    <3>1. 0 \in 0 .. (INT_BITS - 1) /\ 0 = 0 * DOMAIN_SIZE + 0
      BY ProcessAssumption, DomainAssumption
    <3>2. QED
      BY <1>2, <3>1, PowersOfTwo, Zenon
  <2>2. 0 < Half /\ ~ (0 >= Half)
    BY Widths
  <2>3. QED
    BY <1>2, <1>4, <2>1, <2>2, Zenon DEF Bucketed
<1>6. Placed(s)
  <2>1. Rank(s) = 0 - (0 - 1)
    BY <1>2, <1>4, Zenon DEF Rank
  <2>2. Rank(s) \in 1 .. s.step
    BY <1>2, <2>1
  <2>3. QED
    BY <1>2, <1>3, <1>5, <2>2, Zenon DEF Placed
<1>7. Summed(s)
  <2>1. PICK sum : sum = SumFunction(aet_hist[1])
    BY Zenon
  <2>2. sum \in Nat
    BY <2>1, Buckets, Zenon
  <2>3. Scale \in Nat
    BY BeyondType, Zenon
  <2>4. s.sum <= Scale * sum
    BY <1>2, <2>2, <2>3
  <2>5. QED
    BY <1>2, <2>1, <2>4, Zenon DEF Summed
<1>8. s.T <= n + 1
  BY <1>2
<1>9. Falling(n, s)
  BY <1>2 DEF Falling
<1>10. QED
  BY <1>1, <1>6, <1>7, <1>8, <1>9, Zenon DEF WalkInv

\* The samples in sum never exceed the references, so what is beyond them is not
\* negative.
LEMMA BeyondBounds ==
  ASSUME TypeOK, HistogramWithinReferences, NEW n \in Nat, NEW s \in State,
         s.sum <= Scale * SumFunction(aet_hist[1])
  PROVE  Beyond(n, s) \in Nat
<1>1. PICK a, b, c, d, x, h : /\ a = tot_ref[1] /\ b = CountedRefs(n)
                              /\ c = ColdRefs /\ d = Scale /\ x = s.sum
                              /\ h = SumFunction(aet_hist[1])
  BY Zenon
<1>2. a \in Nat /\ b \in Nat /\ c \in Nat /\ d \in Nat \ {0} /\ x \in Nat
  BY <1>1, BeyondType, StateTypes, Zenon
<1>3. h \in Nat /\ h <= a
  <2>1. 1 \in Dom
    BY DEF Dom, MAX_DOM_NR
  <2>2. h <= a
    BY <1>1, <2>1, Zenon DEF HistogramWithinReferences
  <2>3. QED
    BY <1>1, <2>2, Buckets, Zenon
<1>4. x <= d * h
  BY <1>1, Zenon
<1>5. d * h <= d * a /\ d * h \in Nat /\ d * a \in Nat
  BY <1>2, <1>3
<1>6. x <= d * a
  BY <1>2, <1>4, <1>5
<1>7. x * b <= (d * a) * b
  BY <1>2, <1>5, <1>6
<1>8. (a * b + a * c) * d = (d * a) * b + (a * c) * d /\ (a * c) * d \in Nat
  BY <1>2
<1>9. Beyond(n, s) = (a * b + a * c) * d - x * b
  BY <1>1, Zenon DEF Beyond, AllRefs
<1>10. x * b \in Nat /\ (d * a) * b \in Nat
  BY <1>2, <1>5
<1>11. QED
  BY <1>7, <1>8, <1>9, <1>10

\* What is beyond sum falls as sum grows.
LEMMA BeyondFalls ==
  ASSUME TypeOK, NEW n \in Nat, NEW s \in State, NEW t \in State, t.sum >= s.sum
  PROVE  Beyond(n, t) <= Beyond(n, s)
<1>1. PICK a, b, x, y : a = AllRefs(n) /\ b = CountedRefs(n) /\ x = s.sum /\ y = t.sum
  BY Zenon
<1>2. a \in Nat /\ b \in Nat /\ x \in Nat /\ y \in Nat /\ y >= x
  BY <1>1, BeyondType, StateTypes, Zenon
<1>3. x * b <= y * b /\ x * b \in Nat /\ y * b \in Nat
  BY <1>2
<1>4. Beyond(n, s) = a - x * b /\ Beyond(n, t) = a - y * b
  BY <1>1, Zenon DEF Beyond
<1>5. QED
  BY <1>2, <1>3, <1>4

\* A round of the inner loop keeps the walk at its place; it makes no point.
LEMMA RoundKeeps ==
  ASSUME TypeOK, NEW n \in Nat, n < Half, NEW s, WalkInv(n, s), ~ Left(s),
         s.T <= n
  PROVE  WalkInv(n, Round(n, s))
<1>1. Placed(s) /\ Summed(s) /\ Falling(n, s) /\ s \in State /\ Bucketed(s)
  BY Zenon DEF WalkInv, Placed
<1>2. s.T \in Nat /\ s.tot \in Int /\ Beyond(n, s) \in Int
  BY <1>1, StateTypes, BeyondType, Zenon
<1>3. PICK T, tot : T = s.T + 1 /\ tot = s.tot + Beyond(n, s)
  BY Zenon
<1>4. T \in Nat /\ tot \in Int /\ T <= Half /\ T <= n + 1
  BY <1>2, <1>3, Widths
<1>5. PICK t : t = [s EXCEPT !.tot = tot, !.T = T]
  BY Zenon
<1>6. /\ t \in State /\ t.T = T /\ t.c = s.c /\ t.dT = s.dT /\ t._dom = s._dom
      /\ t.loc = s.loc /\ t.step = s.step /\ t.sum = s.sum /\ t.curve = s.curve
  BY <1>1, <1>4, <1>5, Zenon DEF State
<1>7. Bucketed(t) /\ LastValue(t) = LastValue(s)
  BY <1>1, <1>6, SameBucket, Zenon
<1>8. t = [s EXCEPT !.tot = @ + Beyond(n, s), !.T = @ + 1]
  BY <1>1, <1>3, <1>5, Zenon DEF State
<1>9. PICK u : u = Round(n, s)
  BY Zenon
<1>10. u = AddShare(IF t.T > Unsigned(t.loc) THEN NextBucket(t) ELSE t)
  BY <1>8, <1>9, Zenon DEF Round
<1>11. /\ Placed(u) /\ Summed(u) /\ u.T = t.T /\ u.c = t.c
       /\ u.curve = t.curve /\ u.sum >= s.sum
  <2>1. CASE t.T > Unsigned(t.loc)
    <3>1. u = AddShare(NextBucket(t))
      BY <1>10, <2>1, Zenon
    <3>2. LastValue(t) < Half /\ t.T > LastValue(t)
      BY <1>4, <1>6, <1>7, <2>1, BucketTest, Zenon
    <3>3. t.T = s.T + 1
      BY <1>3, <1>6, Zenon
    <3>4. LastValue(s) < Half /\ t.T > LastValue(s)
      BY <1>7, <3>2, Zenon
    <3>5. QED
      BY <1>1, <1>6, <1>7, <3>1, <3>3, <3>4, NextBucketKeeps, Zenon
  <2>2. CASE ~ (t.T > Unsigned(t.loc))
    <3>1. u = AddShare(t)
      BY <1>10, <2>2, Zenon
    <3>2. t.T <= LastValue(s)
      BY <1>4, <1>6, <1>7, <2>2, BucketTest, Zenon
    <3>3. t.T = s.T + 1
      BY <1>3, <1>6, Zenon
    <3>4. QED
      BY <1>1, <1>6, <1>7, <3>1, <3>2, <3>3, SameBucketKeeps, ZenonT(40)
  <2>3. QED
    BY <2>1, <2>2, Zenon
<1>12. u \in State /\ u.curve = s.curve /\ u.T <= n + 1
  BY <1>4, <1>6, <1>11, Zenon DEF Placed
<1>13. Beyond(n, u) <= Beyond(n, s) /\ Beyond(n, u) \in Int
  BY <1>1, <1>11, <1>12, BeyondFalls, BeyondType, Zenon
<1>14. Falling(n, u)
  <2>1. ASSUME NEW i \in 1 .. Len(s.curve) PROVE Beyond(n, u) <= s.curve[i]
    <3>1. Beyond(n, s) <= s.curve[i]
      BY <1>1, Zenon DEF Falling
    <3>2. s.curve[i] \in Int
      BY <1>1, StateTypes
    <3>3. QED
      BY <1>2, <1>13, <3>1, <3>2
  <2>2. QED
    BY <1>1, <1>12, <2>1, Zenon DEF Falling
<1>15. QED
  BY <1>9, <1>11, <1>12, <1>14, Zenon DEF WalkInv

\* A number no larger than those of a falling sequence continues it.
LEMMA AppendFalls ==
  ASSUME NEW q \in Seq(Nat), NEW b \in Nat, \A i \in 1 .. Len(q) : b <= q[i],
         \A i \in 1 .. (Len(q) - 1) : q[i + 1] <= q[i],
         NEW r, r = Append(q, b)
  PROVE  /\ r \in Seq(Nat)
         /\ \A i \in 1 .. Len(r) : b <= r[i]
         /\ \A i \in 1 .. (Len(r) - 1) : r[i + 1] <= r[i]
<1>1. PICK m : m = Len(q) /\ m \in Nat
  OBVIOUS
<1>2. r \in Seq(Nat) /\ Len(r) = m + 1 /\ r[m + 1] = b
  BY <1>1
<1>3. \A i \in 1 .. m : r[i] = q[i]
  BY <1>1
<1>4. ASSUME NEW i \in 1 .. (m + 1) PROVE b <= r[i]
  <2>1. CASE i = m + 1
    BY <1>2, <2>1
  <2>2. CASE i # m + 1
    <3>1. i \in 1 .. m
      BY <1>1, <2>2
    <3>2. QED
      BY <1>1, <1>3, <3>1, Zenon
  <2>3. QED
    BY <2>1, <2>2, Zenon
<1>5. ASSUME NEW i \in 1 .. m PROVE r[i + 1] <= r[i]
  <2>1. CASE i = m
    BY <1>1, <1>2, <1>3, <2>1, Zenon
  <2>2. CASE i # m
    <3>1. i \in 1 .. (m - 1) /\ i + 1 \in 1 .. m
      BY <1>1, <2>2
    <3>2. q[i + 1] <= q[i]
      BY <1>1, <3>1, Zenon
    <3>3. QED
      BY <1>3, <3>1, <3>2, Zenon
  <2>3. QED
    BY <2>1, <2>2, Zenon
<1>6. (m + 1) - 1 = m
  BY <1>1
<1>7. QED
  BY <1>2, <1>4, <1>5, <1>6, Zenon

\* A point of the curve does not move the walk, and continues the fall.
LEMMA PointKeeps ==
  ASSUME TypeOK, HistogramWithinReferences, NEW n \in Nat, AllRefs(n) # 0,
         NEW s, WalkInv(n, s)
  PROVE  WalkInv(n, Point(n, s))
<1>1. Placed(s) /\ Summed(s) /\ Falling(n, s) /\ s \in State /\ Bucketed(s)
  BY Zenon DEF WalkInv, Placed
<1>2. PICK b, c, q, u : /\ b = Beyond(n, s) /\ c = s.c + 1 /\ u = Point(n, s)
                        /\ q = IF s.c % PGAP = 0 THEN Append(s.curve, b) ELSE s.curve
  BY Zenon
<1>3. b \in Nat
  BY <1>1, <1>2, BeyondBounds, Zenon DEF Summed
<1>4. s.c \in Nat /\ s.curve \in Seq(Nat)
  BY <1>1, StateTypes, Zenon
<1>5. c \in Nat
  BY <1>2, <1>4
<1>6. /\ q \in Seq(Nat)
      /\ \A i \in 1 .. Len(q) : b <= q[i]
      /\ \A i \in 1 .. (Len(q) - 1) : q[i + 1] <= q[i]
  <2>1. /\ \A i \in 1 .. Len(s.curve) : b <= s.curve[i]
        /\ \A i \in 1 .. (Len(s.curve) - 1) : s.curve[i + 1] <= s.curve[i]
    BY <1>1, <1>2, Zenon DEF Falling
  <2>2. CASE s.c % PGAP = 0
    <3>1. q = Append(s.curve, b)
      BY <1>2, <2>2, Zenon
    <3>2. QED
      BY <1>3, <1>4, <2>1, <3>1, AppendFalls, Zenon
  <2>3. CASE s.c % PGAP # 0
    <3>1. q = s.curve
      BY <1>2, <2>3, Zenon
    <3>2. QED
      BY <1>4, <2>1, <3>1, Zenon
  <2>4. QED
    BY <2>2, <2>3, Zenon
<1>7. u = [s EXCEPT !.c = c, !.curve = q]
  <2>1. Ratio(n, s) = b
    <3>1. b >= 0
      BY <1>3
    <3>2. QED
      BY <1>2, <3>1, Zenon DEF Ratio
  <2>2. u = [s EXCEPT !.c = @ + 1,
                      !.curve = IF s.c % PGAP = 0 THEN Append(@, b) ELSE @]
    BY <1>2, <2>1, Zenon DEF Point
  <2>3. QED
    BY <1>1, <1>2, <2>2, Zenon DEF State
<1>8. /\ u \in State /\ u.curve = q /\ u.T = s.T /\ u.dT = s.dT /\ u._dom = s._dom
      /\ u.loc = s.loc /\ u.step = s.step /\ u.sum = s.sum
  BY <1>1, <1>5, <1>6, <1>7, Zenon DEF State
<1>9. Bucketed(u) /\ LastValue(u) = LastValue(s)
  BY <1>1, <1>8, SameBucket, Zenon
<1>10. Rank(u) = Rank(s) /\ Passed(u) = Passed(s) /\ Share(u) = Share(s)
  BY <1>8, <1>9, Zenon DEF Rank, Passed, Share
<1>11. (Left(u) <=> Left(s)) /\ Beyond(n, u) = b
  BY <1>2, <1>8, Zenon DEF Left, Beyond
<1>12. Placed(u)
  BY <1>1, <1>8, <1>9, <1>10, Zenon DEF Placed
<1>13. Summed(u)
  BY <1>1, <1>8, <1>10, <1>11, Zenon DEF Summed
<1>14. Falling(n, u)
  BY <1>6, <1>8, <1>11, Zenon DEF Falling
<1>15. u.T <= n + 1
  BY <1>8, Zenon DEF WalkInv
<1>16. QED
  BY <1>2, <1>12, <1>13, <1>14, <1>15, Zenon DEF WalkInv

\* Every turn of the two loops keeps the invariant.
LEMMA TurnKeeps ==
  ASSUME TypeOK, HistogramWithinReferences, NEW n \in Nat, n < Half,
         AllRefs(n) # 0, NEW s, WalkInv(n, s)
  PROVE  WalkInv(n, Turn(n, s))
<1>1. CASE Left(s) \/ s.c > CacheSizes
  BY <1>1, Zenon DEF Turn
<1>2. CASE ~ (Left(s) \/ s.c > CacheSizes) /\ Fills(n, s)
  <2>1. ~ Left(s) /\ s.T <= n
    BY <1>2, Zenon DEF Fills
  <2>2. Turn(n, s) = Round(n, s)
    BY <1>2, Zenon DEF Turn
  <2>3. QED
    BY <2>1, <2>2, RoundKeeps, Zenon
<1>3. CASE ~ (Left(s) \/ s.c > CacheSizes) /\ ~ Fills(n, s)
  <2>1. Turn(n, s) = Point(n, s)
    BY <1>3, Zenon DEF Turn
  <2>2. QED
    BY <2>1, PointKeeps, Zenon
<1>4. QED
  BY <1>1, <1>2, <1>3, Zenon

-----------------------------------------------------------------------------
\* f gives the first states of the computation, up to the mth.
Computes(n, m, f) ==
  f = [k \in 1 .. m |->
         IF k = 1 THEN <<Start>> ELSE Append(f[k - 1], Turn(n, f[k - 1][k - 1]))]

\* The number of states aet_process is given.
Turns(n) == n + CacheSizes + 2

\* aet_process chooses such an f.
LEMMA ProcessChoice ==
  ASSUME NEW n
  PROVE  aet_process(n) = (CHOOSE f : Computes(n, Turns(n), f))[Turns(n)]
BY Zenon DEF aet_process, Computes, Turns

\* There is such an f to choose.
LEMMA ProcessExists ==
  ASSUME NEW n, NEW m \in Nat
  PROVE  \E f : Computes(n, m, f)
<1> DEFINE N == {k \in Nat : \E f : Computes(n, k, f)}
<1>1. 0 \in N
  <2>1. PICK f : f = [k \in 1 .. 0 |-> 0]
    BY Zenon
  <2>2. Computes(n, 0, f)
    BY <2>1 DEF Computes
  <2>3. QED
    BY <2>2, Zenon
<1>2. ASSUME NEW l \in N PROVE l + 1 \in N
  <2>1. PICK f : Computes(n, l, f)
    BY Zenon
  <2>2. PICK g : g = [k \in 1 .. (l + 1) |->
                 IF k = 1 THEN <<Start>>
                 ELSE Append(f[k - 1], Turn(n, f[k - 1][k - 1]))]
    BY Zenon
  <2>3. ASSUME NEW k \in 1 .. l PROVE g[k] = f[k]
    <3>1. k \in 1 .. (l + 1)
      OBVIOUS
    <3>2. f[k] = IF k = 1 THEN <<Start>>
                 ELSE Append(f[k - 1], Turn(n, f[k - 1][k - 1]))
      BY <2>1, Zenon DEF Computes
    <3>3. QED
      BY <2>2, <3>1, <3>2, Zenon
  <2>4. ASSUME NEW k \in 1 .. (l + 1)
        PROVE  (IF k = 1 THEN <<Start>>
                ELSE Append(f[k - 1], Turn(n, f[k - 1][k - 1]))) =
               (IF k = 1 THEN <<Start>>
                ELSE Append(g[k - 1], Turn(n, g[k - 1][k - 1])))
    <3>1. CASE k = 1
      BY <3>1, Zenon
    <3>2. CASE k # 1
      <4>1. k - 1 \in 1 .. l
        BY <3>2
      <4>2. g[k - 1] = f[k - 1]
        BY <2>3, <4>1, Zenon
      <4>3. QED
        BY <4>2, Zenon
    <3>3. QED
      BY <3>1, <3>2, Zenon
  <2>5. Computes(n, l + 1, g)
    BY <2>2, <2>4, Zenon DEF Computes
  <2>6. QED
    BY <2>5
<1> HIDE DEF N
<1>3. N = Nat
  BY <1>1, <1>2, NatInd, Zenon DEF N
<1>4. QED
  BY <1>3, Zenon DEF N

\* Every state of the computation satisfies the loop invariant.
LEMMA ProcessStates ==
  ASSUME TypeOK, HistogramWithinReferences, NEW n \in Nat, n < Half,
         AllRefs(n) # 0
  PROVE  /\ Turns(n) \in Nat \ {0} /\ Len(aet_process(n)) = Turns(n)
         /\ aet_process(n) \in Seq({s \in State : WalkInv(n, s)})
<1>1. PICK W : W = {s \in State : WalkInv(n, s)}
  BY Zenon
<1>2. ASSUME NEW s, WalkInv(n, s) PROVE s \in W
  BY <1>1, <1>2, Zenon DEF WalkInv, Placed
<1>3. Start \in W
  BY <1>2, WalkStarts, Zenon
<1>4. ASSUME NEW s \in W PROVE Turn(n, s) \in W
  <2>1. WalkInv(n, s)
    BY <1>1, Zenon
  <2>2. QED
    BY <1>2, <2>1, TurnKeeps, Zenon
<1>5. PICK m : m = Turns(n) /\ m \in Nat \ {0}
  BY ProcessAssumption DEF Turns
<1>6. PICK f : Computes(n, m, f) /\ aet_process(n) = f[m]
  <2>1. \E f : Computes(n, m, f)
    BY <1>5, ProcessExists, Zenon
  <2>2. aet_process(n) = (CHOOSE f : Computes(n, m, f))[m]
    BY <1>5, ProcessChoice, Zenon
  <2>3. QED
    BY <2>1, <2>2, Zenon
<1> DEFINE N == {k \in Nat : k + 1 \in 1 .. m =>
                               f[k + 1] \in Seq(W) /\ Len(f[k + 1]) = k + 1}
<1>7. 0 \in N
  <2>1. 0 + 1 \in 1 .. m /\ 0 + 1 = 1
    BY <1>5
  <2>2. f[0 + 1] = <<Start>>
    BY <1>6, <2>1, Zenon DEF Computes
  <2>3. <<Start>> \in Seq(W) /\ Len(<<Start>>) = 1
    BY <1>3
  <2>4. f[0 + 1] \in Seq(W) /\ Len(f[0 + 1]) = 0 + 1
    BY <2>1, <2>2, <2>3, Zenon
  <2>5. QED
    BY <2>4, Zenon
<1>8. ASSUME NEW k \in N PROVE k + 1 \in N
  <2>1. ASSUME (k + 1) + 1 \in 1 .. m
        PROVE  f[(k + 1) + 1] \in Seq(W) /\ Len(f[(k + 1) + 1]) = (k + 1) + 1
    <3>1. PICK l : l = k + 1
      BY Zenon
    <3>2. l \in Nat /\ l \in 1 .. m /\ l + 1 \in 1 .. m /\ l + 1 # 1 /\ (l + 1) - 1 = l
      BY <1>5, <2>1, <3>1
    <3>3. f[l] \in Seq(W) /\ Len(f[l]) = l
      BY <3>1, <3>2, Zenon
    <3>4. f[l + 1] = Append(f[l], Turn(n, f[l][l]))
      <4>1. f[l + 1] = IF l + 1 = 1 THEN <<Start>>
                       ELSE Append(f[(l + 1) - 1], Turn(n, f[(l + 1) - 1][(l + 1) - 1]))
        BY <1>6, <3>2, Zenon DEF Computes
      <4>2. QED
        BY <3>2, <4>1, Zenon
    <3>5. PICK q, s : q = f[l] /\ s = Turn(n, q[l])
      BY Zenon
    <3>6. q \in Seq(W) /\ Len(q) = l
      BY <3>3, <3>5, Zenon
    <3>7. q[l] \in W
      BY <3>2, <3>6
    <3>8. s \in W
      BY <1>4, <3>5, <3>7, Zenon
    <3>9. Append(q, s) \in Seq(W) /\ Len(Append(q, s)) = l + 1
      BY <3>6, <3>8
    <3>10. QED
      BY <3>1, <3>4, <3>5, <3>9, Zenon
  <2>2. QED
    BY <2>1
<1> HIDE DEF N
<1>9. N = Nat
  BY <1>7, <1>8, NatInd, Zenon DEF N
<1>10. m - 1 \in N /\ (m - 1) + 1 = m /\ m \in 1 .. m
  BY <1>5, <1>9
<1>11. f[m] \in Seq(W) /\ Len(f[m]) = m
  BY <1>10, Zenon DEF N
<1>12. QED
  BY <1>1, <1>5, <1>6, <1>11, Zenon
===============================================================================
