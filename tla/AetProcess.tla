------------------------------ MODULE AetProcess ------------------------------
(***************************************************************************)
(* `xc -c n' (myxc.c, aet_process): the miss-ratio curve of domain 1,      *)
(* computed from the recorder's shared memory and from n, the number of    *)
(* memory references of the measured period.                               *)
(*                                                                         *)
(* The program adds up doubles.  Here sum is kept in units of 1 / Scale,   *)
(* and N and tot in units of 1 / (Scale * CountedRefs(n)), which makes all *)
(* of them integers: rounding is left out.  The other variables keep their *)
(* widths: n and m are unsigned long, loc is an int.                       *)
(*                                                                         *)
(* The computation is an operator on one state: the memory does not change *)
(* under it.  The program loads tot_ref_ once at its start and aet_hist_   *)
(* in every round, and nothing keeps the handlers from adding samples      *)
(* meanwhile; then sum may pass N, which is the case it calls weird.  What *)
(* is shown here holds for a closed session, or a stopped domain.          *)
(***************************************************************************)
EXTENDS AetTracker, Sequences

CONSTANTS
  INT_BITS,        \* width of int
  STEP,            \* references per sampled page (256)
  CacheSizes,      \* cache sizes c computed, 256 * 2000 in the code
  PGAP,            \* every PGAP-th of them is a point of the curve (256)
  RefCounts        \* values of the argument n

ASSUME ProcessAssumption ==
         /\ INT_BITS \in 1 .. WORD_BITS
         /\ {STEP, PGAP} \subseteq Nat \ {0}
         /\ CacheSizes \in Nat
         /\ RefCounts \subseteq Word
\* An unsigned long has room for a bucket's width beyond any int.
ASSUME WidthAssumption == 2^INT_BITS + DOMAIN_SIZE <= 2^WORD_BITS
\* Arithmetic, of which the provers know nothing.
ASSUME PowersOfTwo ==
         /\ 2^0 = 1
         /\ \A k \in 0 .. (WORD_BITS + MAX_PAGE_NUM) :
              2^k \in Nat \ {0} /\ 2^(k + 1) = 2 * 2^k

\* Conversion to int.
Signed(x) == ((x + 2^(INT_BITS - 1)) % (2^INT_BITS)) - 2^(INT_BITS - 1)

\* Every step the walk takes inside the histogram divides Scale.
Scale == 2^((MAX_PAGE_NUM - 1) \div DOMAIN_SIZE)

\* m: the references attributed to pages seen once, and n - m, unsigned.
ColdRefs == Unsigned(node_count[1] * STEP)
CountedRefs(n) == Unsigned(n - ColdRefs)

\* N, the references to expect, and the part of them not yet in sum.
AllRefs(n) == (tot_ref[1] * CountedRefs(n) + tot_ref[1] * ColdRefs) * Scale
Beyond(n, s) == AllRefs(n) - s.sum * CountedRefs(n)

-----------------------------------------------------------------------------
\* c, T and the place of T in the histogram: bucket dT, its last value loc, its
\* width step, and its number _dom among the buckets of that width.
Start == [c |-> 1, T |-> 0, dT |-> 0, _dom |-> 0, loc |-> 0, step |-> 1,
          sum |-> 0, tot |-> 0, curve |-> <<>>]

\* Variant: the width doubles one bucket early.
NextBucketEarly(s) ==
  LET full == s._dom + 1 >= DOMAIN_SIZE
      step == IF full THEN Unsigned(2 * s.step) ELSE s.step
  IN  [s EXCEPT !.dT = @ + 1, !._dom = IF full THEN 1 ELSE @ + 1,
                !.step = step, !.loc = Signed(@ + step)]

NextBucket(s) ==
  LET full == s._dom + 1 > DOMAIN_SIZE
      step == IF full THEN Unsigned(2 * s.step) ELSE s.step
  IN  [s EXCEPT !.dT = @ + 1, !._dom = IF full THEN 1 ELSE @ + 1,
                !.step = step, !.loc = Signed(@ + step)]

\* Leaving the histogram ends both loops.
Left(s) == s.dT >= MAX_PAGE_NUM

\* Variant: the whole bucket is added for every distance in it.
AddWholeBucket(s) ==
  IF Left(s) THEN s ELSE [s EXCEPT !.sum = @ + aet_hist[1][s.dT] * Scale]

\* Each distance gets its share of its bucket's samples.
AddShare(s) ==
  IF Left(s) THEN s
  ELSE [s EXCEPT !.sum = @ + aet_hist[1][s.dT] * (Scale \div s.step)]

\* The inner loop: its condition and its body.
Fills(n, s) == s.T <= n /\ s.tot < s.c * AllRefs(n) /\ Beyond(n, s) > 0

Round(n, s) ==
  LET t == [s EXCEPT !.tot = @ + Beyond(n, s), !.T = @ + 1]
  IN  AddShare(IF t.T > Unsigned(t.loc) THEN NextBucket(t) ELSE t)

\* What is written for a cache size, as a part of AllRefs(n).  With no references
\* it is 0 / 0, which is not a number.
NaN == -1
Ratio(n, s) ==
  IF AllRefs(n) = 0 THEN NaN
  ELSE IF Beyond(n, s) >= 0 THEN Beyond(n, s) ELSE 0

\* A point of the curve, and the next cache size.
Point(n, s) ==
  [s EXCEPT !.c = @ + 1,
            !.curve = IF s.c % PGAP = 0 THEN Append(@, Ratio(n, s)) ELSE @]

Turn(n, s) ==
  IF Left(s) \/ s.c > CacheSizes THEN s
  ELSE IF Fills(n, s) THEN Round(n, s) ELSE Point(n, s)

\* The states of the computation.  Every turn raises T, which stops at n + 1,
\* or c.
aet_process(n) ==
  LET states[k \in 1 .. n + CacheSizes + 2] ==
        IF k = 1 THEN <<Start>>
        ELSE LET before == states[k - 1]
             IN  Append(before, Turn(n, before[k - 1]))
  IN  states[n + CacheSizes + 2]

-----------------------------------------------------------------------------
\* With n = m the program divides by zero, and without a reference N is zero and
\* every point is NaN.  T runs to n, and once an int cannot hold T the walk no
\* longer leaves its bucket.  Nothing is claimed of such n.
Computable ==
  {n \in RefCounts \ {ColdRefs} : AllRefs(n) # 0 /\ n < 2^(INT_BITS - 1)}

\* The tool undoes the recorder's compression: as long as an int can hold the
\* last value of the bucket, aet_process looks for the samples of distance T in
\* the bucket where add_to_aet_histogram put them, and at the last distance of
\* a bucket it has added the samples of all buckets so far exactly once.
CurveUndoesCompression ==
  \A n \in Computable :
    LET states == aet_process(n)
    IN  \A k \in DOMAIN states :
          LET s == states[k]
          IN  s.T > 0 /\ ~ Left(s) /\ s.loc >= s.T =>
                /\ s.dT = domain_value_to_index(s.T)
                /\ s.loc = s.T =>
                     s.sum = Scale * SumFunctionOnSet(aet_hist[1], 1 .. s.dT)

\* The curve is a miss ratio: aet_process never has more samples than references
\* (the case it calls weird), and a larger cache never misses more, whatever int
\* n is given, even one that the pages seen once exceed.
CurveIsMissRatio ==
  \A n \in Computable :
    LET states == aet_process(n)
        last == states[Len(states)]
    IN  /\ Beyond(n, last) >= 0
        /\ \A i \in 1 .. Len(last.curve) - 1 : last.curve[i + 1] <= last.curve[i]
=============================================================================
