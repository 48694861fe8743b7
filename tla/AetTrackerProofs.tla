--------------------------- MODULE AetTrackerProofs ---------------------------
(***************************************************************************)
(* Proofs about the reuse recorder for every hash size, bucket depth,      *)
(* histogram length, word width and set of frames.                         *)
(***************************************************************************)
EXTENDS AetTracker, SumTheorems

USE DEF MAX_DOM_NR

\* A non-empty set of naturals has a least element, and Least returns it.
LEMMA LeastProperties ==
  ASSUME NEW S, S \subseteq Nat, S # {}
  PROVE  /\ Least(S) \in S
         /\ \A y \in S : Least(S) <= y
<1> DEFINE R == {ss \in Nat \X Nat : ss[1] < ss[2]}
<1>1. IsWellFoundedOn(R, Nat)
  BY NatLessThanWellFounded DEF OpToRel
<1> HIDE DEF R
<1>2. PICK x \in S : \A y \in S : ~ (<<y, x>> \in R)
  BY <1>1, WFMin
<1>3. ASSUME NEW y \in S
      PROVE  x <= y
  <2>1. x \in Nat /\ y \in Nat
    OBVIOUS
  <2>2. <<y, x>> \in R <=> y < x
    BY <2>1 DEF R
  <2>3. QED
    BY <1>2, <2>1, <2>2
<1>4. QED
  BY <1>3 DEF Least

\* When the first loop of domain_value_to_index exits, so does the second, and
\* the index is a natural number.
LEMMA IndexType ==
  ASSUME NEW v, Terminates(v)
  PROVE  domain_value_to_index(v) \in Nat
<1> DEFINE k == Least(FirstLoopExits(v))
<1>1. k \in FirstLoopExits(v)
  <2>1. FirstLoopExits(v) \subseteq Nat
    BY WordAssumption DEF FirstLoopExits
  <2>2. QED
    BY <2>1, LeastProperties DEF Terminates
<1>2. DOMAIN_SIZE \in SecondLoopExits(v, k)
  BY <1>1, DomainAssumption DEF FirstLoopExits, SecondLoopExits
<1>3. SecondLoopExits(v, k) \subseteq Nat
  BY DomainAssumption DEF SecondLoopExits
<1>4. Least(SecondLoopExits(v, k)) \in Nat
  BY <1>2, <1>3, LeastProperties
<1>5. k \in Nat
  BY <1>1, WordAssumption DEF FirstLoopExits
<1>6. k * DOMAIN_SIZE \in Nat
  BY <1>5, DomainAssumption
<1>7. QED
  BY <1>4, <1>6 DEF domain_value_to_index

\* The bucket of a frame exists.
LEMMA KeyType ==
  ASSUME NEW mfn \in Mfn
  PROVE  mfn % HASH \in Key
BY MfnAssumption, HashAssumption DEF Key

\* A least stop of the probe holds the frame or is empty, and every position
\* before it holds another frame.
LEMMA StopProperties ==
  ASSUME NEW bucket, NEW mfn \in Mfn, ProbeStops(bucket, mfn) # {},
         NEW p, p = Least(ProbeStops(bucket, mfn))
  PROVE  /\ p \in Pos
         /\ bucket[p].mfn \in {mfn, 0}
         /\ \A q \in 0 .. (p - 1) : q \in Pos /\ bucket[q].mfn \notin {mfn, 0}
<1>1. ProbeStops(bucket, mfn) \subseteq Nat
  BY HashAssumption DEF ProbeStops, Pos
<1>2. /\ p \in ProbeStops(bucket, mfn)
      /\ \A q \in ProbeStops(bucket, mfn) : p <= q
  BY <1>1, LeastProperties
<1>3. p \in Pos
  BY <1>2 DEF ProbeStops
<1>4. ASSUME NEW q \in 0 .. (p - 1)
      PROVE  q \in Pos /\ bucket[q].mfn \notin {mfn, 0}
  <2>1. q \in Pos /\ q < p
    BY <1>3, <1>4, HashAssumption DEF Pos
  <2>2. q \notin ProbeStops(bucket, mfn)
    BY <2>1, <1>2, <1>3, HashAssumption DEF Pos
  <2>3. QED
    BY <2>1, <2>2 DEF ProbeStops
<1>5. QED
  BY <1>2, <1>3, <1>4 DEF ProbeStops

\* StopProperties for the probe of track_aet_fault in the current hash.
LEMMA ProbeProperties ==
  ASSUME NEW d \in Dom, NEW mfn \in Mfn, HasStop(d, mfn)
  PROVE  /\ ProbePos(d, mfn) \in Pos
         /\ LastAccess(d, mfn).mfn \in {mfn, 0}
         /\ \A q \in 0 .. (ProbePos(d, mfn) - 1) :
              q \in Pos /\ Bucket(d, mfn)[q].mfn \notin {mfn, 0}
BY StopProperties DEF HasStop, ProbePos, LastAccess

\* The debug log's length stays a natural number.
LEMMA LoggedType ==
  ASSUME NEW c \in Nat, NEW n \in Nat
  PROVE  Logged(c, n) \in Nat
<1>1. CASE c + LogSlack < MAX_ARRAY_SIZE
  <2> DEFINE S == {c + n, MAX_ARRAY_SIZE - LogSlack}
  <2>1. S \subseteq Nat /\ S # {}
    BY <1>1, SizeAssumption DEF LogSlack
  <2>2. Least(S) \in Nat
    BY <2>1, LeastProperties
  <2>3. QED
    BY <1>1, <2>2 DEF Logged
<1>2. CASE ~ (c + LogSlack < MAX_ARRAY_SIZE)
  BY <1>2 DEF Logged
<1>3. QED
  BY <1>1, <1>2

-----------------------------------------------------------------------------
\* A node is written with the right fields at a position of the table.
LEMMA StoreType ==
  ASSUME TypeOK, NEW d \in Dom, NEW mfn \in Mfn, NEW mem_counter \in MemCounter,
         HasStop(d, mfn), Store(d, mfn, mem_counter)
  PROVE  hns' \in [Dom -> [Key -> [Pos -> hash_node]]]
<1> DEFINE node == [mfn |-> mfn, mem_counter |-> mem_counter, pf |-> page_fault_count]
<1>1. node \in hash_node
  BY DEF TypeOK, hash_node
<1>2. mfn % HASH \in Key /\ ProbePos(d, mfn) \in Pos
  BY KeyType, ProbeProperties
<1> HIDE DEF node
<1>3. hns' = [hns EXCEPT ![d][mfn % HASH][ProbePos(d, mfn)] = node]
  BY DEF Store, node
<1>4. QED
  BY <1>1, <1>2, <1>3 DEF TypeOK

\* Every step keeps the types: the inductive step of TypeCorrect.
LEMMA TypeStep == TypeOK /\ [Next]_vars => TypeOK'
<1> SUFFICES ASSUME TypeOK, [Next]_vars PROVE TypeOK'
  OBVIOUS
<1>1. CASE add_page_fault_count
  BY <1>1 DEF TypeOK, add_page_fault_count
<1>2. ASSUME NEW d \in Dom, NEW mfn \in Mfn, NEW mem_counter \in MemCounter,
             MagicFault(d, mfn, mem_counter)
      PROVE  TypeOK'
  <2>1. CASE Reference(d, mfn, mem_counter)
    <3> DEFINE node == LastAccess(d, mfn)
               new_mc == Corrected(node, mem_counter)
               i == domain_value_to_index(Unsigned(new_mc - node.mem_counter))
    <3>1. aet_hist' \in [Dom -> [Index -> Nat]]
      <4>1. CASE Compresses(node.mem_counter, new_mc) /\ i < MAX_PAGE_NUM
        <5>1. Terminates(Unsigned(new_mc - node.mem_counter))
          BY <2>1, <4>1 DEF Reference, Diverges
        <5>2. i \in Index
          BY <4>1, <5>1, IndexType, SizeAssumption DEF Index
        <5> HIDE DEF i
        <5>3. aet_hist' = [aet_hist EXCEPT ![d][i] = @ + 1]
          BY <2>1, <4>1 DEF Reference, add_to_aet_histogram, i
        <5>4. QED
          BY <5>2, <5>3 DEF TypeOK
      <4>2. CASE ~ (Compresses(node.mem_counter, new_mc) /\ i < MAX_PAGE_NUM)
        BY <2>1, <4>2 DEF Reference, add_to_aet_histogram, TypeOK
      <4>3. QED
        BY <4>1, <4>2
    <3>2. hns' \in [Dom -> [Key -> [Pos -> hash_node]]]
      BY <2>1, StoreType DEF Reference, Found
    <3>3. PICK n \in {1, 2} : add_user_mode_fault_count(n)
      <4>1. (IF mem_counter > node.mem_counter THEN 2 ELSE 1) \in {1, 2}
        OBVIOUS
      <4>2. add_user_mode_fault_count(IF mem_counter > node.mem_counter THEN 2 ELSE 1)
        BY <2>1 DEF Reference
      <4>3. QED
        BY <4>1, <4>2
    <3>4. user_mode_fault' \in Nat /\ total_count' \in Nat
      <4>1. n \in Nat /\ total_count \in Nat /\ user_mode_fault \in Nat
        BY DEF TypeOK
      <4>2. Logged(total_count, n) \in Nat
        BY <4>1, LoggedType
      <4>3. QED
        BY <3>3, <4>1, <4>2 DEF add_user_mode_fault_count
    <3>5. tot_ref' \in [Dom -> Nat]
      BY <2>1 DEF Reference, CountedOutcome, TypeOK
    <3>6. QED
      BY <2>1, <3>1, <3>2, <3>4, <3>5 DEF Reference, CountedOutcome, TypeOK
  <2>2. CASE Insert(d, mfn, mem_counter)
    <3>1. hns' \in [Dom -> [Key -> [Pos -> hash_node]]]
      BY <2>2, StoreType DEF Insert
    <3>2. user_mode_fault' \in Nat /\ total_count' \in Nat
      BY <2>2, LoggedType DEF Insert, add_user_mode_fault_count, TypeOK
    <3>3. node_count' \in [Dom -> Nat]
      BY <2>2 DEF Insert, CountedOutcome, TypeOK
    <3>4. QED
      BY <2>2, <3>1, <3>2, <3>3 DEF Insert, CountedOutcome, TypeOK
  <2>3. CASE Conflict(d, mfn)
    <3>1. user_mode_fault' \in Nat /\ total_count' \in Nat
      BY <2>3, LoggedType DEF Conflict, add_user_mode_fault_count, TypeOK
    <3>2. QED
      BY <2>3, <3>1 DEF Conflict, CountedOutcome, TypeOK
  <2>4. CASE Spin(d, mfn, mem_counter)
    <3>1. user_mode_fault' \in Nat /\ total_count' \in Nat
      BY <2>4, LoggedType DEF Spin, add_user_mode_fault_count, TypeOK
    <3>2. QED
      BY <2>4, <3>1 DEF Spin, TypeOK
  <2>5. QED
    BY <1>2, <2>1, <2>2, <2>3, <2>4 DEF MagicFault
<1>3. CASE reset
  BY <1>3 DEF TypeOK, reset, ClearCounters, EmptyTable, EmptyNode, hash_node
<1>4. CASE UNCHANGED vars
  BY <1>4 DEF TypeOK, vars
<1>5. QED
  BY <1>1, <1>2, <1>3, <1>4 DEF Next

\* Type correctness of the recorder, for every instance: in particular every
\* index add_to_aet_histogram writes lies inside aet_hist_, and every probe
\* position inside its bucket.
THEOREM TypeCorrect == Spec => []TypeOK
<1>1. Init => TypeOK
  BY DEF Init, TypeOK, EmptyTable, EmptyNode, hash_node
<1>2. QED
  BY <1>1, TypeStep, PTL DEF Spec

-----------------------------------------------------------------------------
\* Store replaces the node at the probe's position and no other.
LEMMA StoreEffect ==
  ASSUME TypeOK, NEW d \in Dom, NEW mfn \in Mfn, NEW mem_counter \in MemCounter,
         HasStop(d, mfn), Store(d, mfn, mem_counter),
         NEW e \in Dom, NEW k \in Key, NEW p \in Pos
  PROVE  /\ e = d /\ k = mfn % HASH /\ p = ProbePos(d, mfn) =>
              hns'[e][k][p] = [mfn |-> mfn, mem_counter |-> mem_counter,
                               pf |-> page_fault_count]
         /\ ~ (e = d /\ k = mfn % HASH /\ p = ProbePos(d, mfn)) =>
              hns'[e][k][p] = hns[e][k][p]
<1>1. mfn % HASH \in Key /\ ProbePos(d, mfn) \in Pos
  BY KeyType, ProbeProperties
<1> DEFINE k0 == mfn % HASH
           p0 == ProbePos(d, mfn)
           node == [mfn |-> mfn, mem_counter |-> mem_counter, pf |-> page_fault_count]
<1>2. hns' = [hns EXCEPT ![d][k0][p0] = node]
  BY DEF Store
<1>3. k0 \in Key /\ p0 \in Pos /\ hns \in [Dom -> [Key -> [Pos -> hash_node]]]
  BY <1>1 DEF TypeOK
<1> HIDE DEF k0, p0, node
<1>4. /\ e = d /\ k = k0 /\ p = p0 => hns'[e][k][p] = node
      /\ ~ (e = d /\ k = k0 /\ p = p0) => hns'[e][k][p] = hns[e][k][p]
  BY <1>2, <1>3
<1>5. QED
  BY <1>4 DEF k0, p0, node

\* Storing at the first stop keeps every bucket well formed.
LEMMA StoreKeepsWellFormed ==
  ASSUME TypeOK, HashWellFormed,
         NEW d \in Dom, NEW mfn \in Mfn, NEW mem_counter \in MemCounter,
         HasStop(d, mfn), Store(d, mfn, mem_counter)
  PROVE  HashWellFormed'
<1> DEFINE k0 == mfn % HASH
           p0 == ProbePos(d, mfn)
<1>1. k0 \in Key /\ p0 \in Pos /\ mfn # 0
  BY KeyType, ProbeProperties, MfnAssumption
<1>2. /\ hns[d][k0][p0].mfn \in {mfn, 0}
      /\ \A q \in 0 .. (p0 - 1) : q \in Pos /\ hns[d][k0][q].mfn \notin {mfn, 0}
  BY ProbeProperties DEF LastAccess, Bucket
<1>9. \A e \in Dom, k \in Key, p \in Pos :
        /\ e = d /\ k = k0 /\ p = p0 =>
             hns'[e][k][p] = [mfn |-> mfn, mem_counter |-> mem_counter,
                              pf |-> page_fault_count]
        /\ ~ (e = d /\ k = k0 /\ p = p0) => hns'[e][k][p] = hns[e][k][p]
  BY StoreEffect
<1> HIDE DEF k0, p0
<1>3. \A e \in Dom, k \in Key, p \in Pos :
        hns'[e][k][p].mfn = IF e = d /\ k = k0 /\ p = p0 THEN mfn ELSE hns[e][k][p].mfn
  BY <1>9
<1>4. SUFFICES ASSUME NEW e \in Dom, NEW k \in Key, NEW p \in Pos,
                      hns'[e][k][p].mfn # 0
               PROVE  /\ hns'[e][k][p].mfn % HASH = k
                      /\ \A q \in 0 .. (p - 1) :
                           hns'[e][k][q].mfn \notin {0, hns'[e][k][p].mfn}
  BY DEF HashWellFormed, BucketWellFormed
<1>5. \A q \in 0 .. (p - 1) : q \in Pos
  BY HashAssumption DEF Pos
<1>6. CASE e = d /\ k = k0 /\ p = p0
  <2>1. hns'[e][k][p].mfn = mfn
    BY <1>3, <1>6
  <2>2. \A q \in 0 .. (p - 1) : q # p
    BY HashAssumption DEF Pos
  <2>3. \A q \in 0 .. (p - 1) : hns'[e][k][q].mfn = hns[d][k0][q].mfn
    BY <1>3, <1>5, <1>6, <2>2
  <2>4. QED
    BY <1>2, <1>6, <2>1, <2>3 DEF k0
<1>7. CASE ~ (e = d /\ k = k0 /\ p = p0)
  <2>1. hns'[e][k][p].mfn = hns[e][k][p].mfn
    BY <1>3, <1>7
  <2>2. /\ hns[e][k][p].mfn % HASH = k
        /\ \A q \in 0 .. (p - 1) : hns[e][k][q].mfn \notin {0, hns[e][k][p].mfn}
    BY <1>4, <2>1 DEF HashWellFormed, BucketWellFormed
  <2>3. ASSUME NEW q \in 0 .. (p - 1)
        PROVE  hns'[e][k][q].mfn \notin {0, hns'[e][k][p].mfn}
    <3>1. CASE e = d /\ k = k0 /\ q = p0
      <4>1. hns[d][k0][p0].mfn = mfn
        BY <1>2, <2>2, <3>1
      <4>2. QED
        BY <1>3, <1>5, <2>1, <2>2, <3>1, <4>1
    <3>2. CASE ~ (e = d /\ k = k0 /\ q = p0)
      BY <1>3, <1>5, <2>1, <2>2, <3>2
    <3>3. QED
      BY <3>1, <3>2
  <2>4. QED
    BY <2>1, <2>2, <2>3
<1>8. QED
  BY <1>6, <1>7

\* The hash stays a map in every reachable state: no frame ever gets a second
\* node and no bucket a hole, whatever the frames, counters and hash sizes.
THEOREM HashIsAMap == Spec => []HashWellFormed
<1>1. Init => HashWellFormed
  BY DEF Init, HashWellFormed, BucketWellFormed, EmptyTable, EmptyNode
<1>2. TypeOK /\ HashWellFormed /\ [Next]_vars => HashWellFormed'
  <2> SUFFICES ASSUME TypeOK, HashWellFormed, [Next]_vars PROVE HashWellFormed'
    OBVIOUS
  <2>1. CASE add_page_fault_count
    BY <2>1 DEF add_page_fault_count, HashWellFormed
  <2>2. ASSUME NEW d \in Dom, NEW mfn \in Mfn, NEW mem_counter \in MemCounter,
               MagicFault(d, mfn, mem_counter)
        PROVE  HashWellFormed'
    <3>1. CASE Reference(d, mfn, mem_counter)
      BY <3>1, StoreKeepsWellFormed DEF Reference, Found
    <3>2. CASE Insert(d, mfn, mem_counter)
      BY <3>2, StoreKeepsWellFormed DEF Insert
    <3>3. CASE Conflict(d, mfn)
      BY <3>3 DEF Conflict, HashWellFormed
    <3>4. CASE Spin(d, mfn, mem_counter)
      BY <3>4 DEF Spin, HashWellFormed
    <3>5. QED
      BY <2>2, <3>1, <3>2, <3>3, <3>4 DEF MagicFault
  <2>3. CASE reset
    BY <2>3 DEF reset, ClearCounters, HashWellFormed, BucketWellFormed, EmptyTable,
       EmptyNode
  <2>4. CASE UNCHANGED vars
    BY <2>4 DEF vars, HashWellFormed
  <2>5. QED
    BY <2>1, <2>2, <2>3, <2>4 DEF Next
<1>3. QED
  BY <1>1, <1>2, TypeCorrect, PTL DEF Spec

-----------------------------------------------------------------------------
\* A domain's hash holds finitely many nodes.
LEMMA OccupiedFinite ==
  ASSUME NEW d \in Dom
  PROVE  IsFiniteSet(Occupied(d))
<1>1. IsFiniteSet(Key) /\ IsFiniteSet(Pos)
  BY FS_Interval, HashAssumption DEF Key, Pos
<1>2. IsFiniteSet(Key \X Pos)
  BY <1>1, FS_Product
<1>3. Occupied(d) \in SUBSET (Key \X Pos)
  BY DEF Occupied
<1>4. QED
  BY <1>2, <1>3, FS_Subset

\* Storing at a position occupies it and changes no other.
LEMMA StoreOccupies ==
  ASSUME TypeOK, NEW d \in Dom, NEW mfn \in Mfn, NEW mem_counter \in MemCounter,
         HasStop(d, mfn), Store(d, mfn, mem_counter)
  PROVE  /\ Occupied(d)' = Occupied(d) \cup {<<mfn % HASH, ProbePos(d, mfn)>>}
         /\ \A e \in Dom \ {d} : Occupied(e)' = Occupied(e)
<1> DEFINE k0 == mfn % HASH
           p0 == ProbePos(d, mfn)
<1>1. k0 \in Key /\ p0 \in Pos /\ mfn # 0
  BY KeyType, ProbeProperties, MfnAssumption
<1>2. \A e \in Dom, k \in Key, p \in Pos :
        /\ e = d /\ k = k0 /\ p = p0 =>
             hns'[e][k][p] = [mfn |-> mfn, mem_counter |-> mem_counter,
                              pf |-> page_fault_count]
        /\ ~ (e = d /\ k = k0 /\ p = p0) => hns'[e][k][p] = hns[e][k][p]
  BY StoreEffect
<1> HIDE DEF k0, p0
<1>3. \A e \in Dom, k \in Key, p \in Pos :
        <<k, p>> \in Occupied(e)' <=>
          (e = d /\ k = k0 /\ p = p0) \/ <<k, p>> \in Occupied(e)
  <2> SUFFICES ASSUME NEW e \in Dom, NEW k \in Key, NEW p \in Pos
               PROVE  <<k, p>> \in Occupied(e)' <=>
                        (e = d /\ k = k0 /\ p = p0) \/ <<k, p>> \in Occupied(e)
    OBVIOUS
  <2>1. /\ <<k, p>> \in Occupied(e) <=> hns[e][k][p].mfn # 0
        /\ <<k, p>> \in Occupied(e)' <=> hns'[e][k][p].mfn # 0
    BY DEF Occupied
  <2>2. CASE e = d /\ k = k0 /\ p = p0
    <3>1. hns'[e][k][p].mfn = mfn
      BY <1>2, <2>2
    <3>2. QED
      BY <1>1, <2>1, <2>2, <3>1
  <2>3. CASE ~ (e = d /\ k = k0 /\ p = p0)
    <3>1. hns'[e][k][p] = hns[e][k][p]
      BY <1>2, <2>3
    <3>2. QED
      BY <2>1, <2>3, <3>1
  <2>4. QED
    BY <2>2, <2>3
<1>4. \A e \in Dom : /\ Occupied(e) \subseteq Key \X Pos
                     /\ Occupied(e)' \subseteq Key \X Pos
  BY DEF Occupied
<1>5. Occupied(d)' = Occupied(d) \cup {<<k0, p0>>}
  <2>1. ASSUME NEW x \in Key \X Pos
        PROVE  x \in Occupied(d)' <=> x \in Occupied(d) \cup {<<k0, p0>>}
    <3>1. PICK k \in Key, p \in Pos : x = <<k, p>>
      OBVIOUS
    <3>2. QED
      BY <1>3, <3>1
  <2>2. <<k0, p0>> \in Key \X Pos
    BY <1>1
  <2>3. QED
    BY <1>4, <2>1, <2>2
<1>6. ASSUME NEW e \in Dom \ {d}
      PROVE  Occupied(e)' = Occupied(e)
  <2>1. ASSUME NEW x \in Key \X Pos
        PROVE  x \in Occupied(e)' <=> x \in Occupied(e)
    <3>1. PICK k \in Key, p \in Pos : x = <<k, p>>
      OBVIOUS
    <3>2. QED
      BY <1>3, <3>1
  <2>2. QED
    BY <1>4, <2>1
<1>7. QED
  BY <1>5, <1>6 DEF k0, p0

\* node_count_ is exact: it counts the frames in the hash, no more and no less.
THEOREM NodesCounted == Spec => []NodeCountExact
<1>1. Init => NodeCountExact
  <2> SUFFICES ASSUME Init, NEW d \in Dom
               PROVE  node_count[d] = Cardinality(Occupied(d))
    BY DEF NodeCountExact
  <2>1. Occupied(d) = {}
    BY DEF Init, EmptyTable, EmptyNode, Occupied
  <2>2. QED
    BY <2>1, FS_EmptySet DEF Init
<1>2. TypeOK /\ NodeCountExact /\ [Next]_vars => NodeCountExact'
  <2> SUFFICES ASSUME TypeOK, NodeCountExact, [Next]_vars,
                      NEW e \in Dom
               PROVE  node_count'[e] = Cardinality(Occupied(e)')
    BY DEF NodeCountExact
  <2>1. CASE UNCHANGED <<hns, node_count>>
    BY <2>1 DEF NodeCountExact, Occupied
  <2>2. ASSUME NEW d \in Dom, NEW mfn \in Mfn, NEW mem_counter \in MemCounter,
               MagicFault(d, mfn, mem_counter)
        PROVE  node_count'[e] = Cardinality(Occupied(e)')
    <3> DEFINE x == <<mfn % HASH, ProbePos(d, mfn)>>
    <3>1. CASE Reference(d, mfn, mem_counter)
      <4>1. HasStop(d, mfn) /\ LastAccess(d, mfn).mfn = mfn
        BY <3>1 DEF Reference, Found
      <4>2. x \in Occupied(d)
        BY <4>1, KeyType, ProbeProperties, MfnAssumption
           DEF Occupied, LastAccess, Bucket
      <4>3. Occupied(e)' = Occupied(e)
        BY <3>1, <4>1, <4>2, StoreOccupies DEF Reference
      <4>4. QED
        BY <3>1, <4>3 DEF Reference, CountedOutcome, NodeCountExact, TypeOK
    <3>2. CASE Insert(d, mfn, mem_counter)
      <4>1. HasStop(d, mfn) /\ LastAccess(d, mfn).mfn = 0
        BY <3>2, ProbeProperties DEF Insert, Found
      <4>2. x \notin Occupied(d)
        BY <4>1 DEF Occupied, LastAccess, Bucket
      <4>3. /\ Occupied(d)' = Occupied(d) \cup {x}
            /\ \A f \in Dom \ {d} : Occupied(f)' = Occupied(f)
        BY <3>2, <4>1, StoreOccupies DEF Insert
      <4>4. Cardinality(Occupied(d) \cup {x}) = Cardinality(Occupied(d)) + 1
        BY <4>2, OccupiedFinite, FS_AddElement
      <4> HIDE DEF x
      <4>5. node_count' = [node_count EXCEPT ![d] = @ + 1]
        BY <3>2 DEF Insert, CountedOutcome
      <4>6. CASE e = d
        BY <4>3, <4>4, <4>5, <4>6 DEF NodeCountExact, TypeOK
      <4>7. CASE e # d
        BY <4>3, <4>5, <4>7 DEF NodeCountExact, TypeOK
      <4>8. QED
        BY <4>6, <4>7
    <3>3. CASE Conflict(d, mfn)
      <4>1. node_count' = node_count
        BY <3>3 DEF Conflict, CountedOutcome, TypeOK
      <4>2. QED
        BY <2>1, <3>3, <4>1 DEF Conflict
    <3>4. CASE Spin(d, mfn, mem_counter)
      BY <2>1, <3>4 DEF Spin
    <3>5. QED
      BY <2>2, <3>1, <3>2, <3>3, <3>4 DEF MagicFault
  <2>3. CASE reset
    <3>1. Occupied(e)' = {}
      BY <2>3 DEF reset, ClearCounters, EmptyTable, EmptyNode, Occupied
    <3>2. QED
      BY <2>3, <3>1, FS_EmptySet DEF reset, ClearCounters
  <2>4. CASE add_page_fault_count \/ UNCHANGED vars
    BY <2>1, <2>4 DEF add_page_fault_count, vars
  <2>5. QED
    BY <2>2, <2>3, <2>4 DEF Next
<1>3. QED
  BY <1>1, <1>2, TypeCorrect, PTL DEF Spec

-----------------------------------------------------------------------------
\* tracked_aet_magic_count1 is the sum of the three ways track_aet_fault ends:
\* no fault is counted twice or lost, in either domain.
THEOREM EveryFaultAccounted == Spec => []FaultsAccounted
<1>1. Init => FaultsAccounted
  BY DEF Init, FaultsAccounted, Dom
<1>2. TypeOK /\ FaultsAccounted /\ [Next]_vars => FaultsAccounted'
  <2> SUFFICES ASSUME TypeOK, FaultsAccounted, [Next]_vars PROVE FaultsAccounted'
    OBVIOUS
  <2>1. CASE add_page_fault_count
    BY <2>1 DEF add_page_fault_count, FaultsAccounted
  <2>2. ASSUME NEW d \in Dom, NEW mfn \in Mfn, NEW mem_counter \in MemCounter,
               MagicFault(d, mfn, mem_counter)
        PROVE  FaultsAccounted'
    <3> d \in {1, 2}
      BY DEF Dom
    <3>1. /\ tot_ref[1] \in Nat /\ tot_ref[2] \in Nat
          /\ node_count[1] \in Nat /\ node_count[2] \in Nat
          /\ hash_conflict_num \in Nat /\ tracked_aet_magic_count1 \in Nat
      BY DEF TypeOK, Dom
    <3>2. CASE Reference(d, mfn, mem_counter)
      <4>1. tot_ref' = [tot_ref EXCEPT ![d] = @ + 1]
        BY <3>2 DEF Reference, CountedOutcome, TypeOK
      <4>2. tot_ref'[1] + tot_ref'[2] = tot_ref[1] + tot_ref[2] + 1
        BY <3>1, <4>1 DEF TypeOK, Dom
      <4>3. /\ tracked_aet_magic_count1' = tracked_aet_magic_count1 + 1
            /\ UNCHANGED <<node_count, hash_conflict_num>>
        BY <3>2 DEF Reference, CountedOutcome, TypeOK
      <4>4. tot_ref'[1] \in Nat /\ tot_ref'[2] \in Nat
        BY <3>1, <4>1 DEF TypeOK, Dom
      <4>5. QED
        BY <3>1, <4>2, <4>3, <4>4 DEF FaultsAccounted
    <3>3. CASE Insert(d, mfn, mem_counter)
      <4>1. node_count' = [node_count EXCEPT ![d] = @ + 1]
        BY <3>3 DEF Insert, CountedOutcome, TypeOK
      <4>2. node_count'[1] + node_count'[2] = node_count[1] + node_count[2] + 1
        BY <3>1, <4>1 DEF TypeOK, Dom
      <4>3. /\ tracked_aet_magic_count1' = tracked_aet_magic_count1 + 1
            /\ UNCHANGED <<tot_ref, hash_conflict_num>>
        BY <3>3 DEF Insert, CountedOutcome, TypeOK
      <4>4. node_count'[1] \in Nat /\ node_count'[2] \in Nat
        BY <3>1, <4>1 DEF TypeOK, Dom
      <4>5. QED
        BY <3>1, <4>2, <4>3, <4>4 DEF FaultsAccounted
    <3>4. CASE Conflict(d, mfn)
      BY <3>1, <3>4 DEF Conflict, CountedOutcome, TypeOK, FaultsAccounted, Dom
    <3>5. CASE Spin(d, mfn, mem_counter)
      BY <3>5 DEF Spin, FaultsAccounted
    <3>6. QED
      BY <2>2, <3>2, <3>3, <3>4, <3>5 DEF MagicFault
  <2>3. CASE reset
    BY <2>3 DEF reset, ClearCounters, FaultsAccounted, Dom
  <2>4. CASE UNCHANGED vars
    BY <2>4 DEF vars, FaultsAccounted
  <2>5. QED
    BY <2>1, <2>2, <2>3, <2>4 DEF Next
<1>3. QED
  BY <1>1, <1>2, TypeCorrect, PTL DEF Spec

-----------------------------------------------------------------------------
\* The probe of a recorded frame stops at the frame's own node.
LEMMA HolderIsStop ==
  ASSUME NEW bucket, NEW mfn \in Mfn, BucketWellFormed(bucket, mfn % HASH),
         NEW p \in Pos, bucket[p].mfn = mfn
  PROVE  /\ ProbeStops(bucket, mfn) # {}
         /\ Least(ProbeStops(bucket, mfn)) = p
<1> DEFINE s == Least(ProbeStops(bucket, mfn))
<1>1. p \in ProbeStops(bucket, mfn)
  BY DEF ProbeStops
<1>2. /\ s \in Pos
      /\ bucket[s].mfn \in {mfn, 0}
      /\ \A q \in 0 .. (s - 1) : bucket[q].mfn \notin {mfn, 0}
  BY <1>1, StopProperties
<1>3. mfn # 0
  BY MfnAssumption
<1>4. \A q \in 0 .. (p - 1) : bucket[q].mfn \notin {0, mfn}
  BY <1>3 DEF BucketWellFormed
<1> HIDE DEF s
<1>5. ~ (s < p)
  BY <1>2, <1>4, HashAssumption DEF Pos
<1>6. ~ (p < s)
  BY <1>2, HashAssumption DEF Pos
<1>7. s = p
  BY <1>2, <1>5, <1>6, HashAssumption DEF Pos
<1>8. QED
  BY <1>1, <1>7 DEF s

\* A frame is recorded exactly when the probe finds it.
LEMMA FoundIffRecorded ==
  ASSUME HashWellFormed, NEW d \in Dom, NEW mfn \in Mfn
  PROVE  Found(d, mfn) <=> mfn \in Recorded(d)
<1>1. BucketWellFormed(Bucket(d, mfn), mfn % HASH)
  BY KeyType DEF HashWellFormed, Bucket
<1>2. ASSUME Found(d, mfn) PROVE mfn \in Recorded(d)
  BY <1>2, ProbeProperties DEF Found, Recorded, Holds, LastAccess
<1>3. ASSUME mfn \in Recorded(d) PROVE Found(d, mfn)
  <2>1. PICK p \in Pos : Bucket(d, mfn)[p].mfn = mfn
    BY <1>3 DEF Recorded, Holds
  <2>2. QED
    BY <1>1, <2>1, HolderIsStop DEF Found, HasStop, LastAccess, ProbePos
<1>4. QED
  BY <1>2, <1>3

\* Storing mfn records it, keeps every other recorded frame with its node and
\* records no other frame.
LEMMA StoreRecords ==
  ASSUME TypeOK, HashWellFormed, HashWellFormed',
         NEW d \in Dom, NEW mfn \in Mfn, NEW mem_counter \in MemCounter,
         HasStop(d, mfn), Store(d, mfn, mem_counter)
  PROVE  /\ Recorded(d)' = Recorded(d) \cup {mfn}
         /\ LastAccess(d, mfn)' =
              [mfn |-> mfn, mem_counter |-> mem_counter, pf |-> page_fault_count]
         /\ \A m \in Recorded(d) \ {mfn} : LastAccess(d, m)' = LastAccess(d, m)
         /\ \A e \in Dom \ {d} : Recorded(e)' = Recorded(e)
         /\ \A e \in Dom \ {d} : \A m \in Recorded(e) :
              LastAccess(e, m)' = LastAccess(e, m)
<1> DEFINE k0 == mfn % HASH
           p0 == ProbePos(d, mfn)
           node == [mfn |-> mfn, mem_counter |-> mem_counter, pf |-> page_fault_count]
<1>1. k0 \in Key /\ p0 \in Pos /\ mfn # 0
  BY KeyType, ProbeProperties, MfnAssumption
<1>2. \A e \in Dom, k \in Key, p \in Pos :
        /\ e = d /\ k = k0 /\ p = p0 => hns'[e][k][p] = node
        /\ ~ (e = d /\ k = k0 /\ p = p0) => hns'[e][k][p] = hns[e][k][p]
  BY StoreEffect
<1>3. hns[d][k0][p0].mfn \in {mfn, 0}
  BY ProbeProperties DEF LastAccess, Bucket
<1>4. node.mfn = mfn
  OBVIOUS
<1>5. \A e \in Dom, m \in Mfn :
        /\ m % HASH \in Key
        /\ BucketWellFormed(hns[e][m % HASH], m % HASH)
        /\ BucketWellFormed(hns'[e][m % HASH], m % HASH)
  BY KeyType DEF HashWellFormed
<1> HIDE DEF p0, node
<1>6. \A e \in Dom, m \in Mfn, p \in Pos :
        hns[e][m % HASH][p].mfn = m => LastAccess(e, m) = hns[e][m % HASH][p]
  BY <1>5, HolderIsStop DEF LastAccess, ProbePos, Bucket
<1>7. \A e \in Dom, m \in Mfn, p \in Pos :
        hns'[e][m % HASH][p].mfn = m => LastAccess(e, m)' = hns'[e][m % HASH][p]
  BY <1>5, HolderIsStop DEF LastAccess, ProbePos, Bucket
<1>8. \A e \in Dom, m \in Mfn : ~ (e = d /\ m = mfn) =>
        \A p \in Pos :
          /\ hns'[e][m % HASH][p].mfn = m <=> hns[e][m % HASH][p].mfn = m
          /\ hns[e][m % HASH][p].mfn = m =>
               hns'[e][m % HASH][p] = hns[e][m % HASH][p]
  <2> SUFFICES ASSUME NEW e \in Dom, NEW m \in Mfn, ~ (e = d /\ m = mfn), NEW p \in Pos
               PROVE  /\ hns'[e][m % HASH][p].mfn = m <=> hns[e][m % HASH][p].mfn = m
                      /\ hns[e][m % HASH][p].mfn = m =>
                           hns'[e][m % HASH][p] = hns[e][m % HASH][p]
    OBVIOUS
  <2>1. m # 0 /\ m % HASH \in Key
    BY <1>5, MfnAssumption
  <2>2. CASE e = d /\ m % HASH = k0 /\ p = p0
    BY <1>2, <1>3, <1>4, <2>1, <2>2
  <2>3. CASE ~ (e = d /\ m % HASH = k0 /\ p = p0)
    BY <1>2, <2>1, <2>3
  <2>4. QED
    BY <2>2, <2>3
<1>9. hns'[d][mfn % HASH][p0] = node
  BY <1>1, <1>2
<1>10. mfn \in Recorded(d)' /\ LastAccess(d, mfn)' = node
  BY <1>1, <1>4, <1>7, <1>9 DEF Recorded, Holds, Bucket
<1>11. \A e \in Dom, m \in Mfn : ~ (e = d /\ m = mfn) =>
         /\ m \in Recorded(e)' <=> m \in Recorded(e)
         /\ m \in Recorded(e) => LastAccess(e, m)' = LastAccess(e, m)
  <2> SUFFICES ASSUME NEW e \in Dom, NEW m \in Mfn, ~ (e = d /\ m = mfn)
               PROVE  /\ m \in Recorded(e)' <=> m \in Recorded(e)
                      /\ m \in Recorded(e) => LastAccess(e, m)' = LastAccess(e, m)
    OBVIOUS
  <2>a. /\ m \in Recorded(e) <=> \E p \in Pos : hns[e][m % HASH][p].mfn = m
        /\ m \in Recorded(e)' <=> \E p \in Pos : hns'[e][m % HASH][p].mfn = m
    BY DEF Recorded, Holds, Bucket
  <2>1. m \in Recorded(e)' <=> m \in Recorded(e)
    BY <1>8, <2>a
  <2>2. ASSUME m \in Recorded(e) PROVE LastAccess(e, m)' = LastAccess(e, m)
    <3>1. PICK p \in Pos : hns[e][m % HASH][p].mfn = m
      BY <2>a, <2>2
    <3>2. LastAccess(e, m) = hns[e][m % HASH][p]
      BY <1>6, <3>1
    <3>3. /\ hns'[e][m % HASH][p].mfn = m
          /\ hns'[e][m % HASH][p] = hns[e][m % HASH][p]
      BY <1>8, <3>1
    <3>4. LastAccess(e, m)' = hns'[e][m % HASH][p]
      BY <1>7, <3>3
    <3>5. QED
      BY <3>2, <3>3, <3>4
  <2>3. QED
    BY <2>1, <2>2
<1>12. \A e \in Dom : Recorded(e) \subseteq Mfn /\ Recorded(e)' \subseteq Mfn
  BY DEF Recorded
<1>13. QED
  BY <1>10, <1>11, <1>12 DEF node

\* A probe without a stop has met HASH_CONFLICT_NUM different recorded frames.
LEMMA FullBucket ==
  ASSUME TypeOK, HashWellFormed, NEW d \in Dom, NEW mfn \in Mfn, ~ HasStop(d, mfn)
  PROVE  \E f \in [1 .. HASH_CONFLICT_NUM -> Recorded(d)] :
           \A i, j \in 1 .. HASH_CONFLICT_NUM : f[i] = f[j] => i = j
<1> DEFINE k0 == mfn % HASH
           f == [i \in 1 .. HASH_CONFLICT_NUM |-> hns[d][k0][i - 1].mfn]
<1>1. k0 \in Key /\ \A i \in 1 .. HASH_CONFLICT_NUM : i - 1 \in Pos
  BY KeyType, HashAssumption DEF Pos
<1>2. ASSUME NEW p \in Pos
      PROVE  hns[d][k0][p].mfn \in Mfn \ {0}
  <2>1. hns[d][k0][p].mfn \notin {mfn, 0}
    BY DEF HasStop, ProbeStops, Bucket
  <2>2. hns[d][k0][p] \in hash_node
    BY <1>1 DEF TypeOK
  <2>3. QED
    BY <2>1, <2>2 DEF hash_node
<1>3. BucketWellFormed(hns[d][k0], k0)
  BY <1>1 DEF HashWellFormed
<1> HIDE DEF k0
<1>4. ASSUME NEW p \in Pos
      PROVE  /\ hns[d][k0][p].mfn % HASH = k0
             /\ \A q \in 0 .. (p - 1) : hns[d][k0][q].mfn # hns[d][k0][p].mfn
  BY <1>2, <1>3 DEF BucketWellFormed
<1>5. ASSUME NEW p \in Pos
      PROVE  hns[d][k0][p].mfn \in Recorded(d)
  BY <1>2, <1>4 DEF Recorded, Holds, Bucket
<1>6. f \in [1 .. HASH_CONFLICT_NUM -> Recorded(d)]
  BY <1>1, <1>5
<1>7. ASSUME NEW i \in 1 .. HASH_CONFLICT_NUM, NEW j \in 1 .. HASH_CONFLICT_NUM,
             f[i] = f[j], i # j
      PROVE  FALSE
  <2>1. i - 1 \in Pos /\ j - 1 \in Pos
    BY <1>1
  <2>2. \/ i - 1 \in 0 .. ((j - 1) - 1)
        \/ j - 1 \in 0 .. ((i - 1) - 1)
    BY <1>7, HashAssumption
  <2>3. QED
    BY <1>4, <1>7, <2>1, <2>2
<1>8. QED
  BY <1>6, <1>7

\* page_fault_count stays within its bound.
FaultCountBounded == page_fault_count \in 0 .. FaultBound

\* A store is the abstract recorder's Touch.
LEMMA StoreTouches ==
  ASSUME TypeOK, HashWellFormed, HashWellFormed', FaultCountBounded,
         NEW d \in Dom, NEW mfn \in Mfn, NEW mem_counter \in MemCounter,
         HasStop(d, mfn), Store(d, mfn, mem_counter)
  PROVE  Recorder!Touch(d, mfn)
<1> DEFINE a == [mem_counter |-> mem_counter, pf |-> page_fault_count]
<1>1. a \in Recorder!Access
  BY DEF Recorder!Access, FaultCountBounded
<1>2. Access(LastAccess(d, mfn))' = a
  BY StoreRecords DEF Access
<1>3. \A e \in Dom : \A m \in Recorded(e) :
        ~ (e = d /\ m = mfn) => Access(LastAccess(e, m))' = Access(LastAccess(e, m))
  BY StoreRecords DEF Access
<1>4. /\ Recorded(d)' = Recorded(d) \cup {mfn}
      /\ \A e \in Dom \ {d} : Recorded(e)' = Recorded(e)
  BY StoreRecords
<1>5. \A e \in Dom :
        /\ AbstractLast[e] = [m \in Recorded(e) |-> Access(LastAccess(e, m))]
        /\ DOMAIN AbstractLast[e] = Recorded(e)
        /\ AbstractLast'[e] = [m \in Recorded(e)' |-> Access(LastAccess(e, m))']
  BY DEF AbstractLast
<1> HIDE DEF a
<1>6. AbstractLast'[d] =
        [m \in DOMAIN AbstractLast[d] \cup {mfn} |->
           IF m = mfn THEN a ELSE AbstractLast[d][m]]
  <2>1. ASSUME NEW m \in Recorded(d)'
        PROVE  Access(LastAccess(d, m))' = IF m = mfn THEN a ELSE AbstractLast[d][m]
    <3>1. CASE m = mfn
      BY <1>2, <3>1
    <3>2. CASE m # mfn
      <4>1. m \in Recorded(d)
        BY <1>4, <3>2
      <4>2. Access(LastAccess(d, m))' = Access(LastAccess(d, m))
        BY <1>3, <3>2, <4>1
      <4>3. AbstractLast[d][m] = Access(LastAccess(d, m))
        BY <1>5, <4>1
      <4>4. QED
        BY <3>2, <4>2, <4>3
    <3>3. QED
      BY <3>1, <3>2
  <2>2. [m \in Recorded(d)' |-> Access(LastAccess(d, m))'] =
          [m \in Recorded(d)' |-> IF m = mfn THEN a ELSE AbstractLast[d][m]]
    BY <2>1
  <2>3. Recorded(d)' = DOMAIN AbstractLast[d] \cup {mfn}
    BY <1>4, <1>5
  <2>4. AbstractLast'[d] = [m \in Recorded(d)' |-> Access(LastAccess(d, m))']
    BY <1>5
  <2>5. QED
    BY <2>2, <2>3, <2>4, Zenon
<1>7. ASSUME NEW e \in Dom \ {d}
      PROVE  AbstractLast'[e] = AbstractLast[e]
  <2>1. \A m \in Recorded(e) : Access(LastAccess(e, m))' = Access(LastAccess(e, m))
    BY <1>3
  <2>2. Recorded(e)' = Recorded(e)
    BY <1>4
  <2>3. [m \in Recorded(e) |-> Access(LastAccess(e, m))'] =
          [m \in Recorded(e) |-> Access(LastAccess(e, m))]
    BY <2>1
  <2>4. /\ AbstractLast[e] = [m \in Recorded(e) |-> Access(LastAccess(e, m))]
        /\ AbstractLast'[e] = [m \in Recorded(e)' |-> Access(LastAccess(e, m))']
    BY <1>5
  <2>5. QED
    BY <2>2, <2>3, <2>4, Zenon
<1>8. AbstractLast' =
        [AbstractLast EXCEPT ![d] =
           [m \in DOMAIN AbstractLast[d] \cup {mfn} |->
              IF m = mfn THEN a ELSE AbstractLast[d][m]]]
  <2>1. /\ AbstractLast = [e \in Dom |-> AbstractLast[e]]
        /\ AbstractLast' = [e \in Dom |-> AbstractLast'[e]]
    BY DEF AbstractLast
  <2>2. QED
    BY <1>6, <1>7, <2>1
<1>9. QED
  BY <1>1, <1>8 DEF Recorder!Touch

\* The hash of aet.c implements the abstract recorder: every step of the code's
\* model is a step of the recorder, or changes nothing the recorder shows.
THEOREM HashImplementsRecorder == Spec => ImplementsRecorder
<1>1. Init => Recorder!Init
  <2> SUFFICES ASSUME Init PROVE Recorder!Init
    OBVIOUS
  <2>1. ASSUME NEW d \in Dom, NEW mfn \in Mfn PROVE mfn \notin Recorded(d)
    BY KeyType, MfnAssumption
       DEF Init, EmptyTable, EmptyNode, Recorded, Holds, Bucket
  <2>2. \A d \in Dom : Recorded(d) = {}
    BY <2>1 DEF Recorded
  <2>3. AbstractLast = [d \in Dom |-> [mfn \in {} |-> [mem_counter |-> 0, pf |-> 0]]]
    BY <2>2 DEF AbstractLast
  <2>4. QED
    BY <2>3 DEF Init, Recorder!Init
<1>2. Init => FaultCountBounded
  BY BoundAssumption DEF Init, FaultCountBounded
<1>3. TypeOK /\ FaultCountBounded /\ [Next]_vars => FaultCountBounded'
  <2> SUFFICES ASSUME TypeOK, FaultCountBounded, [Next]_vars
               PROVE  FaultCountBounded'
    OBVIOUS
  <2>1. CASE add_page_fault_count
    BY <2>1, BoundAssumption DEF TypeOK, FaultCountBounded, add_page_fault_count
  <2>2. ASSUME NEW d \in Dom, NEW mfn \in Mfn, NEW mem_counter \in MemCounter,
               MagicFault(d, mfn, mem_counter)
        PROVE  UNCHANGED page_fault_count
    BY <2>2 DEF MagicFault, Reference, Insert, Conflict, Spin, CountedOutcome
  <2>3. CASE reset
    BY <2>3, BoundAssumption DEF FaultCountBounded, reset, ClearCounters
  <2>4. CASE UNCHANGED vars
    BY <2>4 DEF vars, FaultCountBounded
  <2>5. QED
    BY <2>1, <2>2, <2>3, <2>4 DEF Next, FaultCountBounded
<1>4. TypeOK /\ HashWellFormed /\ HashWellFormed' /\ FaultCountBounded /\ [Next]_vars
        => [Recorder!Next]_<<AbstractLast, tot_ref, hash_conflict_num>>
  <2> SUFFICES ASSUME TypeOK, HashWellFormed, HashWellFormed', FaultCountBounded,
                      [Next]_vars
               PROVE  [Recorder!Next]_<<AbstractLast, tot_ref, hash_conflict_num>>
    OBVIOUS
  <2> DEFINE shown == <<AbstractLast, tot_ref, hash_conflict_num>>
  <2>1. UNCHANGED hns => UNCHANGED AbstractLast
    BY DEF AbstractLast, Recorded, Holds, Bucket, LastAccess, ProbePos
  <2>2. CASE add_page_fault_count \/ UNCHANGED vars
    BY <2>1, <2>2 DEF add_page_fault_count, vars
  <2>3. ASSUME NEW d \in Dom, NEW mfn \in Mfn, NEW mem_counter \in MemCounter,
               MagicFault(d, mfn, mem_counter)
        PROVE  [Recorder!Next]_shown
    <3>1. DOMAIN AbstractLast[d] = Recorded(d)
      BY DEF AbstractLast
    <3>2. CASE Reference(d, mfn, mem_counter)
      <4>1. Recorder!Touch(d, mfn)
        BY <3>2, StoreTouches DEF Reference, Found
      <4>2. mfn \in DOMAIN AbstractLast[d]
        BY <3>1, <3>2, FoundIffRecorded DEF Reference
      <4>3. Recorder!Again(d, mfn)
        BY <3>2, <4>1, <4>2 DEF Reference, CountedOutcome, Recorder!Again, TypeOK
      <4>4. QED
        BY <4>3 DEF Recorder!Next
    <3>3. CASE Insert(d, mfn, mem_counter)
      <4>1. Recorder!Touch(d, mfn)
        BY <3>3, StoreTouches DEF Insert
      <4>2. mfn \notin DOMAIN AbstractLast[d]
        BY <3>1, <3>3, FoundIffRecorded DEF Insert
      <4>3. Recorder!Remember(d, mfn)
        BY <3>3, <4>1, <4>2 DEF Insert, CountedOutcome, Recorder!Remember, TypeOK
      <4>4. QED
        BY <4>3 DEF Recorder!Next
    <3>4. CASE Conflict(d, mfn)
      <4>1. ~ HasStop(d, mfn) /\ UNCHANGED <<hns, tot_ref>>
        BY <3>4 DEF Conflict, CountedOutcome, TypeOK
      <4>2. mfn \notin DOMAIN AbstractLast[d]
        BY <3>1, <4>1, FoundIffRecorded DEF Found
      <4>3. \E f \in [1 .. HASH_CONFLICT_NUM -> DOMAIN AbstractLast[d]] :
              \A i, j \in 1 .. HASH_CONFLICT_NUM : f[i] = f[j] => i = j
        BY <3>1, <4>1, FullBucket
      <4>4. Recorder!Reject(d, mfn)
        BY <2>1, <3>4, <4>1, <4>2, <4>3 DEF Conflict, CountedOutcome, Recorder!Reject
      <4>5. QED
        BY <4>4 DEF Recorder!Next
    <3>5. CASE Spin(d, mfn, mem_counter)
      BY <2>1, <3>5 DEF Spin
    <3>6. QED
      BY <2>3, <3>2, <3>3, <3>4, <3>5 DEF MagicFault
  <2>4. CASE reset
    <3>1. ASSUME NEW d \in Dom, NEW mfn \in Mfn PROVE mfn \notin Recorded(d)'
      BY <2>4, KeyType, MfnAssumption
         DEF reset, ClearCounters, EmptyTable, EmptyNode, Recorded, Holds, Bucket
    <3>2. \A d \in Dom : Recorded(d)' = {}
      BY <3>1 DEF Recorded
    <3>3. AbstractLast' =
            [d \in Dom |-> [mfn \in {} |-> [mem_counter |-> 0, pf |-> 0]]]
      BY <3>2 DEF AbstractLast
    <3>4. QED
      BY <2>4, <3>3 DEF reset, ClearCounters, Recorder!Forget, Recorder!Next
  <2>5. QED
    BY <2>2, <2>3, <2>4 DEF Next
<1>5. QED
  BY <1>1, <1>2, <1>3, <1>4, TypeCorrect, HashIsAMap, PTL
     DEF Spec, ImplementsRecorder, Recorder!Spec

-----------------------------------------------------------------------------
\* After WORD_BITS rounds the first loop of domain_value_to_index compares the
\* value with the largest word it ever reaches, DOMAIN_SIZE below the top.
LEMMA LastRound ==
  ASSUME DOMAIN_SIZE <= 2^WORD_BITS
  PROVE  Reached(WORD_BITS, DOMAIN_SIZE) = 2^WORD_BITS - DOMAIN_SIZE
<1>1. PICK M \in Nat \ {0} : M = 2^WORD_BITS
  BY WordAssumption
<1>2. DOMAIN_SIZE \in 1 .. M
  BY <1>1, DomainAssumption
<1>3. LocAfter(WORD_BITS) = M - DOMAIN_SIZE
  <2>1. \A n \in 1 .. M : (n * (M - 1)) % M = M - n
    OBVIOUS
  <2>2. LocAfter(WORD_BITS) = (DOMAIN_SIZE * (M - 1)) % M
    BY <1>1 DEF LocAfter, Unsigned
  <2>3. QED
    BY <1>2, <2>1, <2>2
<1>4. StepAfter(WORD_BITS) = 0
  BY <1>1 DEF StepAfter, Unsigned
<1>5. Reached(WORD_BITS, DOMAIN_SIZE) = (M - DOMAIN_SIZE) % M
  BY <1>1, <1>2, <1>3, <1>4 DEF Reached, Unsigned
<1>6. QED
  BY <1>1, <1>2, <1>5

\* The loop of domain_value_to_index exits for every value that is not within
\* DOMAIN_SIZE of the top of the word.
LEMMA SmallValuesTerminate ==
  ASSUME NEW value \in Nat, value + DOMAIN_SIZE <= 2^WORD_BITS
  PROVE  Terminates(value)
<1>1. PICK M \in Nat \ {0} : M = 2^WORD_BITS
  BY WordAssumption
<1>2. Reached(WORD_BITS, DOMAIN_SIZE) = M - DOMAIN_SIZE
  BY <1>1, DomainAssumption, LastRound
<1>3. ~ (Reached(WORD_BITS, DOMAIN_SIZE) < value)
  BY <1>1, <1>2, DomainAssumption
<1>4. QED
  BY <1>3, WordAssumption DEF Terminates, FirstLoopExits

\* The unsigned subtractions of track_aet_fault and add_to_aet_histogram are true
\* differences as long as neither goes below zero.
LEMMA TrueDifference ==
  ASSUME NEW c \in Nat, NEW m \in Nat, m <= c, c < 2^WORD_BITS
  PROVE  Unsigned(c - m) = c - m
<1>1. PICK M \in Nat \ {0} : M = 2^WORD_BITS
  BY WordAssumption
<1>2. QED
  BY <1>1 DEF Unsigned

\* A handler caught in domain_value_to_index has subtracted more than the counter
\* it read: for every width of the word and every size of a domain of buckets, no
\* sample without that underflow keeps track_aet_fault from returning.
THEOREM SpinsOnlyAfterUnderflow == Spec => SpinsOnlyOnWrap
<1>1. ASSUME TypeOK, NEW d \in Dom, NEW mfn \in Mfn, NEW mem_counter \in MemCounter,
             Spin(d, mfn, mem_counter)
      PROVE  mem_counter < mc_diff(LastAccess(d, mfn))
  <2>1. PICK node : node = LastAccess(d, mfn)
    OBVIOUS
  <2>2. PICK M \in Nat \ {0} : M = 2^WORD_BITS
    BY WordAssumption
  <2>3. node.mem_counter \in Nat /\ node.pf \in Nat
    <3>1. mfn % HASH \in Key /\ ProbePos(d, mfn) \in Pos
      BY <1>1, KeyType, ProbeProperties DEF Spin, Found
    <3>2. node \in hash_node
      BY <1>1, <2>1, <3>1 DEF TypeOK, LastAccess, Bucket
    <3>3. \A c \in MemCounter : c \in Nat
      BY <2>2, MemCounterAssumption DEF Word
    <3>4. QED
      BY <3>2, <3>3 DEF hash_node
  <2>4. mem_counter \in Nat /\ mem_counter + DOMAIN_SIZE <= M /\ mem_counter < M
    BY <2>2, MemCounterAssumption, DomainAssumption DEF Word
  <2>5. mc_diff(node) \in Nat
    <3>1. page_fault_count \in Nat /\ page_fault_count - node.pf \in Int
      BY <1>1, <2>3 DEF TypeOK
    <3>2. PICK x \in Int : x = page_fault_count - node.pf
      BY <3>1
    <3>3. x % M \in Nat
      BY <3>2
    <3>4. ((x % M) * FaultCost) % M \in Nat
      BY <3>3 DEF FaultCost
    <3>5. QED
      BY <2>2, <3>2, <3>4 DEF mc_diff, Unsigned
  <2>6. SUFFICES ASSUME mc_diff(node) <= mem_counter PROVE FALSE
    BY <2>1, <2>4, <2>5
  <2>7. PICK new_mc : new_mc = Corrected(node, mem_counter)
    OBVIOUS
  <2>8. new_mc = mem_counter - mc_diff(node)
    BY <2>2, <2>4, <2>5, <2>6, <2>7, TrueDifference DEF Corrected
  <2>9. new_mc \in Nat /\ new_mc <= mem_counter
    BY <2>4, <2>5, <2>6, <2>8
  <2>10. /\ ~ (node.mem_counter > new_mc)
         /\ ~ Terminates(Unsigned(new_mc - node.mem_counter))
    BY <1>1, <2>1, <2>7 DEF Spin, Diverges, Compresses
  <2>11. Unsigned(new_mc - node.mem_counter) = new_mc - node.mem_counter
    <3>1. node.mem_counter <= new_mc /\ new_mc < 2^WORD_BITS
      BY <2>2, <2>3, <2>4, <2>9, <2>10
    <3>2. QED
      BY <2>3, <2>9, <3>1, TrueDifference
  <2>12. /\ new_mc - node.mem_counter \in Nat
         /\ (new_mc - node.mem_counter) + DOMAIN_SIZE <= M
    BY <2>3, <2>4, <2>9, <2>10, DomainAssumption
  <2>13. QED
    BY <2>2, <2>10, <2>11, <2>12, SmallValuesTerminate
<1>2. TypeOK /\ [Next]_vars
        => [\A d \in Dom, mfn \in Mfn, mem_counter \in MemCounter :
              Spin(d, mfn, mem_counter)
                => mem_counter < mc_diff(LastAccess(d, mfn))]_vars
  BY <1>1
<1>3. QED
  BY <1>2, TypeCorrect, PTL DEF Spec, SpinsOnlyOnWrap

-----------------------------------------------------------------------------
\* A fault handled in track_aet_fault puts at most one sample into the histogram,
\* and counts a reference with it.
LEMMA SampleWithReference ==
  ASSUME TypeOK, NEW d \in Dom, NEW mfn \in Mfn, NEW mem_counter \in MemCounter,
         Reference(d, mfn, mem_counter)
  PROVE  /\ tot_ref' = [tot_ref EXCEPT ![d] = @ + 1]
         /\ \/ UNCHANGED aet_hist
            \/ \E i \in Index : aet_hist' = [aet_hist EXCEPT ![d][i] = @ + 1]
<1>1. tot_ref' = [tot_ref EXCEPT ![d] = @ + 1]
  BY DEF Reference, CountedOutcome
<1>2. PICK node, new_mc :
        node = LastAccess(d, mfn) /\ new_mc = Corrected(LastAccess(d, mfn), mem_counter)
  OBVIOUS
<1>3. PICK value : value = Unsigned(new_mc - node.mem_counter)
  OBVIOUS
<1>4. CASE Compresses(node.mem_counter, new_mc)
           /\ domain_value_to_index(value) < MAX_PAGE_NUM
  <2>1. Terminates(value)
    BY <1>2, <1>3, <1>4 DEF Reference, Diverges
  <2>2. domain_value_to_index(value) \in Index
    BY <1>4, <2>1, IndexType, SizeAssumption DEF Index
  <2>3. aet_hist' = [aet_hist EXCEPT ![d][domain_value_to_index(value)] = @ + 1]
    BY <1>2, <1>3, <1>4 DEF Reference, add_to_aet_histogram
  <2>4. QED
    BY <1>1, <2>2, <2>3
<1>5. CASE ~ (Compresses(node.mem_counter, new_mc)
              /\ domain_value_to_index(value) < MAX_PAGE_NUM)
  BY <1>1, <1>2, <1>3, <1>5 DEF Reference, add_to_aet_histogram
<1>6. QED
  BY <1>4, <1>5

\* aet_process never finds more samples in aet_hist_ than tot_ref_ counts
\* references, for histograms of any length: the sum is compared by induction on
\* the buckets (SumIncrement).
THEOREM SamplesWithinReferences == Spec => []HistogramWithinReferences
<1>1. IsFiniteSet(Index)
  BY SizeAssumption, FS_Interval DEF Index
<1>2. Init => HistogramWithinReferences
  <2> SUFFICES ASSUME Init, NEW d \in Dom PROVE SumFunction(aet_hist[d]) <= tot_ref[d]
    BY DEF HistogramWithinReferences
  <2>1. aet_hist[d] = [i \in Index |-> 0] /\ tot_ref[d] = 0
    BY DEF Init
  <2>2. QED
    BY <1>1, <2>1, SumZero
<1>3. ASSUME TypeOK, HistogramWithinReferences, [Next]_vars
      PROVE  HistogramWithinReferences'
  <2>1. CASE UNCHANGED <<aet_hist, tot_ref>>
    BY <1>3, <2>1 DEF HistogramWithinReferences
  <2>2. ASSUME NEW d \in Dom, NEW mfn \in Mfn, NEW mem_counter \in MemCounter,
               Reference(d, mfn, mem_counter)
        PROVE  HistogramWithinReferences'
    <3> SUFFICES ASSUME NEW e \in Dom PROVE SumFunction(aet_hist'[e]) <= tot_ref'[e]
      BY DEF HistogramWithinReferences
    <3>1. /\ aet_hist[e] \in [Index -> Nat] /\ tot_ref[e] \in Nat
          /\ SumFunction(aet_hist[e]) <= tot_ref[e]
      BY <1>3 DEF TypeOK, HistogramWithinReferences
    <3>2. 0 \in Index
      BY SizeAssumption DEF Index
    <3>3. SumFunction(aet_hist[e]) \in Nat
      BY <1>1, <3>1, <3>2, SumIncrement
    <3>4. tot_ref'[e] = tot_ref[e] + 1 \/ (e # d /\ tot_ref'[e] = tot_ref[e])
      BY <1>3, <2>2, SampleWithReference DEF TypeOK
    <3>5. CASE aet_hist'[e] = aet_hist[e]
      BY <3>1, <3>3, <3>4, <3>5
    <3>6. CASE aet_hist'[e] # aet_hist[e]
      <4>1. PICK i \in Index : e = d /\ aet_hist'[e] = [aet_hist[e] EXCEPT ![i] = @ + 1]
        <5>1. aet_hist \in [Dom -> [Index -> Nat]]
          BY <1>3 DEF TypeOK
        <5>2. aet_hist' # aet_hist
          BY <3>6
        <5>3. PICK i \in Index : aet_hist' = [aet_hist EXCEPT ![d][i] = @ + 1]
          BY <1>3, <2>2, <5>2, SampleWithReference
        <5>4. e = d
          BY <3>6, <5>1, <5>3
        <5>5. aet_hist'[e] = [aet_hist[e] EXCEPT ![i] = @ + 1]
          BY <5>1, <5>3, <5>4
        <5>6. QED
          BY <5>4, <5>5
      <4>2. SumFunction(aet_hist'[e]) = SumFunction(aet_hist[e]) + 1
        BY <1>1, <3>1, <4>1, SumIncrement
      <4>3. QED
        BY <3>1, <3>3, <3>4, <4>1, <4>2
    <3>7. QED
      BY <3>5, <3>6
  <2>3. CASE reset
    <3> SUFFICES ASSUME NEW d \in Dom PROVE SumFunction(aet_hist'[d]) <= tot_ref'[d]
      BY DEF HistogramWithinReferences
    <3>1. aet_hist'[d] = [i \in Index |-> 0] /\ tot_ref'[d] = 0
      BY <2>3 DEF reset, ClearCounters
    <3>2. QED
      BY <1>1, <3>1, SumZero
  <2>4. ASSUME NEW d \in Dom, NEW mfn \in Mfn, NEW mem_counter \in MemCounter,
               MagicFault(d, mfn, mem_counter)
        PROVE  Reference(d, mfn, mem_counter) \/ UNCHANGED <<aet_hist, tot_ref>>
    BY <1>3, <2>4 DEF MagicFault, Insert, Conflict, Spin, CountedOutcome, TypeOK
  <2>5. CASE add_page_fault_count \/ UNCHANGED vars
    BY <2>1, <2>5 DEF add_page_fault_count, vars
  <2>6. QED
    BY <1>3, <2>1, <2>2, <2>3, <2>4, <2>5 DEF Next
<1>4. QED
  BY <1>2, <1>3, TypeCorrect, PTL DEF Spec
=============================================================================
