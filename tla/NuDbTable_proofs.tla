-------------------------- MODULE NuDbTable_proofs --------------------------
(***************************************************************************)
(* Proofs about NuDbTable, for any keys, prefixes, values and capacity.    *)
(***************************************************************************)
EXTENDS NuDbTable, WellFoundedInduction, FunctionTheorems, SequenceTheorems, TLAPS

-----------------------------------------------------------------------------
(* The bucket table                                                        *)

(* Induction over a set of numbers.                                        *)
LEMMA NatSetInduction ==
  ASSUME NEW T \in SUBSET Nat, 0 \in T, \A k \in T : k + 1 \in T
  PROVE  \A k \in Nat : k \in T
<1> DEFINE R == OpToRel(<, Nat)
           Out == Nat \ T
<1>1. IsWellFoundedOn(R, Nat)
  BY NatLessThanWellFounded
<1>2. R = {ss \in Nat \X Nat : ss[1] < ss[2]}
  BY Zenon DEF OpToRel
<1> HIDE DEF R
<1>3. \A j, k \in Nat : j < k => <<j, k>> \in R
  BY <1>2
<1> SUFFICES ASSUME Out # {} PROVE FALSE
  OBVIOUS
<1>4. PICK k \in Out : \A j \in Out : ~(<<j, k>> \in R)
  BY <1>1, WFMin, Zenon
<1>5. k \in Nat /\ k # 0 /\ k - 1 \in Nat /\ k - 1 < k /\ (k - 1) + 1 = k
  OBVIOUS
<1>6. k - 1 \in T
  BY <1>3, <1>4, <1>5
<1> QED
  BY <1>5, <1>6

(* The doubling loop (writer.rs 205-208, keyfile.rs 109-112) ends, at 1 or *)
(* at the double of a number below n: it is a function of n, so that the   *)
(* sink and the shard come to the same modulus.                            *)
LEMMA ModulusFacts ==
  ASSUME NEW n \in Nat \ {0}
  PROVE  /\ Modulus(n) \in Nat /\ Modulus(n) >= n
         /\ Modulus(n) = 1 \/ \E half \in Nat : Modulus(n) = 2 * half /\ half < n
<1> DEFINE doubled[m \in 1..2 * n] == IF m < n THEN doubled[2 * m] ELSE m
           Step(f) == [m \in 1..2 * n |-> IF m < n THEN f[2 * m] ELSE m]
           From(f, k) == \A m \in 1..2 * n : m + k >= n => f[m] = Step(f)[m]
           Defined == {k \in Nat : \E f \in [1..2 * n -> Nat] : From(f, k)}
           Fine(m, v) == v \in Nat /\ v >= n /\ (v = m \/ \E half \in Nat : v = 2 * half /\ half < n)
           FineFrom == {k \in Nat : \A m \in 1..2 * n : m + k >= n => Fine(m, doubled[m])}
<1>1. \A m \in 1..2 * n : m < n => 2 * m \in 1..2 * n /\ 2 * m >= m + 1
  OBVIOUS
<1>2. n \in Defined
  <2>1. 0 \in Defined
    <3> DEFINE f == [m \in 1..2 * n |-> m]
    <3>1. f \in [1..2 * n -> Nat] /\ From(f, 0)
      OBVIOUS
    <3> HIDE DEF f, From
    <3> QED
      BY <3>1
  <2>2. ASSUME NEW k \in Defined PROVE k + 1 \in Defined
    <3>1. PICK f \in [1..2 * n -> Nat] : From(f, k)
      OBVIOUS
    <3> DEFINE g == Step(f)
    <3>2. g \in [1..2 * n -> Nat]
      BY <1>1
    <3>3. ASSUME NEW m \in 1..2 * n, m + (k + 1) >= n
          PROVE  g[m] = Step(g)[m]
      <4>1. CASE m < n
        <5>1. 2 * m \in 1..2 * n /\ 2 * m + k >= n
          BY <1>1, <3>3, <4>1
        <5>2. f[2 * m] = g[2 * m]
          BY <3>1, <5>1
        <5> QED
          BY <4>1, <5>2
      <4>2. CASE ~(m < n)
        BY <4>2
      <4> QED
        BY <4>1, <4>2
    <3>4. From(g, k + 1)
      BY <3>3
    <3>5. k + 1 \in Nat
      OBVIOUS
    <3> HIDE DEF g, From
    <3> QED
      BY <3>2, <3>4, <3>5
  <2> HIDE DEF Defined
  <2>3. Defined \in SUBSET Nat
    BY DEF Defined
  <2> QED
    BY <2>1, <2>2, <2>3, NatSetInduction
<1>3. doubled = Step(doubled)
  <2>1. PICK f \in [1..2 * n -> Nat] : From(f, n)
    BY <1>2
  <2>2. f = Step(f)
    BY <2>1
  <2> QED
    BY <2>2
<1>4. n \in FineFrom
  <2> HIDE DEF doubled
  <2>0. \A m \in 1..2 * n : doubled[m] = IF m < n THEN doubled[2 * m] ELSE m
    BY <1>3
  <2>1. 0 \in FineFrom
    BY <2>0
  <2>2. ASSUME NEW k \in FineFrom PROVE k + 1 \in FineFrom
    <3> SUFFICES ASSUME NEW m \in 1..2 * n, m + (k + 1) >= n PROVE Fine(m, doubled[m])
      OBVIOUS
    <3>1. CASE m < n
      <4>1. 2 * m \in 1..2 * n /\ 2 * m + k >= n
        BY <1>1, <3>1
      <4>2. Fine(2 * m, doubled[2 * m])
        BY <4>1
      <4> QED
        BY <2>0, <3>1, <4>2
    <3>2. CASE ~(m < n)
      BY <2>0, <3>2
    <3> QED
      BY <3>1, <3>2
  <2>3. FineFrom \in SUBSET Nat
    OBVIOUS
  <2> HIDE DEF FineFrom
  <2> QED
    BY <2>1, <2>2, <2>3, NatSetInduction
<1>5. Fine(1, doubled[1])
  BY <1>4
<1> HIDE DEF doubled
<1>6. Modulus(n) = doubled[1]
  BY DEF Modulus, doubled
<1> QED
  BY <1>5, <1>6

\* The bucket a prefix goes to exists (writer.rs 212-215, keyfile.rs 119-125),
\* for any modulus the doubling loop can end with: at least the number of
\* buckets, and its half is below.  The fold subtracts modulus / 2 only
\* from what is above it, and what is left is below the last bucket.
LEMMA BucketInRange ==
  ASSUME NEW nhash \in Nat, NEW n \in Nat \ {0}, NEW modulus \in Nat,
         modulus >= n,
         modulus = 1 \/ \E half \in Nat : modulus = 2 * half /\ half < n
  PROVE  Bucket(nhash, modulus, n) \in 0..n - 1
<1> DEFINE b == nhash % modulus
<1>1. b \in 0..modulus - 1
  BY SMT
<1>2. CASE b < n
  BY <1>1, <1>2 DEF Bucket
<1>3. CASE b >= n
  <2>1. PICK half \in Nat : modulus = 2 * half /\ half < n
    BY <1>1, <1>3
  <2>2. modulus \div 2 = half
    BY <2>1
  <2>3. b - half \in 0..n - 1
    BY <1>1, <1>3, <2>1
  <2> QED
    BY <1>3, <2>2, <2>3 DEF Bucket
<1> QED
  BY <1>1, <1>2, <1>3

\* With the modulus of the loop: sink and shard go to a bucket of the table.
LEMMA BucketExists ==
  ASSUME NEW nhash \in Nat, NEW n \in Nat \ {0}
  PROVE  Bucket(nhash, Modulus(n), n) \in 0..n - 1
BY ModulusFacts, BucketInRange

LEMMA NumBucketsFacts == \A n \in Nat : NumBuckets(n) \in Nat \ {0}
<1> SUFFICES ASSUME NEW n \in Nat, n # 0 PROVE NumBuckets(n) \in Nat \ {0}
  BY DEF NumBuckets
<1> DEFINE x == 2 * n + Capacity - 1
<1>1. x \in Nat /\ Capacity \in Nat \ {0} /\ x >= Capacity
  BY TableAssumption
<1> HIDE DEF x
<1>2. x \div Capacity \in Nat /\ x \div Capacity >= 1
  BY <1>1
<1> QED
  BY <1>2 DEF NumBuckets, x

(* The last block of a chain takes at least one entry and at most as many  *)
(* as fit.                                                                 *)
LEMMA LastBlockStart ==
  ASSUME NEW n \in Nat \ {0}
  PROVE  /\ ((n - 1) \div Capacity) * Capacity \in 0..n - 1
         /\ n - ((n - 1) \div Capacity) * Capacity <= Capacity
<1>1. Capacity \in Nat \ {0} /\ n - 1 \in Nat
  BY TableAssumption
<1> QED
  BY <1>1, SMT

-----------------------------------------------------------------------------
\* The counter from which the sink takes the offsets of entries and of spill
\* blocks is always the position at which the bytes are written (write_node,
\* write_spill_chain).
THEOREM OffsetsCorrect == Spec => []CounterExact
<1>1. Init => CounterExact
  BY DEF Init, CounterExact
<1>2. CounterExact /\ [Next]_vars => CounterExact'
  <2> SUFFICES ASSUME CounterExact, [Next]_vars PROVE CounterExact'
    OBVIOUS
  <2>1. ASSUME NEW k \in Key, NEW v \in Value, WriteNode(k, v) PROVE CounterExact'
    BY <2>1 DEF WriteNode, CounterExact
  <2>2. CASE WriteSpillBlock
    BY <2>2 DEF WriteSpillBlock, CounterExact
  <2>3. CASE UNCHANGED <<length, offset>>
    BY <2>3 DEF CounterExact
  <2> QED
    BY <2>1, <2>2, <2>3
    DEF Next, vars, store, SizeTable, PlaceEntry, SplitBucket, ChainWritten, WriteKeyFile, Fetch, Found,
        NextBlock, Absent
<1> QED
  BY <1>1, <1>2, PTL DEF Spec

-----------------------------------------------------------------------------
(* Cutting and sorting sequences of entries                                *)

\* The two parts of a sequence, and that the elements of s are those of t and u.
Front(s, k) == SubSeq(s, 1, k)
Back(s, k) == SubSeq(s, k + 1, Len(s))

Cuts(s, t, u) ==
  /\ \A i \in DOMAIN t : \E h \in DOMAIN s : t[i] = s[h]
  /\ \A i \in DOMAIN u : \E h \in DOMAIN s : u[i] = s[h]
  /\ \A h \in DOMAIN s : \/ \E i \in DOMAIN t : t[i] = s[h]
                         \/ \E i \in DOMAIN u : u[i] = s[h]

LEMMA CutArithmetic ==
  ASSUME NEW n \in Nat, NEW k \in 0..n
  PROVE  /\ k \in Nat /\ k + 1 \in Int /\ n \in Int /\ 1..k \subseteq 1..n
         /\ (IF k + 1 <= n THEN n - (k + 1) + 1 ELSE 0) = n - k
         /\ 1..(n - (k + 1) + 1) = 1..(n - k)
         /\ \A i \in 1..(n - k) : (k + 1) + i - 1 = k + i /\ k + i \in 1..n
         /\ \A i \in 1..n : i \in 1..k \/ (i - k \in 1..(n - k) /\ k + (i - k) = i)
         /\ \A i \in (k + 1)..n : i \in 1..n
OBVIOUS

LEMMA CutFacts ==
  ASSUME NEW S, NEW s \in Seq(S), NEW k \in 0..Len(s)
  PROVE  /\ Front(s, k) \in Seq(S) /\ Len(Front(s, k)) = k
         /\ Back(s, k) \in Seq(S) /\ Len(Back(s, k)) = Len(s) - k
         /\ Cuts(s, Front(s, k), Back(s, k))
<1> DEFINE n == Len(s)
           t == Front(s, k)
           u == Back(s, k)
<1>1. n \in Nat /\ k \in 0..n /\ DOMAIN s = 1..n /\ \A i \in 1..n : s[i] \in S
  OBVIOUS
<1>2. /\ t = SubSeq(s, 1, k) /\ u = SubSeq(s, k + 1, n)
  BY DEF Front, Back
<1> HIDE DEF n, t, u
<1>3. /\ SubSeq(s, 1, k) \in Seq(S) /\ Len(SubSeq(s, 1, k)) = IF 1 <= k THEN k - 1 + 1 ELSE 0
      /\ \A i \in 1..(k - 1 + 1) : SubSeq(s, 1, k)[i] = s[1 + i - 1]
  BY <1>1, CutArithmetic, SubSeqProperties
<1>4. /\ SubSeq(s, k + 1, n) \in Seq(S)
      /\ Len(SubSeq(s, k + 1, n)) = IF k + 1 <= n THEN n - (k + 1) + 1 ELSE 0
      /\ \A i \in 1..(n - (k + 1) + 1) : SubSeq(s, k + 1, n)[i] = s[(k + 1) + i - 1]
  BY <1>1, CutArithmetic, SubSeqProperties
<1>5. t \in Seq(S) /\ Len(t) = k /\ \A i \in 1..k : t[i] = s[i]
  <2>1. (IF 1 <= k THEN k - 1 + 1 ELSE 0) = k /\ 1..(k - 1 + 1) = 1..k
    BY <1>1, CutArithmetic
  <2>2. \A i \in 1..k : 1 + i - 1 = i
    BY <1>1
  <2>3. /\ t \in Seq(S) /\ Len(t) = IF 1 <= k THEN k - 1 + 1 ELSE 0
        /\ \A i \in 1..(k - 1 + 1) : t[i] = s[1 + i - 1]
    BY <1>2, <1>3, Zenon
  <2> QED
    BY <2>1, <2>2, <2>3, Zenon
<1>6. u \in Seq(S) /\ Len(u) = n - k /\ \A i \in 1..(n - k) : u[i] = s[k + i]
  <2>1. /\ u \in Seq(S) /\ Len(u) = IF k + 1 <= n THEN n - (k + 1) + 1 ELSE 0
        /\ \A i \in 1..(n - (k + 1) + 1) : u[i] = s[(k + 1) + i - 1]
    BY <1>2, <1>4, Zenon
  <2>2. /\ (IF k + 1 <= n THEN n - (k + 1) + 1 ELSE 0) = n - k
        /\ 1..(n - (k + 1) + 1) = 1..(n - k)
    BY <1>1, CutArithmetic
  <2>3. \A i \in 1..(n - k) : (k + 1) + i - 1 = k + i
    BY <1>1, CutArithmetic
  <2>4. Len(u) = n - k
    <3>1. Len(u) = IF k + 1 <= n THEN n - (k + 1) + 1 ELSE 0
      BY <2>1, Zenon
    <3>2. k + 1 <= n \/ n = k
      BY <1>1
    <3> QED
      BY <1>1, <3>1, <3>2
  <2>5. \A i \in 1..(n - k) : u[i] = s[k + i]
    BY <2>1, <2>2, <2>3, Zenon
  <2> QED
    BY <2>1, <2>4, <2>5
<1>7. DOMAIN t = 1..k /\ DOMAIN u = 1..(n - k)
  BY <1>1, <1>5, <1>6, Zenon, LenProperties
<1>8. \A h \in 1..n : h \in 1..k \/ (h - k \in 1..(n - k) /\ u[h - k] = s[h])
  <2> SUFFICES ASSUME NEW h \in 1..n, h \notin 1..k
               PROVE  h - k \in 1..(n - k) /\ u[h - k] = s[h]
    OBVIOUS
  <2>1. h - k \in 1..(n - k) /\ k + (h - k) = h
    BY <1>1, CutArithmetic
  <2>2. u[h - k] = s[k + (h - k)]
    BY <1>6, <2>1, Zenon
  <2> QED
    BY <2>1, <2>2
<1>9. /\ \A i \in 1..k : i \in 1..n
      /\ \A i \in 1..(n - k) : k + i \in 1..n
  BY <1>1, CutArithmetic
<1>10. \A i \in DOMAIN t : \E h \in DOMAIN s : t[i] = s[h]
  BY <1>1, <1>5, <1>7, <1>9, Zenon
<1>11. \A i \in DOMAIN u : \E h \in DOMAIN s : u[i] = s[h]
  BY <1>1, <1>6, <1>7, <1>9, Zenon
<1>12. \A h \in DOMAIN s : \/ \E i \in DOMAIN t : t[i] = s[h]
                           \/ \E i \in DOMAIN u : u[i] = s[h]
  BY <1>1, <1>5, <1>7, <1>8, Zenon
<1>13. Len(u) = Len(s) - k
  BY <1>6 DEF n
<1>14. Cuts(s, t, u)
  BY <1>10, <1>11, <1>12 DEF Cuts
<1> QED
  BY <1>5, <1>6, <1>13, <1>14 DEF t, u

\* The elements of t are those of s, and e.
Adds(s, t, e) ==
  /\ \A i \in DOMAIN t : t[i] = e \/ \E h \in DOMAIN s : t[i] = s[h]
  /\ \A h \in DOMAIN s : \E i \in DOMAIN t : t[i] = s[h]
  /\ \E i \in DOMAIN t : t[i] = e

LEMMA AppendAdds ==
  ASSUME NEW S, NEW s \in Seq(S), NEW e \in S
  PROVE  Adds(s, Append(s, e), e)
<1> DEFINE t == Append(s, e)
           n == Len(s)
<1>1. /\ n \in Nat /\ DOMAIN s = 1..n /\ DOMAIN t = 1..(n + 1) /\ t[n + 1] = e
      /\ \A i \in 1..n : t[i] = s[i]
  OBVIOUS
<1> HIDE DEF t, n
<1>2. \A i \in 1..(n + 1) : i = n + 1 \/ i \in 1..n
  BY <1>1
<1>3. \A i \in 1..n : i \in 1..(n + 1)
  BY <1>1
<1>4. n + 1 \in 1..(n + 1)
  BY <1>1
<1>5. Adds(s, t, e)
  BY <1>1, <1>2, <1>3, <1>4, Zenon DEF Adds
<1> QED
  BY <1>5 DEF t

LEMMA TailAdds ==
  ASSUME NEW S, NEW s \in Seq(S), s # <<>>
  PROVE  Adds(Tail(s), s, Head(s))
<1> DEFINE t == Tail(s)
           n == Len(s)
<1>1. /\ n \in Nat \ {0} /\ DOMAIN s = 1..n /\ Head(s) = s[1]
      /\ DOMAIN t = 1..(n - 1) /\ \A i \in 1..(n - 1) : t[i] = s[i + 1]
  BY HeadTailProperties
<1> HIDE DEF t, n
<1>2. \A i \in 1..n : i = 1 \/ (i - 1 \in 1..(n - 1) /\ (i - 1) + 1 = i)
  BY <1>1
<1>3. 1 \in 1..n /\ \A i \in 1..(n - 1) : i + 1 \in 1..n
  BY <1>1
<1>4. \A i \in 1..n : i = 1 \/ \E h \in 1..(n - 1) : s[i] = t[h]
  BY <1>1, <1>2
<1>5. Adds(t, s, Head(s))
  BY <1>1, <1>3, <1>4 DEF Adds
<1> QED
  BY <1>5 DEF t

LEMMA CutsHold ==
  ASSUME NEW s, NEW t, NEW u, Cuts(s, t, u)
  PROVE  \A p : Holds(s, p) => Holds(t, p) \/ Holds(u, p)
BY DEF Cuts, Holds

LEMMA AddsHold ==
  ASSUME NEW s, NEW t, NEW e, Adds(s, t, e)
  PROVE  /\ \A p : Holds(s, p) => Holds(t, p)
         /\ \A p : Holds(t, p) => Holds(s, p) \/ p = e.off
         /\ Holds(t, e.off)
BY DEF Adds, Holds

LEMMA ReorderedFacts ==
  ASSUME NEW S, NEW s \in Seq(S), NEW order \in Bijection(DOMAIN s, DOMAIN s)
  PROVE  /\ Reordered(s, order) \in Seq(S) /\ Len(Reordered(s, order)) = Len(s)
         /\ \A i \in DOMAIN Reordered(s, order) :
              order[i] \in DOMAIN s /\ Reordered(s, order)[i] = s[order[i]]
         /\ \A i \in DOMAIN s :
              \E j \in DOMAIN Reordered(s, order) : Reordered(s, order)[j] = s[i]
<1>1. /\ Len(s) \in Nat /\ DOMAIN s = 1..Len(s)
      /\ order \in [DOMAIN s -> DOMAIN s]
      /\ \A i \in DOMAIN s : \E j \in DOMAIN s : order[j] = i
  BY Fun_BijectionProperties DEF Bijection, Surjection
<1> DEFINE r == [i \in 1..Len(s) |-> s[order[i]]]
<1>2. Reordered(s, order) = r
  BY <1>1 DEF Reordered
<1>3. /\ r \in Seq(S) /\ Len(r) = Len(s) /\ DOMAIN r = 1..Len(s)
      /\ \A i \in 1..Len(s) : order[i] \in 1..Len(s) /\ r[i] = s[order[i]]
  <2>1. \A i \in 1..Len(s) : order[i] \in 1..Len(s) /\ s[order[i]] \in S
    BY <1>1
  <2> QED
    BY <1>1, <2>1
<1> HIDE DEF r
<1>4. \A i \in DOMAIN s : \E j \in DOMAIN r : r[j] = s[i]
  BY <1>1, <1>3
<1> QED
  BY <1>1, <1>2, <1>3, <1>4

(* What SplitBucket does: the entries of its bucket, and no other, are in  *)
(* what is kept or in what overflows.                                      *)
SplitsAt(i) ==
  /\ i \in 1..Len(buckets)
  /\ buckets' \in Seq(Seq(Entry)) /\ Len(buckets') = Len(buckets)
  /\ \A h \in 1..Len(buckets) : h # i => buckets'[h] = buckets[h]
  /\ Len(buckets'[i]) <= Capacity
  /\ overflow' \in Seq(Entry)
  /\ Cuts(buckets[i], buckets'[i], overflow')

(* SplitBucket splits the bucket it has reached, write_key's                *)
(* truncate(capacity), and leaves the others alone.                         *)
LEMMA SplitFacts ==
  ASSUME TypeOK, SplitBucket, NEW i, i = Current + 1
  PROVE  SplitsAt(i)
<1> DEFINE s == buckets[i]
           kept == IF Len(s) < Capacity THEN Len(s) ELSE Capacity
<1>1. /\ i = Len(spillOffsets) + 1 /\ Len(spillOffsets) \in Nat /\ i \in 1..Len(buckets)
      /\ buckets \in Seq(Seq(Entry)) /\ s \in Seq(Entry) /\ Len(s) \in Nat
      /\ Capacity \in Nat \ {0}
  <2>0. buckets \in Seq(Seq(Entry)) /\ spillOffsets \in Seq(Nat)
    BY DEF TypeOK
  <2>1. /\ Len(spillOffsets) \in Nat /\ Len(buckets) \in Nat
        /\ buckets \in Seq(Seq(Entry)) /\ Len(spillOffsets) < Len(buckets)
    <3>1. Len(spillOffsets) < Len(buckets)
      BY DEF SplitBucket, Current
    <3> QED
      BY <2>0, <3>1
  <2>2. i = Len(spillOffsets) + 1 /\ i \in 1..Len(buckets)
    BY <2>1 DEF Current
  <2>3. s \in Seq(Entry)
    BY <2>1, <2>2
  <2> QED
    BY TableAssumption, <2>1, <2>2, <2>3
<1>2. PICK order \in Bijection(DOMAIN s, DOMAIN s) :
        /\ buckets' = [buckets EXCEPT ![i] = SubSeq(Reordered(@, order), 1, kept)]
        /\ overflow' = SubSeq(Reordered(s, order), kept + 1, Len(s))
  BY <1>1 DEF SplitBucket
<1> DEFINE r == Reordered(s, order)
<1>3. /\ r \in Seq(Entry) /\ Len(r) = Len(s)
      /\ \A j \in DOMAIN r : \E h \in DOMAIN s : r[j] = s[h]
      /\ \A h \in DOMAIN s : \E j \in DOMAIN r : r[j] = s[h]
  <2>1. s \in Seq(Entry) /\ order \in Bijection(DOMAIN s, DOMAIN s)
    BY <1>1
  <2> HIDE DEF s, r
  <2>2. r = Reordered(s, order)
    BY DEF r
  <2> QED
    BY <2>1, <2>2, ReorderedFacts, Zenon
<1>4. kept \in 0..Len(r) /\ kept <= Capacity
  BY <1>1, <1>3
<1>5. buckets'[i] = Front(r, kept) /\ overflow' = Back(r, kept)
  <2>1. i \in DOMAIN buckets
    BY <1>1
  <2> QED
    BY <2>1, <1>2, <1>3 DEF Front, Back
<1>6. /\ Len(buckets') = Len(buckets)
      /\ \A h \in 1..Len(buckets) : h # i => buckets'[h] = buckets[h]
  BY <1>1, <1>2
<1> HIDE DEF r, kept
<1>7. /\ buckets'[i] \in Seq(Entry) /\ Len(buckets'[i]) = kept
      /\ overflow' \in Seq(Entry)
      /\ Cuts(r, buckets'[i], overflow')
  BY <1>3, <1>4, <1>5, CutFacts
<1>8. buckets' \in Seq(Seq(Entry))
  <2>1. buckets' = [buckets EXCEPT ![i] = Front(r, kept)]
    BY <1>2 DEF r, Front
  <2> QED
    BY <1>1, <1>5, <1>7, <2>1
<1>9. Len(buckets'[i]) <= Capacity
  BY <1>4, <1>5, <1>7
<1>10. Cuts(s, buckets'[i], overflow')
  <2>1. \A h \in DOMAIN s : \E g \in DOMAIN r : r[g] = s[h]
    BY <1>3
  <2>2. \A g \in DOMAIN r : \E h \in DOMAIN s : r[g] = s[h]
    BY <1>3
  <2> DEFINE t == buckets'[i]
  <2>3. Cuts(r, t, overflow')
    BY <1>7
  <2> HIDE DEF s, t
  <2>4. \A j \in DOMAIN t : \E h \in DOMAIN s : t[j] = s[h]
    BY <2>2, <2>3 DEF Cuts
  <2>5. \A j \in DOMAIN overflow' : \E h \in DOMAIN s : overflow'[j] = s[h]
    BY <2>2, <2>3 DEF Cuts
  <2>6. \A h \in DOMAIN s : \/ \E j \in DOMAIN t : t[j] = s[h]
                            \/ \E j \in DOMAIN overflow' : overflow'[j] = s[h]
    BY <2>1, <2>3 DEF Cuts
  <2> QED
    BY <2>4, <2>5, <2>6 DEF Cuts, t
<1> QED
  BY <1>1, <1>6, <1>7, <1>8, <1>9, <1>10 DEF SplitsAt

(* What WriteSpillBlock does.                                              *)
LEMMA SpillFacts ==
  ASSUME TypeOK, WriteSpillBlock
  PROVE  \E block \in Seq(Entry) :
           /\ block # <<>> /\ Len(block) <= Capacity
           /\ blocks' = Put(blocks, length + 8, [entries |-> block, spill |-> nextSpill])
           /\ overflow' \in Seq(Entry)
           /\ length' \in Nat /\ length' > length + 8 /\ (offset = length => offset' = length')
           /\ Cuts(overflow, overflow', block)
<1> DEFINE start == ((Len(overflow) - 1) \div Capacity) * Capacity
           block == SubSeq(overflow, start + 1, Len(overflow))
<1>1. /\ overflow \in Seq(Entry) /\ overflow # <<>> /\ Len(overflow) \in Nat \ {0}
      /\ length \in Nat /\ offset \in Nat
  BY DEF TypeOK, WriteSpillBlock
<1>2. start \in 0..Len(overflow) - 1 /\ Len(overflow) - start <= Capacity
  BY <1>1, LastBlockStart
<1>3. /\ blocks' = Put(blocks, length + 8, [entries |-> block, spill |-> nextSpill])
      /\ overflow' = SubSeq(overflow, 1, start)
      /\ length' = length + 8 + BucketBytes(block)
      /\ offset' = offset + 8 + BucketBytes(block)
  BY DEF WriteSpillBlock
<1> HIDE DEF start
<1>4. start \in 0..Len(overflow)
  BY <1>1, <1>2
<1>5. /\ overflow' \in Seq(Entry) /\ block \in Seq(Entry) /\ Len(block) = Len(overflow) - start
      /\ Cuts(overflow, overflow', block)
  <2>1. overflow' = Front(overflow, start) /\ block = Back(overflow, start)
    BY <1>3 DEF Front, Back
  <2> HIDE DEF block
  <2> QED
    BY <1>1, <1>4, <2>1, CutFacts
<1> HIDE DEF block
<1>9. block # <<>> /\ Len(block) <= Capacity /\ Len(block) \in Nat
  BY <1>1, <1>2, <1>5
<1>10. BucketBytes(block) \in Nat /\ BucketBytes(block) > 0
  BY <1>9 DEF BucketBytes
<1>11. length' \in Nat /\ length' > length + 8 /\ (offset = length => offset' = length')
  BY <1>1, <1>3, <1>10
<1> QED
  BY <1>3, <1>5, <1>9, <1>11

LEMMA PutFacts ==
  ASSUME NEW file, NEW p, NEW piece
  PROVE  /\ DOMAIN Put(file, p, piece) = DOMAIN file \cup {p}
         /\ Put(file, p, piece)[p] = piece
         /\ \A q \in DOMAIN file : q # p => Put(file, p, piece)[q] = file[q]
BY DEF Put

(* What WriteNode does.                                                    *)
LEMMA WriteFacts ==
  ASSUME TypeOK, FileInv, NEW k \in Key, NEW v \in Value, WriteNode(k, v)
  PROVE  /\ v \in Nat /\ length \in Nat /\ offset = length
         /\ length' = length + RecHeader + v
         /\ length \notin Records /\ Records' = Records \cup {length}
         /\ records'[length] = [key |-> k, value |-> v]
         /\ \A p \in Records : records'[p] = records[p] /\ records[p].key # k
         /\ [nhash |-> nhashOf[k], off |-> offset, size |-> v] \in Entry
<1>1. /\ v \in Nat /\ length \in Nat /\ offset = length
      /\ nhashOf[k] \in Nhash
  BY TableAssumption DEF TypeOK, FileInv, CounterExact
<1>2. length \notin Records
  BY <1>1 DEF FileInv
<1>3. records' = Put(records, length, [key |-> k, value |-> v]) /\ k \notin Seen
  BY DEF WriteNode
<1>4. /\ Records' = Records \cup {length}
      /\ records'[length] = [key |-> k, value |-> v]
      /\ \A p \in Records : records'[p] = records[p]
  <2> DEFINE piece == [key |-> k, value |-> v]
  <2>1. records' = Put(records, length, piece)
    BY <1>3
  <2> HIDE DEF piece
  <2>2. records'[length] = piece
    BY <2>1 DEF Put
  <2>3. Records' = Records \cup {length} /\ \A p \in Records : records'[p] = records[p]
    BY <1>2, <2>1 DEF Put, Records
  <2> QED
    BY <2>2, <2>3 DEF piece
<1>5. \A p \in Records : records[p].key # k
  BY <1>3 DEF Seen
<1> QED
  BY <1>1, <1>2, <1>4, <1>5 DEF WriteNode, Entry

(* What PlaceEntry does: the next entry goes to the end of its bucket.     *)
LEMMA PlaceFacts ==
  ASSUME TypeOK, PhaseInv, PlaceEntry
  PROVE  \E i \in 1..Len(buckets) :
           /\ Head(placed) \in Entry /\ i - 1 = Goes(Head(placed))
           /\ buckets' = [buckets EXCEPT ![i] = Append(buckets[i], Head(placed))]
           /\ buckets' \in Seq(Seq(Entry)) /\ Len(buckets') = Len(buckets)
           /\ placed \in Seq(Entry) /\ placed # <<>> /\ placed' = Tail(placed)
           /\ placed' \in Seq(Entry)
<1> DEFINE e == Head(placed)
           i == Goes(e) + 1
<1>1. placed \in Seq(Entry) /\ placed # <<>> /\ placed' = Tail(placed)
  BY DEF PlaceEntry, TypeOK
<1>2. e \in Entry /\ placed' \in Seq(Entry)
  BY <1>1, HeadTailProperties
<1>3. buckets \in Seq(Seq(Entry)) /\ Len(buckets) \in Nat \ {0}
  BY DEF TypeOK, PhaseInv, PlaceEntry
<1>4. Goes(e) \in 0..Len(buckets) - 1
  <2>1. e.nhash \in Nat
    BY <1>2, TableAssumption DEF Entry
  <2> QED
    BY <1>3, <2>1, BucketExists DEF Goes
<1>5. buckets' = [buckets EXCEPT ![i] = Append(buckets[i], e)]
  BY DEF PlaceEntry, Goes
<1> HIDE DEF e
<1>6. i \in 1..Len(buckets) /\ i - 1 = Goes(e)
  BY <1>3, <1>4
<1> HIDE DEF i
<1>7. buckets' \in Seq(Seq(Entry)) /\ Len(buckets') = Len(buckets)
  <2>1. buckets[i] \in Seq(Entry) /\ Append(buckets[i], e) \in Seq(Entry)
    BY <1>2, <1>3, <1>6
  <2> QED
    BY <1>3, <1>5, <1>6, <2>1
<1> QED
  BY <1>1, <1>2, <1>5, <1>6, <1>7 DEF e

-----------------------------------------------------------------------------
(* The parts of the invariant                                              *)

LEMMA InitIInv == Init => IInv
<1> SUFFICES ASSUME Init PROVE IInv
  OBVIOUS
<1>1. Records = {} /\ Blocks = {}
  BY DEF Init, Records, Blocks
<1>2. TypeOK
  BY <1>1 DEF Init, TypeOK, DatHeader, Lookup
<1> QED
  BY <1>1, <1>2
     DEF Init, IInv, PhaseInv, FileInv, CounterExact, EntriesInv, RecordsInv, ChainInv, FetchInv, Idle,
         Current, Chain, DatHeader

(* The counter and the positions.                                          *)
LEMMA NextFile ==
  ASSUME IInv, [Next]_vars
  PROVE  FileInv'
<1> USE DEF IInv
<1>1. ASSUME NEW k \in Key, NEW v \in Value, WriteNode(k, v)
      PROVE  FileInv'
  <2>1. CounterExact' /\ Blocks' = Blocks
    BY <1>1 DEF WriteNode, FileInv, CounterExact, Blocks
  <2>2. /\ v \in Nat /\ length \in Nat /\ length' = length + RecHeader + v
        /\ Records' = Records \cup {length}
        /\ records'[length] = [key |-> k, value |-> v]
        /\ \A p \in Records : records'[p] = records[p] /\ records[p].key # k
        /\ length \notin Records
    BY <1>1, WriteFacts
  <2>3. \A p \in Records \cup Blocks : p \in Nat
    BY DEF TypeOK
  <2>4. \A p \in (Records \cup Blocks)' : DatHeader <= p /\ p < length'
    BY <2>1, <2>2, <2>3 DEF FileInv, RecHeader, DatHeader
  <2>5. \A p, q \in Records' : records'[p].key = records'[q].key => p = q
    BY <2>2 DEF FileInv
  <2> QED
    BY <2>1, <2>2, <2>4, <2>5 DEF FileInv, RecHeader, DatHeader
<1>2. CASE WriteSpillBlock
  <2>1. PICK block \in Seq(Entry) :
          /\ blocks' = Put(blocks, length + 8, [entries |-> block, spill |-> nextSpill])
          /\ length' \in Nat /\ length' > length + 8 /\ (offset = length => offset' = length')
    BY <1>2, SpillFacts
  <2>2. Blocks' = Blocks \cup {length + 8} /\ length \in Nat
    BY <2>1, PutFacts DEF Blocks, TypeOK
  <2>3. records' = records
    BY <1>2 DEF WriteSpillBlock
  <2>4. \A p \in Records \cup Blocks : p \in Nat
    BY DEF TypeOK
  <2> QED
    BY <2>1, <2>2, <2>3, <2>4 DEF FileInv, CounterExact, DatHeader, Records
<1>3. CASE UNCHANGED <<records, blocks, length, offset>>
  BY <1>3 DEF FileInv, CounterExact, Records, Blocks
<1> QED
  BY <1>1, <1>2, <1>3
     DEF Next, vars, store, SizeTable, PlaceEntry, SplitBucket, ChainWritten, WriteKeyFile, Fetch,
         Found, NextBlock, Absent

(* A lookup under way has a node's hash and a block.                       *)
LEMMA ReadingFacts ==
  ASSUME TypeOK, fetch.state = "reading"
  PROVE  /\ fetch.key \in Key /\ fetch.from \in Nat /\ fetch.block \in Block
         /\ fetch.block.entries \in Seq(Entry) /\ fetch.block.spill \in Nat
         /\ fetch \in [state : {"reading", "garbage"}, key : Key, from : Nat, block : Block]
<1>1. fetch \in [state : {"reading", "garbage"}, key : Key, from : Nat, block : Block]
  BY DEF TypeOK, Lookup, Idle
<1> QED
  BY <1>1 DEF Block

(* What Fetch does: it reads the bucket of its key, which is there.        *)
LEMMA FetchFacts ==
  ASSUME TypeOK, PhaseInv, NEW k \in Key, Fetch(k)
  PROVE  \E i \in 1..Len(buckets) :
           /\ i - 1 = BucketIndex(nhashOf[k])
           /\ BucketIndex(nhashOf[k]) = Bucket(nhashOf[k], Modulus(Len(buckets)), Len(buckets))
           /\ fetch' = [state |-> "reading", key |-> k, from |-> length,
                        block |-> [entries |-> buckets[i], spill |-> spillOffsets[i]]]
           /\ Current = Len(buckets) /\ buckets[i] \in Seq(Entry) /\ spillOffsets[i] \in Nat
<1>1. /\ buckets \in Seq(Seq(Entry)) /\ spillOffsets \in Seq(Nat) /\ Len(buckets) \in Nat \ {0}
      /\ Current = Len(buckets) /\ nhashOf[k] \in Nat
      /\ keyFile = [i \in DOMAIN buckets |-> [entries |-> buckets[i], spill |-> spillOffsets[i]]]
  <2>1. buckets \in Seq(Seq(Entry)) /\ spillOffsets \in Seq(Nat) /\ nhashOf[k] \in Nat
    BY TableAssumption DEF TypeOK
  <2>2. buckets # <<>> /\ Current = Len(buckets)
    BY DEF PhaseInv, Fetch
  <2>3. keyFile = [i \in DOMAIN buckets |-> [entries |-> buckets[i], spill |-> spillOffsets[i]]]
    BY Zenon DEF PhaseInv, Fetch
  <2> QED
    BY <2>1, <2>2, <2>3
<1>2. Len(keyFile) = Len(buckets) /\ DOMAIN buckets = 1..Len(buckets)
  BY <1>1
<1>3. BucketIndex(nhashOf[k]) = Bucket(nhashOf[k], Modulus(Len(buckets)), Len(buckets))
  BY <1>2 DEF BucketIndex, Bucket
<1>4. BucketIndex(nhashOf[k]) \in 0..Len(buckets) - 1
  BY <1>1, <1>3, BucketExists
<1> DEFINE i == BucketIndex(nhashOf[k]) + 1
<1>5. fetch' = [state |-> "reading", key |-> k, from |-> length, block |-> keyFile[i]]
  BY DEF Fetch
<1>6. i \in 1..Len(buckets) /\ i - 1 = BucketIndex(nhashOf[k])
  BY <1>1, <1>4
<1> HIDE DEF i
<1>7. keyFile[i] = [entries |-> buckets[i], spill |-> spillOffsets[i]]
  BY <1>1, <1>2, <1>6
<1>8. buckets[i] \in Seq(Entry) /\ spillOffsets[i] \in Nat
  BY <1>1, <1>6 DEF Current
<1> QED
  BY <1>1, <1>3, <1>5, <1>6, <1>7, <1>8

(* The types.                                                              *)
LEMMA NextType ==
  ASSUME IInv, [Next]_vars
  PROVE  TypeOK'
<1> USE DEF IInv
<1>1. ASSUME NEW k \in Key, NEW v \in Value, WriteNode(k, v)
      PROVE  TypeOK'
  <2>1. /\ v \in Nat /\ length \in Nat /\ offset = length /\ length' = length + RecHeader + v
        /\ Records' = Records \cup {length}
        /\ records'[length] = [key |-> k, value |-> v]
        /\ \A p \in Records : records'[p] = records[p]
        /\ [nhash |-> nhashOf[k], off |-> offset, size |-> v] \in Entry
    BY <1>1, WriteFacts
  <2>2. placed' \in Seq(Entry)
    BY <1>1, <2>1 DEF WriteNode, TypeOK
  <2>3. \A p \in Records' : p \in Nat /\ records'[p] \in [key : Key, value : Value]
    <3>1. [key |-> k, value |-> v] \in [key : Key, value : Value]
      OBVIOUS
    <3>2. \A p \in Records : p \in Nat /\ records[p] \in [key : Key, value : Value]
      BY DEF TypeOK
    <3> QED
      BY <2>1, <3>1, <3>2, Zenon
  <2>4. length' \in Nat /\ offset' = length'
    BY <1>1, <2>1 DEF WriteNode, RecHeader
  <2> QED
    BY <1>1, <2>2, <2>3, <2>4 DEF WriteNode, TypeOK, Blocks
<1>2. CASE SizeTable
  <2> DEFINE n == NumBuckets(Len(placed))
  <2>1. n \in Nat
    BY NumBucketsFacts DEF TypeOK
  <2>2. buckets' \in Seq(Seq(Entry))
    <3>1. buckets' = [i \in 1..n |-> <<>>]
      BY <1>2 DEF SizeTable
    <3> HIDE DEF n
    <3> QED
      BY <2>1, <3>1
  <2> QED
    BY <1>2, <2>2 DEF SizeTable, TypeOK, Records, Blocks
<1>3. CASE PlaceEntry
  <2>1. buckets' \in Seq(Seq(Entry)) /\ placed' \in Seq(Entry)
    BY <1>3, PlaceFacts
  <2> QED
    BY <1>3, <2>1 DEF PlaceEntry, TypeOK, Records, Blocks
<1>4. CASE SplitBucket
  <2>1. PICK i : i = Current + 1
    OBVIOUS
  <2>2. buckets' \in Seq(Seq(Entry)) /\ overflow' \in Seq(Entry)
    <3>1. SplitsAt(i)
      BY <1>4, <2>1, SplitFacts
    <3> QED
      BY <3>1 DEF SplitsAt
  <2>3. /\ nextSpill' = 0 /\ pc' = "spilling"
        /\ UNCHANGED <<nhashOf, records, blocks, length, offset, placed, spillOffsets, keyFile, fetch>>
    BY <1>4 DEF SplitBucket
  <2> QED
    BY <2>2, <2>3 DEF TypeOK, Records, Blocks
<1>5. CASE WriteSpillBlock
  <2>1. PICK block \in Seq(Entry) :
          /\ blocks' = Put(blocks, length + 8, [entries |-> block, spill |-> nextSpill])
          /\ overflow' \in Seq(Entry)
          /\ length' \in Nat /\ (offset = length => offset' = length')
    BY <1>5, SpillFacts
  <2>2. /\ offset = length /\ length \in Nat /\ nextSpill' = length + 8
    BY <1>5 DEF FileInv, CounterExact, TypeOK, WriteSpillBlock
  <2>3. [entries |-> block, spill |-> nextSpill] \in Block
    BY DEF Block, TypeOK
  <2>4. \A p \in Blocks' : p \in Nat /\ blocks'[p] \in Block
    BY <2>1, <2>2, <2>3 DEF TypeOK, Blocks, Put
  <2>5. UNCHANGED <<nhashOf, records, placed, buckets, spillOffsets, keyFile, pc, fetch>>
    BY <1>5 DEF WriteSpillBlock
  <2> QED
    BY <2>1, <2>2, <2>4, <2>5 DEF TypeOK, Records
<1>6. CASE ChainWritten
  <2>1. spillOffsets' \in Seq(Nat)
    BY <1>6 DEF ChainWritten, TypeOK
  <2> QED
    BY <1>6, <2>1 DEF ChainWritten, TypeOK, Records, Blocks
<1>7. CASE WriteKeyFile
  <2>1. /\ buckets \in Seq(Seq(Entry)) /\ spillOffsets \in Seq(Nat)
        /\ Len(spillOffsets) = Len(buckets) /\ Len(buckets) \in Nat
    BY <1>7 DEF WriteKeyFile, TypeOK
  <2>2. \A i \in 1..Len(buckets) : [entries |-> buckets[i], spill |-> spillOffsets[i]] \in Block
    BY <2>1 DEF Block
  <2>3. keyFile' = [i \in 1..Len(buckets) |-> [entries |-> buckets[i], spill |-> spillOffsets[i]]]
    BY <1>7, <2>1 DEF WriteKeyFile
  <2>4. keyFile' \in Seq(Block)
    BY <2>1, <2>2, <2>3
  <2>5. \A i \in 1..Len(buckets) : Len(buckets[i]) <= Capacity
    BY <2>1 DEF PhaseInv, Current
  <2>6. \A i \in DOMAIN keyFile' : Len(keyFile'[i].entries) <= Capacity
    BY <2>3, <2>5
  <2> QED
    BY <1>7, <2>4, <2>6 DEF WriteKeyFile, TypeOK, Records, Blocks
<1>8. ASSUME NEW k \in Key, Fetch(k)
      PROVE  TypeOK'
  <2>1. PICK i \in 1..Len(buckets) :
          /\ fetch' = [state |-> "reading", key |-> k, from |-> length,
                       block |-> [entries |-> buckets[i], spill |-> spillOffsets[i]]]
          /\ buckets[i] \in Seq(Entry) /\ spillOffsets[i] \in Nat
    BY <1>8, FetchFacts
  <2>2. fetch' \in Lookup
    BY <2>1 DEF Lookup, Block, TypeOK
  <2> QED
    BY <1>8, <2>2 DEF Fetch, TypeOK, store, Records, Blocks
<1>9. CASE Found
  <2>1. PICK i \in DOMAIN fetch.block.entries :
          fetch' = [state |-> "found", key |-> fetch.key, size |-> fetch.block.entries[i].size]
    BY <1>9 DEF Found, Matching
  <2>2. fetch.key \in Key /\ fetch.block.entries \in Seq(Entry)
    BY <1>9, ReadingFacts DEF Found
  <2>3. fetch.block.entries[i] \in Entry
    BY <2>2
  <2>4. fetch' \in Lookup
    BY <2>1, <2>2, <2>3 DEF Lookup, Entry
  <2> QED
    BY <1>9, <2>4 DEF Found, TypeOK, store, Records, Blocks
<1>10. CASE NextBlock
  <2>1. fetch \in [state : {"reading", "garbage"}, key : Key, from : Nat, block : Block]
    BY <1>10, ReadingFacts DEF NextBlock
  <2>2. fetch' \in Lookup
    <3>1. CASE fetch.block.spill \in Blocks
      BY <1>10, <2>1, <3>1 DEF NextBlock, Lookup, TypeOK
    <3>2. CASE fetch.block.spill \notin Blocks
      BY <1>10, <2>1, <3>2 DEF NextBlock, Lookup
    <3> QED
      BY <3>1, <3>2
  <2> QED
    BY <1>10, <2>2 DEF NextBlock, TypeOK, store, Records, Blocks
<1>11. CASE Absent
  <2>1. fetch.key \in Key
    BY <1>11, ReadingFacts DEF Absent
  <2>2. fetch' \in Lookup
    BY <1>11, <2>1 DEF Absent, Lookup
  <2> QED
    BY <1>11, <2>2 DEF Absent, TypeOK, store, Records, Blocks
<1>12. CASE UNCHANGED vars
  BY <1>12 DEF vars, TypeOK, Records, Blocks
<1> QED
  BY <1>1, <1>2, <1>3, <1>4, <1>5, <1>6, <1>7, <1>8, <1>9, <1>10, <1>11, <1>12 DEF Next

(* The phases.                                                             *)
LEMMA NextPhase ==
  ASSUME IInv, [Next]_vars
  PROVE  PhaseInv'
<1> USE DEF IInv
<1>0. /\ buckets \in Seq(Seq(Entry)) /\ Len(buckets) \in Nat
      /\ spillOffsets \in Seq(Nat) /\ Current \in Nat /\ Current = Len(spillOffsets)
      /\ DOMAIN buckets = 1..Len(buckets)
  BY DEF TypeOK, Current
<1>1. ASSUME NEW k \in Key, NEW v \in Value, WriteNode(k, v)
      PROVE  PhaseInv'
  BY <1>1, <1>0 DEF WriteNode, PhaseInv, Current, Blocks
<1>2. CASE SizeTable
  <2> DEFINE n == NumBuckets(Len(placed))
  <2>1. n \in Nat \ {0}
    BY NumBucketsFacts DEF TypeOK
  <2>2. buckets' = [i \in 1..n |-> <<>>]
    BY <1>2 DEF SizeTable
  <2> HIDE DEF n
  <2>3. buckets' # <<>> /\ Len(buckets') = n /\ DOMAIN buckets' = 1..n
    BY <2>1, <2>2
  <2>4. Current = 0 /\ Current' = 0
    BY <1>2 DEF SizeTable, PhaseInv, Current
  <2>5. /\ pc' = "filling" /\ pc = "writing"
        /\ UNCHANGED <<placed, spillOffsets, overflow, keyFile, fetch>>
    BY <1>2 DEF SizeTable
  <2>6. spillOffsets = <<>> /\ overflow = <<>> /\ fetch = Idle /\ keyFile = <<>>
    BY <2>5 DEF PhaseInv
  <2>7. \A i \in DOMAIN buckets' : ~(i <= Current')
    BY <2>1, <2>3, <2>4
  <2> QED
    BY <2>1, <2>3, <2>4, <2>5, <2>6, <2>7 DEF PhaseInv
<1>3. CASE PlaceEntry
  <2>1. buckets' \in Seq(Seq(Entry)) /\ Len(buckets') = Len(buckets)
    BY <1>3, PlaceFacts
  <2>2. buckets # <<>> /\ spillOffsets = <<>> /\ Current = 0
    BY <1>3 DEF PlaceEntry, PhaseInv, Current
  <2>3. buckets' # <<>> /\ Current' = 0 /\ DOMAIN buckets' = 1..Len(buckets)
    BY <1>0, <1>3, <2>1, <2>2 DEF PlaceEntry, Current
  <2>4. UNCHANGED <<pc, fetch, keyFile, spillOffsets, overflow>> /\ pc = "filling"
    BY <1>3 DEF PlaceEntry
  <2> QED
    BY <1>0, <2>1, <2>2, <2>3, <2>4 DEF PhaseInv
<1>4. CASE SplitBucket
  <2>1. PICK i : i = Current + 1
    OBVIOUS
  <2>2. /\ buckets' \in Seq(Seq(Entry)) /\ Len(buckets') = Len(buckets)
        /\ \A h \in 1..Len(buckets) : h # i => buckets'[h] = buckets[h]
        /\ Len(buckets'[i]) <= Capacity
        /\ i \in 1..Len(buckets)
    <3>1. SplitsAt(i)
      BY <1>4, <2>1, SplitFacts
    <3> QED
      BY <3>1 DEF SplitsAt
  <2>3. pc = "filling" /\ pc' = "spilling" /\ placed = <<>>
        /\ UNCHANGED <<placed, spillOffsets, fetch, keyFile>>
    BY <1>4 DEF SplitBucket
  <2>4. Current' = Current /\ Current < Len(buckets) /\ DOMAIN buckets' = 1..Len(buckets)
    BY <1>0, <2>1, <2>2, <2>3 DEF Current
  <2>5. \A h \in DOMAIN buckets' : h <= Current' \/ h = Current' + 1 => Len(buckets'[h]) <= Capacity
    BY <1>0, <2>1, <2>2, <2>4 DEF PhaseInv
  <2>6. buckets' # <<>>
    BY <1>0, <2>2, <2>4
  <2> QED
    BY <1>0, <2>2, <2>3, <2>4, <2>5, <2>6 DEF PhaseInv
<1>5. CASE WriteSpillBlock
  <2>1. UNCHANGED <<placed, buckets, spillOffsets, keyFile, pc, fetch>> /\ pc = "spilling"
    BY <1>5 DEF WriteSpillBlock
  <2> QED
    BY <2>1 DEF PhaseInv, Current
<1>6. CASE ChainWritten
  <2>1. /\ pc = "spilling" /\ pc' = "filling" /\ overflow = <<>>
        /\ spillOffsets' = Append(spillOffsets, nextSpill) /\ nextSpill \in Nat
        /\ UNCHANGED <<placed, buckets, overflow, keyFile, fetch>>
    BY <1>6 DEF ChainWritten, TypeOK
  <2>2. Current' = Current + 1 /\ placed = <<>> /\ Current < Len(buckets) /\ buckets # <<>>
    BY <1>0, <2>1 DEF Current, PhaseInv
  <2>3. \A i \in DOMAIN buckets : i <= Current + 1 => Len(buckets[i]) <= Capacity
    <3>1. \A i \in DOMAIN buckets : i <= Current \/ i = Current + 1 => Len(buckets[i]) <= Capacity
      BY <2>1, Zenon DEF PhaseInv
    <3>2. \A i, c \in Nat : i <= c + 1 => i <= c \/ i = c + 1
      OBVIOUS
    <3>3. \A i \in DOMAIN buckets : i \in Nat
      BY <1>0
    <3> QED
      BY <1>0, <3>1, <3>2, <3>3, Zenon
  <2>4. fetch = Idle /\ keyFile = <<>>
    BY <2>1 DEF PhaseInv
  <2> QED
    BY <1>0, <2>1, <2>2, <2>3, <2>4 DEF PhaseInv
<1>7. CASE WriteKeyFile
  <2>1. /\ pc = "filling" /\ pc' = "open" /\ Current = Len(buckets)
        /\ UNCHANGED <<placed, buckets, spillOffsets, overflow, fetch>>
    BY <1>7 DEF WriteKeyFile, Current
  <2>2. keyFile' = [i \in DOMAIN buckets |-> [entries |-> buckets[i], spill |-> spillOffsets[i]]]
    BY <1>7 DEF WriteKeyFile
  <2> QED
    BY <2>1, <2>2 DEF PhaseInv, Current
<1>8. CASE pc = "open" /\ UNCHANGED <<store, pc>>
  BY <1>8 DEF PhaseInv, Current, store, Blocks
<1>9. CASE UNCHANGED vars
  BY <1>9 DEF PhaseInv, Current, vars, Blocks
<1> QED
  BY <1>1, <1>2, <1>3, <1>4, <1>5, <1>6, <1>7, <1>8, <1>9
     DEF Next, Fetch, Found, NextBlock, Absent

(* The entries.                                                            *)
LEMMA NextEntries ==
  ASSUME IInv, [Next]_vars
  PROVE  EntriesInv'
<1> USE DEF IInv
<1>0. /\ buckets \in Seq(Seq(Entry)) /\ Len(buckets) \in Nat /\ DOMAIN buckets = 1..Len(buckets)
      /\ placed \in Seq(Entry) /\ Current \in Nat
  BY DEF TypeOK, Current
<1>1. ASSUME NEW k \in Key, NEW v \in Value, WriteNode(k, v)
      PROVE  EntriesInv'
  <2> DEFINE e == [nhash |-> nhashOf[k], off |-> offset, size |-> v]
  <2>1. /\ offset = length /\ Records' = Records \cup {length}
        /\ records'[length] = [key |-> k, value |-> v]
        /\ \A p \in Records : records'[p] = records[p]
        /\ e \in Entry
    BY <1>1, WriteFacts
  <2>2. /\ placed' = Append(placed, e) /\ buckets = <<>> /\ overflow = <<>> /\ Blocks = {}
        /\ UNCHANGED <<nhashOf, buckets, overflow, blocks>>
    BY <1>1 DEF WriteNode, PhaseInv
  <2>3. e.off = length /\ e.size = v /\ e.nhash = nhashOf[k]
    BY <2>1
  <2> HIDE DEF e
  <2>4. Adds(placed, placed', e)
    BY <1>0, <2>1, <2>2, AppendAdds
  <2>5. \A i \in DOMAIN placed' : Exact(placed[i])'
    <3> SUFFICES ASSUME NEW i \in DOMAIN placed' PROVE Exact(placed[i])'
      OBVIOUS
    <3>1. CASE placed'[i] = e
      BY <2>1, <2>2, <2>3, <3>1 DEF Exact
    <3>2. ASSUME NEW h \in DOMAIN placed, placed'[i] = placed[h]
          PROVE  Exact(placed[i])'
      BY <2>1, <2>2, <3>2 DEF EntriesInv, Exact
    <3> QED
      BY <2>4, <3>1, <3>2 DEF Adds
  <2>6. DOMAIN overflow = {} /\ DOMAIN buckets = {} /\ Blocks' = {}
    BY <2>2 DEF Blocks
  <2> QED
    BY <2>2, <2>5, <2>6 DEF EntriesInv
<1>2. CASE SizeTable
  <2> DEFINE n == NumBuckets(Len(placed))
  <2>1. n \in Nat \ {0}
    BY NumBucketsFacts, <1>0
  <2>2. /\ buckets' = [i \in 1..n |-> <<>>] /\ overflow = <<>> /\ Blocks = {}
        /\ UNCHANGED <<nhashOf, records, placed, overflow, blocks>>
    BY <1>2 DEF SizeTable, PhaseInv
  <2> HIDE DEF n
  <2>3. \A i \in DOMAIN buckets' : DOMAIN buckets'[i] = {}
    BY <2>1, <2>2
  <2>4. DOMAIN overflow = {} /\ Blocks' = {}
    BY <2>2 DEF Blocks
  <2> QED
    BY <2>2, <2>3, <2>4 DEF EntriesInv, Exact, Records
<1>3. CASE PlaceEntry
  <2> DEFINE e == Head(placed)
  <2>1. PICK i \in 1..Len(buckets) :
          /\ e \in Entry /\ i - 1 = Goes(e)
          /\ buckets' = [buckets EXCEPT ![i] = Append(buckets[i], e)]
          /\ buckets' \in Seq(Seq(Entry)) /\ Len(buckets') = Len(buckets)
          /\ placed # <<>> /\ placed' = Tail(placed)
    BY <1>3, PlaceFacts
  <2>2. UNCHANGED <<nhashOf, records, overflow, blocks, spillOffsets>>
    BY <1>3 DEF PlaceEntry
  <2>3. Adds(placed', placed, e)
    BY <1>0, <2>1, TailAdds
  <2> HIDE DEF e
  <2>4. Adds(buckets[i], buckets'[i], e)
    <3>1. buckets[i] \in Seq(Entry) /\ buckets'[i] = Append(buckets[i], e)
      BY <1>0, <2>1
    <3> QED
      BY <2>1, <3>1, AppendAdds
  <2>5. \A h \in 1..Len(buckets) : h # i => buckets'[h] = buckets[h]
    BY <1>0, <2>1
  <2>6. DOMAIN buckets' = 1..Len(buckets)
    BY <2>1
  <2>7. Exact(e)
    BY <2>3 DEF Adds, EntriesInv
  <2>8. \A x : (Exact(x) => Exact(x)') /\ Goes(x)' = Goes(x)
    BY <2>1, <2>2 DEF Exact, Goes, Records
  <2>9. \A h \in DOMAIN placed' : Exact(placed[h])'
    <3>1. \A h \in DOMAIN placed' : Exact(placed'[h])
      BY <2>3 DEF Adds, EntriesInv
    <3> QED
      BY <2>2, <3>1 DEF Exact, Records
  <2>10. \A h \in DOMAIN buckets' : \A j \in DOMAIN buckets'[h] :
           Exact(buckets'[h][j]) /\ Goes(buckets'[h][j]) = h - 1
    <3>1. \A j \in DOMAIN buckets'[i] :
            Exact(buckets'[i][j]) /\ Goes(buckets'[i][j]) = i - 1
      <4> DEFINE s == buckets[i]
                 t == buckets'[i]
      <4>1. \A h \in DOMAIN s : Exact(s[h]) /\ Goes(s[h]) = i - 1
        BY <1>0 DEF EntriesInv
      <4>2. Adds(s, t, e) /\ Goes(e) = i - 1
        BY <2>1, <2>4
      <4> HIDE DEF s, t
      <4>3. \A j \in DOMAIN t : Exact(t[j]) /\ Goes(t[j]) = i - 1
        BY <2>7, <4>1, <4>2 DEF Adds
      <4> QED
        BY <4>3 DEF t
    <3> QED
      BY <1>0, <2>5, <2>6, <3>1, Zenon DEF EntriesInv
  <2>11. (\A h \in DOMAIN buckets : \A j \in DOMAIN buckets[h] :
            Exact(buckets[h][j]) /\ Goes(buckets[h][j]) = h - 1)'
    BY <2>8, <2>10
  <2>12. (\A j \in DOMAIN overflow : Exact(overflow[j]) /\ Goes(overflow[j]) = Current)'
    BY <2>2, <2>8 DEF EntriesInv, Current
  <2>13. (\A q \in Blocks : \A j \in DOMAIN blocks[q].entries : Exact(blocks[q].entries[j]))'
    BY <2>2, <2>8 DEF EntriesInv, Blocks
  <2> QED
    BY <2>9, <2>11, <2>12, <2>13 DEF EntriesInv
<1>4. CASE SplitBucket
  <2>1. PICK i : i = Current + 1
    OBVIOUS
  <2>2. /\ i \in 1..Len(buckets)
        /\ buckets' \in Seq(Seq(Entry)) /\ Len(buckets') = Len(buckets)
        /\ \A h \in 1..Len(buckets) : h # i => buckets'[h] = buckets[h]
        /\ Cuts(buckets[i], buckets'[i], overflow')
    <3>1. SplitsAt(i)
      BY <1>4, <2>1, SplitFacts
    <3> QED
      BY <3>1 DEF SplitsAt
  <2>3. UNCHANGED <<nhashOf, records, placed, blocks, spillOffsets>>
    BY <1>4 DEF SplitBucket
  <2>4. DOMAIN buckets' = 1..Len(buckets) /\ i - 1 = Current
    BY <1>0, <2>1, <2>2
  <2>5. \A j \in DOMAIN buckets[i] : Exact(buckets[i][j]) /\ Goes(buckets[i][j]) = Current
    BY <1>0, <2>2, <2>4 DEF EntriesInv
  <2>6. \A j \in DOMAIN buckets'[i] : Exact(buckets'[i][j]) /\ Goes(buckets'[i][j]) = Current
    <3> DEFINE s == buckets[i]
               t == buckets'[i]
    <3>1. Cuts(s, t, overflow') /\ \A j \in DOMAIN s : Exact(s[j]) /\ Goes(s[j]) = Current
      BY <2>2, <2>5
    <3> HIDE DEF s, t
    <3>2. \A j \in DOMAIN t : Exact(t[j]) /\ Goes(t[j]) = Current
      BY <3>1 DEF Cuts
    <3> QED
      BY <3>2 DEF t
  <2>7. \A j \in DOMAIN overflow' : Exact(overflow'[j]) /\ Goes(overflow'[j]) = Current
    <3> DEFINE s == buckets[i]
               t == buckets'[i]
    <3>1. Cuts(s, t, overflow') /\ \A j \in DOMAIN s : Exact(s[j]) /\ Goes(s[j]) = Current
      BY <2>2, <2>5
    <3> HIDE DEF s, t
    <3> QED
      BY <3>1 DEF Cuts
  <2>8. \A h \in DOMAIN buckets' : \A j \in DOMAIN buckets'[h] :
          Exact(buckets'[h][j]) /\ Goes(buckets'[h][j]) = h - 1
    BY <1>0, <2>2, <2>4, <2>6, Zenon DEF EntriesInv
  <2> QED
    <3>1. \A x : (Exact(x) => Exact(x)') /\ Goes(x)' = Goes(x)
      BY <2>2, <2>3 DEF Exact, Goes, Records
    <3>2. (\A h \in DOMAIN placed : Exact(placed[h]))'
      BY <2>3, <3>1 DEF EntriesInv
    <3>3. (\A h \in DOMAIN buckets : \A j \in DOMAIN buckets[h] :
              Exact(buckets[h][j]) /\ Goes(buckets[h][j]) = h - 1)'
      BY <2>8, <3>1
    <3>4. (\A j \in DOMAIN overflow : Exact(overflow[j]) /\ Goes(overflow[j]) = Current)'
      BY <2>3, <2>7, <3>1 DEF Current
    <3>5. (\A q \in Blocks : \A j \in DOMAIN blocks[q].entries : Exact(blocks[q].entries[j]))'
      BY <2>3, <3>1 DEF EntriesInv, Blocks
    <3> QED
      BY <3>2, <3>3, <3>4, <3>5 DEF EntriesInv
<1>5. CASE WriteSpillBlock
  <2>1. PICK block \in Seq(Entry) :
          /\ blocks' = Put(blocks, length + 8, [entries |-> block, spill |-> nextSpill])
          /\ Cuts(overflow, overflow', block)
    BY <1>5, SpillFacts
  <2>2. UNCHANGED <<nhashOf, records, placed, buckets, spillOffsets>>
    BY <1>5 DEF WriteSpillBlock
  <2>3. \A j \in DOMAIN overflow' : Exact(overflow'[j]) /\ Goes(overflow'[j]) = Current
    BY <2>1, Zenon DEF Cuts, EntriesInv
  <2>4. \A j \in DOMAIN block : Exact(block[j])
    BY <2>1, Zenon DEF Cuts, EntriesInv
  <2>5. \A q \in Blocks' : \/ q \in Blocks /\ blocks'[q] = blocks[q]
                           \/ blocks'[q].entries = block
    BY <2>1 DEF Blocks, Put
  <2>6. \A q \in Blocks' : \A j \in DOMAIN blocks'[q].entries : Exact(blocks'[q].entries[j])
    BY <2>4, <2>5, Zenon DEF EntriesInv
  <2> QED
    BY <2>2, <2>3, <2>6 DEF EntriesInv, Exact, Goes, Records, Current
<1>6. CASE ChainWritten
  <2>1. /\ overflow = <<>>
        /\ UNCHANGED <<nhashOf, records, placed, buckets, blocks, overflow>>
    BY <1>6 DEF ChainWritten
  <2>2. DOMAIN overflow = {}
    BY <2>1
  <2> QED
    BY <2>1, <2>2 DEF EntriesInv, Exact, Goes, Records, Blocks
<1>7. CASE UNCHANGED <<nhashOf, records, blocks, placed, buckets, spillOffsets, overflow>>
  BY <1>7 DEF EntriesInv, Exact, Goes, Records, Blocks, Current
<1> QED
  BY <1>1, <1>2, <1>3, <1>4, <1>5, <1>6, <1>7
     DEF Next, vars, store, WriteKeyFile, Fetch, Found, NextBlock, Absent

(* The entry of a record is moved, never dropped.                          *)
LEMMA NextRecords ==
  ASSUME IInv, [Next]_vars
  PROVE  RecordsInv'
<1> USE DEF IInv
<1>0. /\ buckets \in Seq(Seq(Entry)) /\ Len(buckets) \in Nat /\ DOMAIN buckets = 1..Len(buckets)
      /\ placed \in Seq(Entry)
  BY DEF TypeOK
<1>1. ASSUME NEW k \in Key, NEW v \in Value, WriteNode(k, v)
      PROVE  RecordsInv'
  <2> DEFINE e == [nhash |-> nhashOf[k], off |-> offset, size |-> v]
  <2>1. Records' = Records \cup {length} /\ e \in Entry /\ e.off = length
    BY <1>1, WriteFacts
  <2>2. placed' = Append(placed, e) /\ UNCHANGED <<buckets, overflow, blocks>>
    BY <1>1 DEF WriteNode
  <2> HIDE DEF e
  <2>3. Adds(placed, placed', e)
    BY <1>0, <2>1, <2>2, AppendAdds
  <2>4. Holds(placed', length)
    BY <2>1, <2>3, AddsHold
  <2>5. \A p \in Records : Holds(placed, p) => Holds(placed', p)
    BY <2>3, AddsHold
  <2> QED
    BY <2>1, <2>2, <2>4, <2>5 DEF RecordsInv, Blocks
<1>2. CASE SizeTable
  <2>1. /\ buckets = <<>> /\ overflow = <<>> /\ Blocks = {}
        /\ UNCHANGED <<records, placed, overflow, blocks>>
    BY <1>2 DEF SizeTable, PhaseInv
  <2>2. DOMAIN buckets = {} /\ \A p : ~Holds(overflow, p)
    BY <2>1 DEF Holds
  <2>3. \A p \in Records : Holds(placed, p)
    BY <2>1, <2>2 DEF RecordsInv
  <2> QED
    BY <2>1, <2>3 DEF RecordsInv, Records
<1>3. CASE PlaceEntry
  <2> DEFINE e == Head(placed)
  <2>1. PICK i \in 1..Len(buckets) :
          /\ e \in Entry
          /\ buckets' = [buckets EXCEPT ![i] = Append(buckets[i], e)]
          /\ buckets' \in Seq(Seq(Entry)) /\ Len(buckets') = Len(buckets)
          /\ placed # <<>> /\ placed' = Tail(placed)
    BY <1>3, PlaceFacts
  <2>2. UNCHANGED <<records, overflow, blocks>>
    BY <1>3 DEF PlaceEntry
  <2>3. Adds(placed', placed, e)
    BY <1>0, <2>1, TailAdds
  <2> HIDE DEF e
  <2>4. Adds(buckets[i], buckets'[i], e)
    <3>1. buckets[i] \in Seq(Entry) /\ buckets'[i] = Append(buckets[i], e)
      BY <1>0, <2>1
    <3> QED
      BY <2>1, <3>1, AppendAdds
  <2>5. \A h \in 1..Len(buckets) : h # i => buckets'[h] = buckets[h]
    BY <1>0, <2>1
  <2>6. DOMAIN buckets' = 1..Len(buckets)
    BY <2>1
  <2>7. \A p : Holds(placed, p) => Holds(placed', p) \/ Holds(buckets'[i], p)
    BY <2>3, <2>4, AddsHold
  <2>8. \A h \in 1..Len(buckets) : \A p : Holds(buckets[h], p) => Holds(buckets'[h], p)
    <3>1. \A p : Holds(buckets[i], p) => Holds(buckets'[i], p)
      BY <2>4, AddsHold
    <3> QED
      BY <2>5, <3>1, Zenon
  <2> QED
    BY <1>0, <2>1, <2>2, <2>6, <2>7, <2>8 DEF RecordsInv, Records, Blocks
<1>4. CASE SplitBucket
  <2>1. PICK i : i = Current + 1
    OBVIOUS
  <2>2. /\ i \in 1..Len(buckets)
        /\ buckets' \in Seq(Seq(Entry)) /\ Len(buckets') = Len(buckets)
        /\ \A h \in 1..Len(buckets) : h # i => buckets'[h] = buckets[h]
        /\ Cuts(buckets[i], buckets'[i], overflow')
    <3>1. SplitsAt(i)
      BY <1>4, <2>1, SplitFacts
    <3> QED
      BY <3>1 DEF SplitsAt
  <2>3. UNCHANGED <<records, placed, blocks>> /\ overflow = <<>>
    BY <1>4 DEF SplitBucket, PhaseInv
  <2>4. DOMAIN buckets' = 1..Len(buckets) /\ \A p : ~Holds(overflow, p)
    BY <1>0, <2>2, <2>3 DEF Holds
  <2>5. \A p : Holds(buckets[i], p) => Holds(buckets'[i], p) \/ Holds(overflow', p)
    BY <2>2, CutsHold
  <2>6. \A h \in 1..Len(buckets) : \A p :
          Holds(buckets[h], p) => Holds(buckets'[h], p) \/ Holds(overflow', p)
    BY <2>2, <2>5, Zenon
  <2> QED
    BY <1>0, <2>3, <2>4, <2>6 DEF RecordsInv, Records, Blocks
<1>5. CASE WriteSpillBlock
  <2>1. PICK block \in Seq(Entry) :
          /\ blocks' = Put(blocks, length + 8, [entries |-> block, spill |-> nextSpill])
          /\ Cuts(overflow, overflow', block)
          /\ length' > length + 8
    BY <1>5, SpillFacts
  <2>2. UNCHANGED <<records, placed, buckets>>
    BY <1>5 DEF WriteSpillBlock
  <2>3. length + 8 \notin Blocks
    BY DEF FileInv, TypeOK
  <2>4. /\ Blocks' = Blocks \cup {length + 8} /\ blocks'[length + 8].entries = block
        /\ \A q \in Blocks : blocks'[q] = blocks[q]
    BY <2>1, <2>3 DEF Blocks, Put
  <2>5. \A p : Holds(overflow, p) => Holds(overflow', p) \/ Holds(block, p)
    BY <2>1, CutsHold
  <2> QED
    BY <2>2, <2>4, <2>5 DEF RecordsInv, Records
<1>6. CASE UNCHANGED <<records, blocks, placed, buckets, overflow>>
  BY <1>6 DEF RecordsInv, Records, Blocks
<1> QED
  BY <1>1, <1>2, <1>3, <1>4, <1>5, <1>6
     DEF Next, vars, store, ChainWritten, WriteKeyFile, Fetch, Found, NextBlock, Absent

\* Chains, and what ChainInv says of them, for any file, number of buckets and
\* offsets.
Chained(file, n, b) ==
  {q \in DOMAIN file : \E i \in DOMAIN file[q].entries :
                         Bucket(file[q].entries[i].nhash, Modulus(n), n) = b}

Linked(file, n, offsets, next, end, phase) ==
  /\ \A q \in DOMAIN file : \A b, c \in Nat :
       q \in Chained(file, n, b) /\ q \in Chained(file, n, c) => b = c
  /\ \A b \in Nat : \A q \in Chained(file, n, b) :
       /\ PointsBelow(file[q].spill, q, Chained(file, n, b))
       /\ b < Len(offsets) \/ (b = Len(offsets) /\ phase = "spilling")
  /\ \A i \in 1..Len(offsets) : PointsBelow(offsets[i], end, Chained(file, n, i - 1))
  /\ phase = "spilling" => PointsBelow(next, end, Chained(file, n, Len(offsets)))

LEMMA LinkedFacts ==
  /\ ChainInv <=> Linked(blocks, Len(buckets), spillOffsets, nextSpill, length, pc)
  /\ ChainInv' <=> Linked(blocks', Len(buckets'), spillOffsets', nextSpill', length', pc')
<1>1. ChainInv <=> Linked(blocks, Len(buckets), spillOffsets, nextSpill, length, pc)
  BY Zenon DEF ChainInv, Linked, Chain, Chained, Goes, Blocks, Current
<1>2. ChainInv' <=> Linked(blocks', Len(buckets'), spillOffsets', nextSpill', length', pc')
  BY Zenon DEF ChainInv, Linked, Chain, Chained, Goes, Blocks, Current
<1> QED
  BY <1>1, <1>2

(* A new block behind the others belongs to the bucket being spilled.      *)
LEMMA ChainGrows ==
  ASSUME NEW file, NEW n, NEW new, NEW block \in Seq(Entry), NEW spill, NEW cur,
         new \notin DOMAIN file, block # <<>>,
         \A i \in DOMAIN block : Bucket(block[i].nhash, Modulus(n), n) = cur
  PROVE  LET grown == Put(file, new, [entries |-> block, spill |-> spill])
         IN /\ \A b : b # cur => Chained(grown, n, b) = Chained(file, n, b)
            /\ Chained(grown, n, cur) = Chained(file, n, cur) \cup {new}
<1> DEFINE In(f, q, b) ==
             \E i \in DOMAIN f[q].entries : Bucket(f[q].entries[i].nhash, Modulus(n), n) = b
           f2 == Put(file, new, [entries |-> block, spill |-> spill])
<1>1. /\ DOMAIN f2 = DOMAIN file \cup {new} /\ f2[new].entries = block
      /\ \A q \in DOMAIN file : f2[q] = file[q]
  BY DEF Put
<1>2. \A f, b : Chained(f, n, b) = {q \in DOMAIN f : In(f, q, b)}
  BY DEF Chained
<1> HIDE DEF f2
<1>3. \A b : In(f2, new, b) <=> b = cur
  <2>1. 1 \in DOMAIN block
    OBVIOUS
  <2> QED
    BY <1>1, <2>1
<1>4. \A q \in DOMAIN file : \A b : In(f2, q, b) <=> In(file, q, b)
  BY <1>1
<1> HIDE DEF In
<1>5. \A b, q : q \in Chained(f2, n, b) <=> q \in Chained(file, n, b) \/ (q = new /\ b = cur)
  BY <1>1, <1>2, <1>3, <1>4
<1>6. ASSUME NEW b, b # cur PROVE Chained(f2, n, b) = Chained(file, n, b)
  <2>1. \A q : q \in Chained(f2, n, b) <=> q \in Chained(file, n, b)
    BY <1>5, <1>6
  <2> QED
    BY <2>1
<1>7. Chained(f2, n, cur) = Chained(file, n, cur) \cup {new}
  BY <1>5
<1> QED
  BY <1>6, <1>7 DEF f2

(* It is the last of its chain, and points to the one that was.            *)
LEMMA LinkedGrows ==
  ASSUME NEW file, NEW n, NEW offsets, NEW end \in Nat, NEW next \in Nat, NEW end2 \in Nat,
         NEW block \in Seq(Entry), Len(offsets) \in Nat,
         \A q \in DOMAIN file : q \in Nat /\ q < end,
         Linked(file, n, offsets, next, end, "spilling"),
         end2 > end + 8, block # <<>>,
         \A i \in DOMAIN block : Bucket(block[i].nhash, Modulus(n), n) = Len(offsets)
  PROVE  Linked(Put(file, end + 8, [entries |-> block, spill |-> next]), n, offsets, end + 8, end2,
                "spilling")
<1> DEFINE new == end + 8
           f2 == Put(file, new, [entries |-> block, spill |-> next])
           cur == Len(offsets)
           old(b) == Chained(file, n, b)
           now(b) == Chained(f2, n, b)
<1>1. new \in Nat /\ new # 0 /\ end < new /\ new < end2 /\ cur \in Nat
  OBVIOUS
<1> HIDE DEF new, cur
<1>2. new \notin DOMAIN file
  BY <1>1
<1>3. DOMAIN f2 = DOMAIN file \cup {new} /\ f2[new].spill = next
      /\ \A q \in DOMAIN file : f2[q] = file[q]
  BY <1>2 DEF Put
<1>4. /\ \A b : b # cur => now(b) = old(b)
      /\ now(cur) = old(cur) \cup {new}
  <2>1. \A i \in DOMAIN block : Bucket(block[i].nhash, Modulus(n), n) = cur
    BY DEF cur
  <2>2. /\ \A b : b # cur => Chained(f2, n, b) = Chained(file, n, b)
        /\ Chained(f2, n, cur) = Chained(file, n, cur) \cup {new}
    BY <1>2, <2>1, ChainGrows
  <2> QED
    BY <2>2
<1>5. \A b : old(b) \subseteq DOMAIN file
  BY DEF Chained
<1>6. /\ \A q \in DOMAIN file : \A b, c \in Nat : q \in old(b) /\ q \in old(c) => b = c
      /\ \A b \in Nat : \A q \in old(b) : PointsBelow(file[q].spill, q, old(b)) /\ b <= cur
      /\ \A i \in 1..cur : PointsBelow(offsets[i], end, old(i - 1))
      /\ PointsBelow(next, end, old(cur))
  BY <1>1 DEF Linked, cur
<1> HIDE DEF f2, old, now
<1>7. \A q \in DOMAIN f2 : \A b, c \in Nat : q \in now(b) /\ q \in now(c) => b = c
  <2> SUFFICES ASSUME NEW q \in DOMAIN f2, NEW b \in Nat, NEW c \in Nat, q \in now(b), q \in now(c)
               PROVE  b = c
    OBVIOUS
  <2>1. CASE q = new
    BY <1>2, <1>4, <1>5, <2>1
  <2>2. CASE q # new
    BY <1>3, <1>4, <1>6, <2>2
  <2> QED
    BY <2>1, <2>2
<1>8. ASSUME NEW b \in Nat, NEW q \in now(b)
      PROVE  PointsBelow(f2[q].spill, q, now(b)) /\ b <= cur
  <2>1. CASE q \in old(b)
    <3>1. f2[q] = file[q] /\ PointsBelow(file[q].spill, q, old(b)) /\ b <= cur
      BY <1>3, <1>5, <1>6, <2>1
    <3>2. \A r \in now(b) : r < q => r \in old(b)
      BY <1>1, <1>4, <1>5, <2>1
    <3>3. old(b) \subseteq now(b)
      BY <1>4
    <3> QED
      BY <3>1, <3>2, <3>3 DEF PointsBelow
  <2>2. CASE q \notin old(b)
    <3>1. q = new /\ b = cur
      BY <1>4, <2>2
    <3>2. f2[q].spill = next /\ PointsBelow(next, end, old(cur))
      BY <1>1, <1>3, <1>6, <3>1
    <3>3. \A r \in now(cur) : r < new => r \in old(cur) /\ r < end
      BY <1>1, <1>4, <1>5
    <3>4. old(cur) \subseteq now(cur) /\ \A r \in old(cur) : r < new
      BY <1>1, <1>4, <1>5
    <3>5. PointsBelow(next, new, now(cur))
      BY <3>2, <3>3, <3>4 DEF PointsBelow
    <3> QED
      BY <1>1, <3>1, <3>2, <3>5
  <2> QED
    BY <2>1, <2>2
<1>9. \A i \in 1..cur : PointsBelow(offsets[i], end2, now(i - 1))
  <2> SUFFICES ASSUME NEW i \in 1..cur PROVE PointsBelow(offsets[i], end2, now(i - 1))
    OBVIOUS
  <2>1. now(i - 1) = old(i - 1)
    BY <1>1, <1>4
  <2>2. \A r \in old(i - 1) : r < end /\ r < end2
    BY <1>1, <1>5
  <2> QED
    BY <1>6, <2>1, <2>2 DEF PointsBelow
<1>10. PointsBelow(new, end2, now(cur))
  <2>1. \A r \in now(cur) : r <= new
    BY <1>1, <1>4, <1>5
  <2> QED
    BY <1>1, <1>4, <2>1 DEF PointsBelow
<1>11. \A b \in Nat : b <= cur => b < cur \/ b = cur
  BY <1>1
<1> QED
  BY <1>3, <1>7, <1>8, <1>9, <1>10, <1>11 DEF Linked, f2, old, now, cur, new

LEMMA NextChain ==
  ASSUME IInv, [Next]_vars
  PROVE  ChainInv'
<1> USE DEF IInv
<1>0. /\ buckets \in Seq(Seq(Entry)) /\ spillOffsets \in Seq(Nat) /\ length \in Nat
      /\ Current = Len(spillOffsets) /\ Current \in Nat /\ nextSpill \in Nat
      /\ \A q \in DOMAIN blocks : q \in Nat /\ q < length
      /\ Linked(blocks, Len(buckets), spillOffsets, nextSpill, length, pc)
  BY LinkedFacts DEF TypeOK, FileInv, Current, Blocks
<1> SUFFICES Linked(blocks', Len(buckets'), spillOffsets', nextSpill', length', pc')
  BY LinkedFacts
<1> DEFINE chain(b) == Chained(blocks, Len(buckets), b)
<1>1. CASE DOMAIN blocks' = {} /\ spillOffsets' = <<>> /\ pc' # "spilling"
  <2>1. \A b : Chained(blocks', Len(buckets'), b) = {}
    BY <1>1 DEF Chained
  <2>2. Len(spillOffsets') = 0
    BY <1>1
  <2> QED
    BY <1>1, <2>1, <2>2 DEF Linked
<1>2. CASE PlaceEntry
  <2>1. Len(buckets') = Len(buckets)
    BY <1>2, PlaceFacts
  <2>2. UNCHANGED <<blocks, length, spillOffsets, nextSpill, pc>>
    BY <1>2 DEF PlaceEntry
  <2> QED
    BY <1>0, <2>1, <2>2
<1>3. CASE SplitBucket
  <2>1. PICK i : i = Current + 1
    OBVIOUS
  <2>2. Len(buckets') = Len(buckets)
    <3>1. SplitsAt(i)
      BY <1>3, <2>1, SplitFacts
    <3> QED
      BY <3>1 DEF SplitsAt
  <2>3. /\ UNCHANGED <<blocks, length, spillOffsets>>
        /\ nextSpill' = 0 /\ pc = "filling" /\ pc' = "spilling"
    BY <1>3 DEF SplitBucket
  <2>4. chain(Len(spillOffsets)) = {}
    BY <1>0, <2>3 DEF Linked
  <2>5. PointsBelow(0, length, chain(Len(spillOffsets)))
    BY <2>4 DEF PointsBelow
  <2> QED
    BY <1>0, <2>2, <2>3, <2>5 DEF Linked
<1>4. CASE WriteSpillBlock
  <2>1. PICK block \in Seq(Entry) :
          /\ block # <<>>
          /\ blocks' = Put(blocks, length + 8, [entries |-> block, spill |-> nextSpill])
          /\ length' \in Nat /\ length' > length + 8
          /\ Cuts(overflow, overflow', block)
    BY <1>4, SpillFacts
  <2>2. /\ UNCHANGED <<buckets, spillOffsets>> /\ nextSpill' = length + 8
        /\ pc = "spilling" /\ pc' = "spilling"
    BY <1>4 DEF WriteSpillBlock, FileInv, CounterExact
  <2>3. \A i \in DOMAIN block :
          Bucket(block[i].nhash, Modulus(Len(buckets)), Len(buckets)) = Len(spillOffsets)
    BY <1>0, <2>1 DEF Cuts, EntriesInv, Goes
  <2> QED
    BY <1>0, <2>1, <2>2, <2>3, LinkedGrows
<1>5. CASE ChainWritten
  <2>1. /\ UNCHANGED <<blocks, buckets, length>>
        /\ spillOffsets' = Append(spillOffsets, nextSpill)
        /\ pc = "spilling" /\ pc' = "filling"
    BY <1>5 DEF ChainWritten
  <2>2. /\ Len(spillOffsets') = Current + 1 /\ spillOffsets'[Current + 1] = nextSpill
        /\ \A i \in 1..Current : spillOffsets'[i] = spillOffsets[i]
    BY <1>0, <2>1
  <2>3. \A i \in 1..Current + 1 : PointsBelow(spillOffsets'[i], length, chain(i - 1))
    <3> SUFFICES ASSUME NEW i \in 1..Current + 1
                 PROVE  PointsBelow(spillOffsets'[i], length, chain(i - 1))
      OBVIOUS
    <3>1. CASE i = Current + 1
      <4>1. i - 1 = Current /\ spillOffsets'[i] = nextSpill
        BY <1>0, <2>2, <3>1
      <4> QED
        BY <1>0, <2>1, <4>1 DEF Linked
    <3>2. CASE i # Current + 1
      <4>1. i \in 1..Current
        BY <1>0, <3>2
      <4>2. PointsBelow(spillOffsets[i], length, chain(i - 1))
        BY <1>0, <4>1 DEF Linked
      <4> QED
        BY <2>2, <4>1, <4>2
    <3> QED
      BY <3>1, <3>2
  <2>4. \A b \in Nat : b < Current \/ b = Current => b < Current + 1
    BY <1>0
  <2> QED
    BY <1>0, <2>1, <2>2, <2>3, <2>4 DEF Linked
<1>6. CASE /\ UNCHANGED <<blocks, buckets, length, spillOffsets, nextSpill>>
           /\ pc' = pc \/ (pc' # "spilling" /\ pc # "spilling")
  BY <1>0, <1>6 DEF Linked
<1>7. ASSUME NEW k \in Key, NEW v \in Value, WriteNode(k, v)
      PROVE  Linked(blocks', Len(buckets'), spillOffsets', nextSpill', length', pc')
  BY <1>1, <1>7 DEF WriteNode, PhaseInv, Blocks
<1>8. CASE SizeTable
  BY <1>1, <1>8 DEF SizeTable, PhaseInv, Blocks
<1> QED
  BY <1>2, <1>3, <1>4, <1>5, <1>6, <1>7, <1>8
     DEF Next, vars, store, WriteKeyFile, Fetch, Found, NextBlock, Absent

(* The buckets of the key file are those of the sink: the shard finds the  *)
(* one that an entry went to.                                              *)
LEMMA OpenFacts ==
  ASSUME IInv, pc = "open"
  PROVE  /\ Current = Len(buckets) /\ Len(buckets) \in Nat \ {0}
         /\ placed = <<>> /\ overflow = <<>>
         /\ \A nhash : BucketIndex(nhash) = Bucket(nhash, Modulus(Len(buckets)), Len(buckets))
         /\ \A nhash \in Nat : BucketIndex(nhash) \in Nat
         /\ \A e : Exact(e) => Goes(e) = BucketIndex(nhashOf[records[e.off].key])
<1> USE DEF IInv
<1>1. /\ Current = Len(buckets) /\ buckets # <<>> /\ overflow = <<>>
      /\ buckets \in Seq(Seq(Entry)) /\ spillOffsets \in Seq(Nat)
  BY DEF PhaseInv, TypeOK
<1>2. keyFile = [i \in DOMAIN buckets |-> [entries |-> buckets[i], spill |-> spillOffsets[i]]]
  BY Zenon DEF PhaseInv
<1>3. Len(buckets) \in Nat \ {0} /\ Len(keyFile) = Len(buckets)
  BY <1>1, <1>2
<1>4. placed = <<>>
  <2>1. spillOffsets # <<>>
    BY <1>1, <1>3 DEF Current
  <2> QED
    BY <2>1 DEF PhaseInv
<1>5. \A nhash : BucketIndex(nhash) = Bucket(nhash, Modulus(Len(buckets)), Len(buckets))
  BY <1>3, Zenon DEF BucketIndex, Bucket
<1>6. \A nhash \in Nat : BucketIndex(nhash) \in Nat
  BY <1>3, <1>5, BucketExists
<1>7. \A e : Exact(e) => Goes(e) = BucketIndex(nhashOf[records[e.off].key])
  BY <1>5 DEF Exact, Goes
<1> QED
  BY <1>1, <1>3, <1>4, <1>5, <1>6, <1>7

(* When no entry of a block matches, the node is in a block before it, or  *)
(* nowhere.                                                                *)
LEMMA MissFacts ==
  ASSUME IInv, pc = "open", fetch.state = "reading", Matching = {},
         NEW b, b = BucketIndex(nhashOf[fetch.key]),
         NEW p \in Records, records[p].key = fetch.key
  PROVE  \E q \in Chain(b) : q < fetch.from /\ Holds(blocks[q].entries, p)
<1>1. \/ Holds(fetch.block.entries, p)
      \/ \E q \in Chain(b) : q < fetch.from /\ Holds(blocks[q].entries, p)
  BY DEF IInv, FetchInv
<1>2. ASSUME NEW i \in DOMAIN fetch.block.entries, fetch.block.entries[i].off = p
      PROVE  FALSE
  <2>1. Exact(fetch.block.entries[i])
    BY DEF IInv, FetchInv
  <2>2. i \in Matching
    BY <1>2, <2>1 DEF Matching, Exact
  <2> QED
    BY <2>2
<1> QED
  BY <1>1, <1>2 DEF Holds

(* FetchInv, one named conjunct for each thing it says of a lookup.        *)
FetchBucket == BucketIndex(nhashOf[fetch.key])

EntriesExact == \A j \in DOMAIN fetch.block.entries : Exact(fetch.block.entries[j])

SpillBelow == PointsBelow(fetch.block.spill, fetch.from, Chain(FetchBucket))

StillAhead ==
  \A p \in Records : records[p].key = fetch.key =>
    \/ Holds(fetch.block.entries, p)
    \/ \E q \in Chain(FetchBucket) : q < fetch.from /\ Holds(blocks[q].entries, p)

LEMMA FetchParts ==
  /\ FetchInv <=> (fetch.state = "reading" => EntriesExact /\ SpillBelow /\ StillAhead)
  /\ FetchInv' <=> (fetch'.state = "reading" => EntriesExact' /\ SpillBelow' /\ StillAhead')
<1>1. FetchInv <=> (fetch.state = "reading" => EntriesExact /\ SpillBelow /\ StillAhead)
  BY Zenon DEF FetchInv, EntriesExact, SpillBelow, StillAhead, FetchBucket
<1>2. FetchInv' <=> (fetch'.state = "reading" => EntriesExact' /\ SpillBelow' /\ StillAhead')
  BY Zenon DEF FetchInv, EntriesExact, SpillBelow, StillAhead, FetchBucket
<1> QED
  BY <1>1, <1>2

(* A step of a lookup leaves the store alone, and what the invariant reads *)
(* of it.                                                                  *)
LEMMA StoreRests ==
  ASSUME UNCHANGED store
  PROVE  /\ Records' = Records /\ records' = records /\ blocks' = blocks
         /\ \A x : Exact(x)' <=> Exact(x)
         /\ \A b : Chain(b)' = Chain(b)
         /\ \A h : BucketIndex(h)' = BucketIndex(h)
<1>1. /\ records' = records /\ blocks' = blocks /\ nhashOf' = nhashOf /\ buckets' = buckets
      /\ keyFile' = keyFile
  BY DEF store
<1>2. Records' = Records /\ \A x : Exact(x)' <=> Exact(x)
  BY <1>1 DEF Records, Exact
<1>3. \A b : Chain(b)' = Chain(b)
  BY <1>1 DEF Chain, Goes, Blocks
<1>4. \A h : BucketIndex(h)' = BucketIndex(h)
  BY <1>1 DEF BucketIndex
<1> QED
  BY <1>1, <1>2, <1>3, <1>4

LEMMA NextFetch ==
  ASSUME IInv, [Next]_vars
  PROVE  FetchInv'
<1> USE DEF IInv
<1>1. ASSUME NEW k \in Key, Fetch(k)
      PROVE  FetchInv'
  <2>1. PICK i \in 1..Len(buckets) :
          /\ i - 1 = BucketIndex(nhashOf[k])
          /\ fetch' = [state |-> "reading", key |-> k, from |-> length,
                       block |-> [entries |-> buckets[i], spill |-> spillOffsets[i]]]
    BY <1>1, FetchFacts
  <2>2. pc = "open" /\ UNCHANGED <<store, pc>>
    BY <1>1 DEF Fetch
  <2>3. /\ Current = Len(buckets) /\ Len(buckets) \in Nat \ {0}
        /\ placed = <<>> /\ overflow = <<>>
        /\ \A e : Exact(e) => Goes(e) = BucketIndex(nhashOf[records[e.off].key])
    BY <2>2, OpenFacts
  <2>4. DOMAIN buckets = 1..Len(buckets) /\ \A p : ~Holds(placed, p) /\ ~Holds(overflow, p)
    BY <2>3 DEF TypeOK, Holds
  <2> DEFINE b == i - 1
  <2>5. \A j \in DOMAIN buckets[i] : Exact(buckets[i][j])
    BY <2>4 DEF EntriesInv
  <2>6. PointsBelow(spillOffsets[i], length, Chain(b))
    BY <2>3 DEF ChainInv
  <2>7. ASSUME NEW p \in Records, records[p].key = k
        PROVE  \/ Holds(buckets[i], p)
               \/ \E q \in Chain(b) : q < length /\ Holds(blocks[q].entries, p)
    <3>1. CASE \E h \in DOMAIN buckets : Holds(buckets[h], p)
      <4>0. PICK h \in DOMAIN buckets : Holds(buckets[h], p)
        BY <3>1
      <4>1. PICK j \in DOMAIN buckets[h] : buckets[h][j].off = p
        BY <4>0 DEF Holds
      <4>2. Exact(buckets[h][j]) /\ Goes(buckets[h][j]) = h - 1
        BY DEF EntriesInv
      <4>3. Goes(buckets[h][j]) = i - 1
        BY <2>1, <2>3, <2>7, <4>1, <4>2
      <4>4. h = i
        BY <2>3, <2>4, <4>2, <4>3
      <4> QED
        BY <4>0, <4>4
    <3>2. CASE \E q \in Blocks : Holds(blocks[q].entries, p)
      <4>0. PICK q \in Blocks : Holds(blocks[q].entries, p)
        BY <3>2
      <4>1. PICK j \in DOMAIN blocks[q].entries : blocks[q].entries[j].off = p
        BY <4>0 DEF Holds
      <4>2. Exact(blocks[q].entries[j])
        BY DEF EntriesInv
      <4>3. Goes(blocks[q].entries[j]) = b
        BY <2>1, <2>3, <2>7, <4>1, <4>2
      <4>4. q \in Chain(b) /\ q < length
        BY <4>3 DEF Chain, FileInv
      <4> QED
        BY <4>0, <4>4
    <3> QED
      BY <2>4, <3>1, <3>2 DEF RecordsInv
  <2>8. /\ fetch'.key = k /\ fetch'.from = length
        /\ fetch'.block.entries = buckets[i] /\ fetch'.block.spill = spillOffsets[i]
    BY <2>1
  <2>9. /\ Records' = Records /\ records' = records /\ blocks' = blocks
        /\ \A x : Exact(x)' <=> Exact(x)
        /\ \A c : Chain(c)' = Chain(c)
        /\ \A h : BucketIndex(h)' = BucketIndex(h)
    BY <2>2, StoreRests
  <2>10. FetchBucket' = b
    BY <2>1, <2>2, <2>8, <2>9 DEF FetchBucket, store
  <2> HIDE DEF b
  <2>11. EntriesExact'
    BY <2>5, <2>8, <2>9 DEF EntriesExact
  <2>12. SpillBelow'
    BY <2>6, <2>8, <2>9, <2>10 DEF SpillBelow, PointsBelow
  <2>13. StillAhead'
    BY <2>7, <2>8, <2>9, <2>10 DEF StillAhead, Holds
  <2> QED
    BY <2>11, <2>12, <2>13, FetchParts
<1>2. CASE NextBlock
  <2> DEFINE s == fetch.block.spill
             b == BucketIndex(nhashOf[fetch.key])
  <2>1. /\ pc = "open" /\ UNCHANGED <<store, pc>> /\ fetch.state = "reading"
        /\ Matching = {} /\ s # 0
    BY <1>2 DEF NextBlock
  <2>2. /\ fetch.key \in Key
        /\ fetch \in [state : {"reading", "garbage"}, key : Key, from : Nat, block : Block]
    BY <2>1, ReadingFacts
  <2>3. b \in Nat
    BY <2>1, <2>2, OpenFacts, TableAssumption DEF TypeOK
  <2>4. PointsBelow(s, fetch.from, Chain(b))
    BY <2>1 DEF FetchInv
  <2>5. s \in Chain(b) /\ s \in Blocks
    BY <2>1, <2>4 DEF PointsBelow, Chain
  <2>6. /\ fetch'.state = "reading" /\ fetch'.key = fetch.key
        /\ fetch'.from = s /\ fetch'.block = blocks[s]
    BY <1>2, <2>1, <2>2, <2>5 DEF NextBlock
  <2>7. \A j \in DOMAIN blocks[s].entries : Exact(blocks[s].entries[j])
    BY <2>5 DEF EntriesInv
  <2>8. PointsBelow(blocks[s].spill, s, Chain(b))
    BY <2>3, <2>5 DEF ChainInv
  <2>9. ASSUME NEW p \in Records, records[p].key = fetch.key
        PROVE  \/ Holds(blocks[s].entries, p)
               \/ \E q \in Chain(b) : q < s /\ Holds(blocks[q].entries, p)
    <3>1. PICK q \in Chain(b) : q < fetch.from /\ Holds(blocks[q].entries, p)
      BY <2>1, <2>9, MissFacts
    <3>2. q <= s /\ q \in Nat /\ s \in Nat
      BY <2>4, <2>5, <3>1 DEF PointsBelow, Chain, TypeOK
    <3>3. q = s \/ q < s
      BY <3>2
    <3> QED
      BY <3>1, <3>3
  <2>10. /\ Records' = Records /\ records' = records /\ blocks' = blocks
         /\ \A x : Exact(x)' <=> Exact(x)
         /\ \A c : Chain(c)' = Chain(c)
         /\ \A h : BucketIndex(h)' = BucketIndex(h)
    BY <2>1, StoreRests
  <2>11. FetchBucket' = b
    BY <2>1, <2>6, <2>10 DEF FetchBucket, store
  <2> HIDE DEF s, b
  <2>12. EntriesExact'
    BY <2>6, <2>7, <2>10 DEF EntriesExact
  <2>13. SpillBelow'
    BY <2>6, <2>8, <2>10, <2>11 DEF SpillBelow, PointsBelow
  <2>14. StillAhead'
    BY <2>6, <2>9, <2>10, <2>11 DEF StillAhead, Holds
  <2> QED
    BY <2>12, <2>13, <2>14, FetchParts
<1>3. CASE fetch'.state # "reading"
  BY <1>3 DEF FetchInv
<1>4. CASE pc # "open" /\ UNCHANGED fetch
  BY <1>3, <1>4 DEF PhaseInv, Idle
<1>5. CASE UNCHANGED vars
  <2>1. UNCHANGED store /\ fetch' = fetch
    BY <1>5 DEF vars, store
  <2>2. /\ Records' = Records /\ records' = records /\ blocks' = blocks
        /\ \A x : Exact(x)' <=> Exact(x)
        /\ \A c : Chain(c)' = Chain(c)
        /\ \A h : BucketIndex(h)' = BucketIndex(h)
    BY <2>1, StoreRests
  <2>3. FetchBucket' = FetchBucket
    BY <2>1, <2>2 DEF FetchBucket, store
  <2>4. EntriesExact' <=> EntriesExact
    BY <2>1, <2>2 DEF EntriesExact
  <2>5. SpillBelow' <=> SpillBelow
    BY <2>1, <2>2, <2>3 DEF SpillBelow, PointsBelow
  <2>6. StillAhead' <=> StillAhead
    BY <2>1, <2>2, <2>3 DEF StillAhead, Holds
  <2> QED
    BY <2>1, <2>4, <2>5, <2>6, FetchParts
<1>6. CASE Found
  BY <1>3, <1>6 DEF Found
<1>7. CASE Absent
  BY <1>3, <1>7 DEF Absent
<1> QED
  BY <1>1, <1>2, <1>4, <1>5, <1>6, <1>7
     DEF Next, WriteNode, SizeTable, PlaceEntry, SplitBucket, WriteSpillBlock, ChainWritten, WriteKeyFile

(* What a lookup comes to.                                                 *)
LEMMA NextExact ==
  ASSUME IInv, FetchExact, [Next]_vars
  PROVE  FetchExact'
<1> USE DEF IInv
<1>1. CASE Found
  <2>1. PICK i \in Matching :
          fetch' = [state |-> "found", key |-> fetch.key, size |-> fetch.block.entries[i].size]
    BY <1>1 DEF Found
  <2> DEFINE e == fetch.block.entries[i]
  <2>2. Exact(e) /\ e.off \in Records /\ records[e.off].key = fetch.key
    BY <1>1, <2>1 DEF Found, FetchInv, Matching
  <2>3. records[e.off].value = e.size
    BY <2>2 DEF Exact
  <2>4. \A q \in Records : records[q].key = fetch.key => e.off <= q
    <3> HIDE DEF e
    <3>1. \A q \in Records : records[q].key = fetch.key => e.off = q
      BY <2>2 DEF FileInv
    <3>2. e.off \in Nat
      BY <2>2 DEF TypeOK
    <3> QED
      BY <3>1, <3>2
  <2>5. fetch'.state = "found" /\ fetch'.key = fetch.key /\ fetch'.size = e.size
    BY <2>1
  <2>6. records' = records
    BY <1>1 DEF Found, store
  <2> HIDE DEF e
  <2> QED
    BY <2>2, <2>3, <2>4, <2>5, <2>6 DEF FetchExact, Records
<1>2. CASE Absent
  <2>1. /\ pc = "open" /\ fetch.state = "reading" /\ Matching = {} /\ fetch.block.spill = 0
        /\ fetch' = [state |-> "absent", key |-> fetch.key] /\ records' = records
    BY <1>2 DEF Absent, store
  <2>2. PICK b : b = BucketIndex(nhashOf[fetch.key])
    OBVIOUS
  <2>3. \A q \in Chain(b) : ~(q < fetch.from)
    BY <2>1, <2>2 DEF FetchInv, PointsBelow
  <2>4. \A p \in Records : records[p].key # fetch.key
    BY <2>1, <2>2, <2>3, MissFacts
  <2> QED
    BY <2>1, <2>4 DEF FetchExact, Seen, Records
<1>3. CASE NextBlock
  <2>1. fetch.state = "reading" /\ fetch.block.spill # 0
    BY <1>3 DEF NextBlock
  <2>2. fetch.block.spill \in Blocks
    BY <2>1 DEF FetchInv, PointsBelow, Chain
  <2>3. fetch \in [state : {"reading", "garbage"}, key : Key, from : Nat, block : Block]
    BY <2>1, ReadingFacts
  <2>4. fetch'.state = "reading"
    BY <1>3, <2>1, <2>2, <2>3 DEF NextBlock
  <2> QED
    BY <2>4 DEF FetchExact
<1>4. ASSUME NEW k \in Key, Fetch(k) PROVE FetchExact'
  BY <1>4 DEF Fetch, FetchExact
<1>5. CASE pc # "open" /\ UNCHANGED fetch
  BY <1>5 DEF FetchExact, PhaseInv, Idle
<1>6. CASE UNCHANGED vars
  BY <1>6 DEF vars, FetchExact, Records, Seen
<1> QED
  BY <1>1, <1>2, <1>3, <1>4, <1>5, <1>6
     DEF Next, WriteNode, SizeTable, PlaceEntry, SplitBucket, WriteSpillBlock, ChainWritten,
         WriteKeyFile

-----------------------------------------------------------------------------
(* The theorems                                                            *)

LEMMA IInvCorrect == Spec => []IInv
<1>1. IInv /\ [Next]_vars => IInv'
  BY NextType, NextPhase, NextFile, NextEntries, NextRecords, NextChain, NextFetch DEF IInv
<1> QED
  BY <1>1, InitIInv, PTL DEF Spec

\* No file holds anything but what it should, and a bucket or a spill block
\* fits its 4096 bytes (writer.rs 245-323).
LEMMA TypeCorrect == Spec => []TypeOK
<1>1. IInv => TypeOK
  BY DEF IInv
<1> QED
  BY <1>1, IInvCorrect, PTL

\* Shard::fetch on a store that the sink has written returns, for a hash that
\* was written, the value it was first written with, and nothing for any
\* other, in whatever order the nodes came and however the prefixes of their
\* hashes collide; it never reads a spill block where there is none.
THEOREM FetchIsExact == Spec => []FetchExact
<1>1. Init => FetchExact
  BY DEF Init, FetchExact, Idle
<1>2. IInv /\ FetchExact /\ [Next]_vars => FetchExact'
  BY NextExact
<1> QED
  BY <1>1, <1>2, IInvCorrect, PTL DEF Spec

\* Every block that Shard::fetch goes on to lies before the one it comes from
\* (keyfile.rs, fetch's loop over the chain): no lookup goes round.
THEOREM ChainsDescend == Spec => ChainDescends
<1>1. ASSUME IInv, NextBlock
      PROVE  fetch'.from < fetch.from
  <2>1. /\ fetch.state = "reading" /\ fetch.block.spill # 0
    BY <1>1 DEF NextBlock
  <2>2. fetch.block.spill < fetch.from /\ fetch.block.spill \in Blocks
    BY <1>1, <2>1 DEF IInv, FetchInv, PointsBelow, Chain
  <2>3. fetch \in [state : {"reading", "garbage"}, key : Key, from : Nat, block : Block]
    BY <1>1, <2>1, ReadingFacts DEF IInv
  <2> QED
    BY <1>1, <2>2, <2>3 DEF NextBlock
<1>2. IInv /\ [Next]_vars => [NextBlock => fetch'.from < fetch.from]_vars
  BY <1>1
<1> QED
  BY <1>2, IInvCorrect, PTL DEF Spec, ChainDescends

=============================================================================
