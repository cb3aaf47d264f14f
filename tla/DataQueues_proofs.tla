-------------------------- MODULE DataQueues_proofs --------------------------
(***************************************************************************)
(* What the queue operations of DataQueues return, for queues of any       *)
(* length and scans of any number of points: the lemmas MeasureSync_proofs *)
(* and others cite.                                                        *)
(***************************************************************************)
EXTENDS DataQueues, FiniteSetTheorems, SequenceTheorems, WellFoundedInduction, TLAPS

(***************************************************************************)
(* Least elements.  They take the place of induction in these proofs: what *)
(* fails somewhere fails at a first place.                                 *)
(***************************************************************************)
LEMMA LeastNat ==
  ASSUME NEW T, T \subseteq Nat, T # {}
  PROVE  \E m \in T : \A n \in T : m <= n
<1> DEFINE below == {0..n : n \in T}
<1>1. below \subseteq FiniteSubsetsOf(Nat) /\ below # {}
  <2>1. ASSUME NEW n \in T PROVE 0..n \in FiniteSubsetsOf(Nat)
    <3>1. n \in Nat /\ IsFiniteSet(0..n)
      BY FS_Interval
    <3> QED  BY <3>1 DEF FiniteSubsetsOf
  <2> QED  BY <2>1
<1>2. PICK x \in below : \A y \in below : ~ (<<y, x>> \in StrictSubsetOrdering(Nat))
  <2> HIDE DEF below
  <2> QED  BY <1>1, FS_StrictSubsetOrderingWellFounded, WFMin
<1>3. PICK m \in T : x = 0..m
  OBVIOUS
<1>4. ASSUME NEW n \in T, n < m PROVE FALSE
  <2>1. 0..n \subseteq 0..m /\ m \in 0..m /\ m \notin 0..n
    BY <1>4
  <2>2. <<0..n, 0..m>> \in StrictSubsetOrdering(Nat)
    BY <2>1 DEF StrictSubsetOrdering
  <2>3. 0..n \in below
    OBVIOUS
  <2> HIDE DEF below
  <2> QED  BY <2>2, <2>3, <1>2, <1>3
<1> QED  BY <1>4

(* Samples appended in two batches or in one: the same queue.              *)
LEMMA AppendedTwice ==
  ASSUME NEW S, NEW s \in Seq(S), NEW t \in Seq(S), NEW u \in Seq(S)
  PROVE  (s \o t) \o u = s \o (t \o u)
BY ConcatAssociative

(* The length of the longest prefix of 1..n that lies in A.                *)
LEMMA LongestPrefix ==
  ASSUME NEW n \in Nat, NEW A
  PROVE  LET c == Cardinality({k \in 1..n : \A j \in 1..k : j \in A})
         IN  /\ c \in 0..n /\ 1..c \subseteq A
             /\ c < n => c + 1 \notin A
<1> DEFINE K == {k \in 1..n : \A j \in 1..k : j \in A}
           Out == {k \in 1..n : k \notin A}
           c == Cardinality(K)
<1> SUFFICES c \in 0..n /\ 1..c \subseteq A /\ (c < n => c + 1 \notin A)
  OBVIOUS
<1>1. CASE Out = {}
  <2>1. K = 1..n /\ 1..n \subseteq A
    BY <1>1
  <2>2. Cardinality(1..n) = n
    BY FS_Interval
  <2>3. c = n
    BY <2>1, <2>2
  <2> HIDE DEF c, K, Out
  <2> QED  BY <2>1, <2>3
<1>2. CASE Out # {}
  <2>1. PICK m \in Out : \A k \in Out : m <= k
    <3>1. Out \subseteq Nat
      OBVIOUS
    <3> HIDE DEF Out
    <3> QED  BY <1>2, <3>1, LeastNat
  <2>2. m \in 1..n /\ m \notin A /\ \A j \in 1..(m - 1) : j \in A
    BY <2>1
  <2>3. K = 1..(m - 1)
    BY <2>2
  <2>4. Cardinality(1..(m - 1)) = m - 1
    <3> HIDE DEF K, Out, c
    <3>1. m - 1 \in Int /\ 1 \in Int /\ m \in Nat
      BY <2>2
    <3>2. Cardinality(1..(m - 1)) = IF 1 > m - 1 THEN 0 ELSE (m - 1) - 1 + 1
      BY <3>1, FS_Interval
    <3> QED  BY <2>2, <3>2
  <2>5. c = m - 1
    BY <2>3, <2>4
  <2> HIDE DEF c, K, Out
  <2> QED  BY <2>2, <2>5
<1> QED  BY <1>1, <1>2

LEMMA SeqFacts ==
  ASSUME NEW S, NEW s \in Seq(S)
  PROVE  /\ Len(s) \in Nat /\ DOMAIN s = 1..Len(s)
         /\ \A k \in DOMAIN s : s[k] \in S
         /\ s # <<>> <=> Len(s) >= 1
         /\ s # <<>> => Head(s) = s[1] /\ Head(s) \in S /\ 1 \in DOMAIN s
                        /\ Len(s) \in DOMAIN s
  OBVIOUS

LEMMA TailFacts ==
  ASSUME NEW S, NEW s \in Seq(S), s # <<>>
  PROVE  /\ Tail(s) \in Seq(S) /\ Len(Tail(s)) = Len(s) - 1
         /\ DOMAIN Tail(s) = 1..(Len(s) - 1)
         /\ \A k \in DOMAIN Tail(s) : Tail(s)[k] = s[k + 1] /\ k + 1 \in DOMAIN s
<1>1. /\ Tail(s) \in Seq(S) /\ Len(Tail(s)) = Len(s) - 1
      /\ \A k \in 1..Len(Tail(s)) : Tail(s)[k] = s[k + 1]
  BY HeadTailProperties
<1>2. DOMAIN Tail(s) = 1..(Len(s) - 1) /\ DOMAIN s = 1..Len(s) /\ Len(s) \in Nat
  BY <1>1, SeqFacts
<1>3. \A k \in 1..(Len(s) - 1) : k + 1 \in DOMAIN s
  BY <1>2
<1> QED  BY <1>1, <1>2, <1>3

LEMMA AppendFacts ==
  ASSUME NEW S, NEW s \in Seq(S), NEW e \in S
  PROVE  /\ Append(s, e) \in Seq(S) /\ Len(Append(s, e)) = Len(s) + 1
         /\ DOMAIN Append(s, e) = 1..(Len(s) + 1)
         /\ \A k \in DOMAIN s : Append(s, e)[k] = s[k]
         /\ Append(s, e)[Len(s) + 1] = e
         /\ Append(s, e) # <<>>
  OBVIOUS

-----------------------------------------------------------------------------
(* Scans: sets of points that have a first and a last one.                 *)
HasEnds(scan) == \E a, b \in scan : \A t \in scan : a <= t /\ t <= b

LEMMA EndsFacts ==
  ASSUME NEW scan, scan \subseteq Int, HasEnds(scan)
  PROVE  /\ Earliest(scan) \in scan /\ \A t \in scan : Earliest(scan) <= t
         /\ Latest(scan) \in scan /\ \A t \in scan : t <= Latest(scan)
  BY DEF HasEnds, Earliest, Latest

(* Any points of such a scan, if there are any, have ends too.             *)
LEMMA EndsOfPart ==
  ASSUME NEW scan, scan \subseteq Int, HasEnds(scan), NEW part, part \subseteq scan, part # {}
  PROVE  HasEnds(part)
<1>1. PICK a \in Int, b \in Int : \A t \in scan : a <= t /\ t <= b
  BY DEF HasEnds
<1>2. \E u \in part : \A t \in part : u <= t
  <2> DEFINE above == {t - a : t \in part}
  <2>1. above \subseteq Nat /\ above # {}
    <3>1. ASSUME NEW t \in part PROVE t - a \in Nat
      BY <1>1
    <3> QED  BY <3>1
  <2>2. PICK m \in above : \A n \in above : m <= n
    <3> HIDE DEF above
    <3> QED  BY <2>1, LeastNat
  <2>3. PICK u \in part : m = u - a
    OBVIOUS
  <2>4. ASSUME NEW t \in part PROVE u <= t
    <3>1. t - a \in above /\ t \in Int /\ u \in Int
      OBVIOUS
    <3>2. u - a <= t - a
      BY <2>2, <2>3, <3>1
    <3> QED  BY <1>1, <3>1, <3>2
  <2> QED  BY <2>4
<1>3. \E v \in part : \A t \in part : t <= v
  <2> DEFINE under == {b - t : t \in part}
  <2>1. under \subseteq Nat /\ under # {}
    <3>1. ASSUME NEW t \in part PROVE b - t \in Nat
      BY <1>1
    <3> QED  BY <3>1
  <2>2. PICK m \in under : \A n \in under : m <= n
    <3> HIDE DEF under
    <3> QED  BY <2>1, LeastNat
  <2>3. PICK v \in part : m = b - v
    OBVIOUS
  <2>4. ASSUME NEW t \in part PROVE t <= v
    <3>1. b - t \in under /\ t \in Int /\ v \in Int
      OBVIOUS
    <3>2. b - v <= b - t
      BY <2>2, <2>3, <3>1
    <3> QED  BY <1>1, <3>1, <3>2
  <2> QED  BY <2>4
<1> QED  BY <1>2, <1>3 DEF HasEnds

LEMMA ShiftFacts ==
  ASSUME NEW scan, scan \subseteq Int, HasEnds(scan), NEW d \in Int
  PROVE  Shift(scan, d) \subseteq Int /\ HasEnds(Shift(scan, d))
<1>1. Shift(scan, d) \subseteq Int
  BY DEF Shift
<1>2. PICK a \in scan, b \in scan : \A t \in scan : a <= t /\ t <= b
  BY DEF HasEnds
<1>3. /\ a - d \in Shift(scan, d) /\ b - d \in Shift(scan, d)
      /\ \A t \in Shift(scan, d) : a - d <= t /\ t <= b - d
  BY <1>2 DEF Shift
<1> QED  BY <1>1, <1>3 DEF HasEnds

-----------------------------------------------------------------------------
(* IMU samples.                                                            *)
LEMMA BeforeMaxFacts ==
  ASSUME imuQ \in Seq(Int), NEW max \in Int
  PROVE  /\ BeforeMax(max) \in 0..Len(imuQ)
         /\ \A j \in 1..BeforeMax(max) : imuQ[j] < max
         /\ BeforeMax(max) < Len(imuQ) => imuQ[BeforeMax(max) + 1] >= max
<1> DEFINE n == Len(imuQ)
           A == {j \in 1..n : imuQ[j] < max}
           c == Cardinality({k \in 1..n : \A j \in 1..k : j \in A})
<1>1. n \in Nat /\ \A j \in 1..n : imuQ[j] \in Int
  OBVIOUS
<1>2. {k \in 1..n : \A j \in 1..k : j \in A}
        = {k \in 1..n : \A j \in 1..k : imuQ[j] < max}
  BY <1>1
<1>3. BeforeMax(max) = c
  BY <1>2 DEF BeforeMax
<1>4. c \in 0..n /\ 1..c \subseteq A /\ (c < n => c + 1 \notin A)
  <2> HIDE DEF A, n
  <2> QED  BY <1>1, LongestPrefix
<1> HIDE DEF c
<1>5. c < n => imuQ[c + 1] >= max
  BY <1>1, <1>4
<1> QED  BY <1>3, <1>4, <1>5

(* popImu() hands out everything before max and the boundary sample, and   *)
(* keeps that sample and everything after it.                              *)
LEMMA PoppedImuFacts ==
  ASSUME imuQ \in Seq(Int), NEW max \in Int
  PROVE  LET m == Len(PoppedImu(max))
         IN  /\ PoppedImu(max) \in Seq(Int)
             /\ m = IF BeforeMax(max) < Len(imuQ) THEN BeforeMax(max) + 1 ELSE Len(imuQ)
             /\ \A j \in 1..m : PoppedImu(max)[j] = imuQ[j]
<1> DEFINE b == BeforeMax(max)
           m == IF b < Len(imuQ) THEN b + 1 ELSE b
<1>1. b \in 0..Len(imuQ) /\ m \in 0..Len(imuQ) /\ PoppedImu(max) = SubSeq(imuQ, 1, m)
  <2>1. PoppedImu(max) = SubSeq(imuQ, 1, m)
    BY DEF PoppedImu
  <2>2. b \in 0..Len(imuQ) /\ Len(imuQ) \in Nat
    BY BeforeMaxFacts
  <2> HIDE DEF b
  <2> QED  BY <2>1, <2>2
<1>2. m = IF b < Len(imuQ) THEN b + 1 ELSE Len(imuQ)
  BY <1>1
<1>3. \A j \in 1..m : imuQ[j] \in Int
  BY <1>1
<1> HIDE DEF m, b
<1>4. /\ SubSeq(imuQ, 1, m) \in Seq(Int) /\ Len(SubSeq(imuQ, 1, m)) = m
      /\ \A j \in 1..m : SubSeq(imuQ, 1, m)[j] = imuQ[j]
  BY <1>1, <1>3, SubSeqProperties
<1> QED  BY <1>1, <1>2, <1>4 DEF b

LEMMA ImuLeftFacts ==
  ASSUME imuQ \in Seq(Int), NEW max \in Int
  PROVE  /\ ImuLeft(max) \in Seq(Int)
         /\ Len(ImuLeft(max)) = Len(imuQ) - BeforeMax(max)
         /\ \A j \in 1..Len(ImuLeft(max)) : ImuLeft(max)[j] = imuQ[BeforeMax(max) + j]
<1> DEFINE b == BeforeMax(max)
           left == SubSeq(imuQ, b + 1, Len(imuQ))
<1>1. b \in 0..Len(imuQ) /\ Len(imuQ) \in Nat /\ ImuLeft(max) = left
  BY BeforeMaxFacts DEF ImuLeft
<1>2. \A j \in (b + 1)..Len(imuQ) : imuQ[j] \in Int
  BY <1>1
<1> HIDE DEF b
<1>3. /\ left \in Seq(Int)
      /\ Len(left) = IF b + 1 <= Len(imuQ) THEN Len(imuQ) - (b + 1) + 1 ELSE 0
      /\ \A j \in 1..Len(imuQ) - (b + 1) + 1 : left[j] = imuQ[b + 1 + j - 1]
  BY <1>1, <1>2, SubSeqProperties
<1>4. Len(left) = Len(imuQ) - b
  BY <1>1, <1>3
<1>5. \A j \in 1..Len(left) : left[j] = imuQ[b + j]
  BY <1>1, <1>3, <1>4
<1> HIDE DEF left
<1> QED  BY <1>1, <1>3, <1>4, <1>5 DEF b

-----------------------------------------------------------------------------
(* The LiDAR queue: scans one after the other, none of them empty.         *)
ScansInOrder(q) ==
  /\ q \in Seq(SUBSET Int)
  /\ \A k \in DOMAIN q : HasEnds(q[k])
  /\ \A i, j \in DOMAIN q : i < j => \A p \in q[i], r \in q[j] : p <= r

LEMMA WholeScansFacts ==
  ASSUME ScansInOrder(lidarQ), NEW max \in Int
  PROVE  /\ WholeScans(max) \in 0..Len(lidarQ)
         /\ \A j \in 1..WholeScans(max) : \A p \in lidarQ[j] : p <= max
         /\ WholeScans(max) < Len(lidarQ)
              => Latest(lidarQ[WholeScans(max) + 1]) > max
<1> DEFINE n == Len(lidarQ)
           A == {j \in 1..n : Latest(lidarQ[j]) <= max}
           c == Cardinality({k \in 1..n : \A j \in 1..k : j \in A})
<1>1. /\ n \in Nat
      /\ \A j \in 1..n : /\ lidarQ[j] \subseteq Int
                         /\ Latest(lidarQ[j]) \in Int
                         /\ \A p \in lidarQ[j] : p <= Latest(lidarQ[j])
  BY EndsFacts DEF ScansInOrder
<1>2. {k \in 1..n : \A j \in 1..k : j \in A}
        = {k \in 1..n : \A j \in 1..k : Latest(lidarQ[j]) <= max}
  BY <1>1
<1>3. WholeScans(max) = c
  BY <1>2 DEF WholeScans
<1>4. c \in 0..n /\ 1..c \subseteq A /\ (c < n => c + 1 \notin A)
  <2> HIDE DEF A, n
  <2> QED  BY <1>1, LongestPrefix
<1> HIDE DEF c
<1>5. c < n => Latest(lidarQ[c + 1]) > max
  BY <1>1, <1>4
<1>6. \A j \in 1..c : \A p \in lidarQ[j] : p <= max
  BY <1>1, <1>4
<1> QED  BY <1>3, <1>4, <1>5, <1>6

(* popLidar() hands out points that were queued, none of them after max.   *)
LEMMA PoppedPointsFacts ==
  ASSUME ScansInOrder(lidarQ), NEW max \in Int, NEW p \in PoppedPoints(max)
  PROVE  p \in Int /\ p <= max /\ \E k \in DOMAIN lidarQ : p \in lidarQ[k]
<1>1. CASE \E k \in 1..WholeScans(max) : p \in lidarQ[k]
  BY <1>1, WholeScansFacts DEF ScansInOrder
<1>2. CASE \E k \in SplitScan(max) : p \in UpTo(lidarQ[k], max)
  BY <1>2, WholeScansFacts DEF ScansInOrder, SplitScan, UpTo
<1> QED  BY <1>1, <1>2 DEF PoppedPoints

(* What popLidar() leaves: the scans it did not hand out, in order, none   *)
(* of them empty, every point after max.                                   *)
LEMMA LidarLeftFacts ==
  ASSUME ScansInOrder(lidarQ), NEW max \in Int
  PROVE  LET left == LidarLeft(max)
             w    == WholeScans(max)
         IN  /\ ScansInOrder(left)
             /\ Len(left) = Len(lidarQ) - w
             /\ \A k \in DOMAIN left : /\ w + k \in DOMAIN lidarQ
                                       /\ left[k] \subseteq lidarQ[w + k]
                                       /\ \A p \in left[k] : p > max
<1> DEFINE w == WholeScans(max)
           rest == SubSeq(lidarQ, w + 1, Len(lidarQ))
           left == LidarLeft(max)
           n == Len(lidarQ) - w
<1>1. /\ lidarQ \in Seq(SUBSET Int) /\ Len(lidarQ) \in Nat /\ w \in 0..Len(lidarQ)
      /\ w < Len(lidarQ) => Latest(lidarQ[w + 1]) > max
  BY WholeScansFacts DEF ScansInOrder
<1>0. w = WholeScans(max)
  OBVIOUS
<1> HIDE DEF w
<1>2. /\ rest \in Seq(SUBSET Int) /\ Len(rest) = n /\ n \in Nat
      /\ \A k \in 1..n : rest[k] = lidarQ[w + k]
  <2>1. \A j \in (w + 1)..Len(lidarQ) : lidarQ[j] \in SUBSET Int
    BY <1>1
  <2>2. /\ rest \in Seq(SUBSET Int)
        /\ Len(rest) = IF w + 1 <= Len(lidarQ) THEN Len(lidarQ) - (w + 1) + 1 ELSE 0
        /\ \A j \in 1..Len(lidarQ) - (w + 1) + 1 : rest[j] = lidarQ[w + 1 + j - 1]
    BY <1>1, <2>1, SubSeqProperties
  <2> QED  BY <1>1, <2>2
<1>3. \A k \in 1..n : w + k \in DOMAIN lidarQ /\ lidarQ[w + k] \subseteq Int
                      /\ HasEnds(lidarQ[w + k])
  <2>1. ASSUME NEW k \in 1..n PROVE w + k \in 1..Len(lidarQ)
    BY <1>1
  <2> QED  BY <1>1, <2>1 DEF ScansInOrder
<1>4. ASSUME n > 0
      PROVE  LET z == Latest(lidarQ[w + 1])
             IN  /\ z \in lidarQ[w + 1] /\ z \in Int /\ z > max
                 /\ \A k \in 2..n : \A p \in lidarQ[w + k] : p > max
  <2>0. 1 \in 1..n /\ w < Len(lidarQ)
    BY <1>1, <1>2, <1>4
  <2>1. Latest(lidarQ[w + 1]) \in lidarQ[w + 1] /\ Latest(lidarQ[w + 1]) > max
    BY <1>1, <1>3, <2>0, EndsFacts
  <2>2. ASSUME NEW k \in 2..n, NEW p \in lidarQ[w + k]
        PROVE  p > max
    <3>1. w + 1 < w + k /\ w + 1 \in DOMAIN lidarQ /\ w + k \in DOMAIN lidarQ
      BY <1>1, <1>3, <2>0
    <3>2. Latest(lidarQ[w + 1]) <= p
      BY <2>1, <3>1 DEF ScansInOrder
    <3>3. Latest(lidarQ[w + 1]) \in Int /\ p \in Int
      BY <1>3, <2>0, <2>1
    <3> QED  BY <2>1, <3>2, <3>3
  <2> QED  BY <1>3, <2>0, <2>1, <2>2
<1>5. /\ left \in Seq(SUBSET Int) /\ Len(left) = n
      /\ \A k \in 1..n : left[k] \subseteq lidarQ[w + k] /\ HasEnds(left[k])
      /\ \A k \in 1..n : \A p \in left[k] : p > max
  <2>1. CASE SplitScan(max) = {}
    <3>1. left = rest
      BY <1>0, <2>1 DEF LidarLeft
    <3>2. ASSUME n > 0, NEW p \in lidarQ[w + 1] PROVE p > max
      <4>1. w + 1 <= Len(lidarQ) /\ 1 \in 1..n
        BY <1>1, <1>2, <3>2
      <4>2. ~(Earliest(lidarQ[w + 1]) <= max)
        BY <1>0, <2>1, <4>1 DEF SplitScan
      <4> QED  BY <1>3, <3>2, <4>1, <4>2, EndsFacts
    <3>3. ASSUME NEW k \in 1..n, NEW p \in lidarQ[w + k]
          PROVE  p > max
      <4>1. CASE k = 1
        BY <1>2, <3>2, <4>1
      <4>2. CASE k \in 2..n
        BY <1>2, <1>4, <4>2
      <4> QED  BY <1>2, <4>1, <4>2
    <3> HIDE DEF left, rest, n
    <3> QED  BY <1>2, <1>3, <3>1, <3>3
  <2>2. CASE SplitScan(max) # {}
    <3> DEFINE kept == Head(rest) \ UpTo(Head(rest), max)
    <3>1. n > 0 /\ rest # <<>> /\ Head(rest) = lidarQ[w + 1]
      <4>1. w + 1 <= Len(lidarQ)
        BY <1>0, <2>2 DEF SplitScan
      <4>2. n > 0 /\ 1 \in 1..n
        BY <1>1, <1>2, <4>1
      <4> HIDE DEF rest, n
      <4>3. rest # <<>> /\ Head(rest) = rest[1]
        BY <1>2, <4>2
      <4> QED  BY <1>2, <4>2, <4>3
    <3>2. left = <<kept>> \o Tail(rest)
      BY <1>0, <2>2 DEF LidarLeft
    <3>0. 1 \in 1..n /\ kept = {p \in lidarQ[w + 1] : ~(p <= max)}
      <4>1. kept = lidarQ[w + 1] \ UpTo(lidarQ[w + 1], max)
        BY <3>1
      <4> HIDE DEF kept
      <4> QED  BY <1>2, <3>1, <4>1 DEF UpTo
    <3> HIDE DEF kept
    <3>3. kept \subseteq lidarQ[w + 1] /\ \A p \in kept : p > max
      BY <1>3, <3>0
    <3>4. HasEnds(kept)
      <4>1. Latest(lidarQ[w + 1]) \in kept
        BY <1>4, <3>0, <3>1
      <4>2. lidarQ[w + 1] \subseteq Int /\ HasEnds(lidarQ[w + 1])
        BY <1>3, <3>0
      <4> QED  BY <3>3, <4>1, <4>2, EndsOfPart
    <3>5. kept \in SUBSET Int
      BY <1>3, <3>0, <3>3
    <3>6. /\ Tail(rest) \in Seq(SUBSET Int) /\ Len(Tail(rest)) = n - 1
          /\ \A k \in 1..(n - 1) : Tail(rest)[k] = lidarQ[w + (k + 1)]
      <4> HIDE DEF rest, n
      <4> QED  BY <1>2, <3>1, HeadTailProperties
    <3>7. /\ left \in Seq(SUBSET Int) /\ Len(left) = n
          /\ left[1] = kept /\ \A k \in 2..n : left[k] = lidarQ[w + k]
      <4> HIDE DEF rest, left, n
      <4>1. <<kept>> \in Seq(SUBSET Int) /\ Len(<<kept>>) = 1 /\ <<kept>>[1] = kept
        BY <3>5
      <4> DEFINE both == <<kept>> \o Tail(rest)
      <4>2. /\ both \in Seq(SUBSET Int) /\ Len(both) = 1 + (n - 1)
            /\ \A k \in 1..1 + (n - 1) :
                 both[k] = IF k <= 1 THEN <<kept>>[k] ELSE Tail(rest)[k - 1]
        BY <3>6, <4>1, ConcatProperties
      <4> HIDE DEF both
      <4>3. left = both
        BY <3>2 DEF both, kept
      <4>4. ASSUME NEW k \in 2..n PROVE left[k] = lidarQ[w + k]
        <5>1. left[k] = Tail(rest)[k - 1] /\ k - 1 \in 1..(n - 1)
          BY <1>2, <4>2, <4>3
        <5> QED  BY <1>2, <3>6, <5>1
      <4> QED  BY <1>2, <3>1, <4>1, <4>2, <4>3, <4>4
    <3> HIDE DEF left, rest, n
    <3>8. ASSUME NEW k \in 1..n
          PROVE  left[k] \subseteq lidarQ[w + k] /\ HasEnds(left[k])
                 /\ \A p \in left[k] : p > max
      <4>1. CASE k = 1
        BY <3>3, <3>4, <3>7, <4>1
      <4>2. CASE k \in 2..n
        BY <1>3, <1>4, <3>1, <3>7, <4>2
      <4> QED  BY <1>2, <4>1, <4>2
    <3> QED  BY <3>7, <3>8
  <2> QED  BY <2>1, <2>2
<1>6. DOMAIN left = 1..n
  BY <1>5
<1>7. ASSUME NEW i \in 1..n, NEW j \in 1..n, i < j, NEW p \in left[i], NEW r \in left[j]
      PROVE  p <= r
  <2>1. p \in lidarQ[w + i] /\ r \in lidarQ[w + j] /\ w + i < w + j
    BY <1>1, <1>5, <1>7
  <2> QED  BY <1>3, <2>1 DEF ScansInOrder
<1> HIDE DEF left, n
<1>8. ScansInOrder(left)
  BY <1>5, <1>6, <1>7 DEF ScansInOrder
<1> QED  BY <1>0, <1>3, <1>5, <1>6, <1>8 DEF left, n

(* Moving the time origin keeps a queue of scans in order.                 *)
LEMMA ShiftedScansFacts ==
  ASSUME NEW q, ScansInOrder(q), NEW d \in Int
  PROVE  LET s == [k \in DOMAIN q |-> Shift(q[k], d)]
         IN  /\ ScansInOrder(s) /\ Len(s) = Len(q) /\ DOMAIN s = DOMAIN q
             /\ \A k \in DOMAIN q : s[k] = {p - d : p \in q[k]}
<1> DEFINE s == [k \in DOMAIN q |-> Shift(q[k], d)]
<1>1. q \in Seq(SUBSET Int) /\ DOMAIN q = 1..Len(q) /\ Len(q) \in Nat
  BY DEF ScansInOrder
<1>2. \A k \in DOMAIN q : q[k] \subseteq Int /\ HasEnds(q[k])
  BY <1>1 DEF ScansInOrder
<1>3. \A k \in DOMAIN q : Shift(q[k], d) \in SUBSET Int /\ HasEnds(Shift(q[k], d))
  BY <1>2, ShiftFacts
<1>4. s \in Seq(SUBSET Int) /\ Len(s) = Len(q) /\ DOMAIN s = DOMAIN q
  BY <1>1, <1>3
<1>5. ASSUME NEW i \in DOMAIN q, NEW j \in DOMAIN q, i < j, NEW p \in s[i], NEW r \in s[j]
      PROVE  p <= r
  <2>1. PICK p0 \in q[i] : p = p0 - d
    BY DEF Shift
  <2>2. PICK r0 \in q[j] : r = r0 - d
    BY DEF Shift
  <2>3. p0 <= r0
    BY <1>5 DEF ScansInOrder
  <2> QED  BY <1>2, <2>1, <2>2, <2>3
<1>6. ScansInOrder(s)
  <2>1. \A k \in DOMAIN s : HasEnds(s[k])
    BY <1>3
  <2> HIDE DEF s
  <2> QED  BY <1>4, <1>5, <2>1 DEF ScansInOrder
<1>7. \A k \in DOMAIN q : s[k] = {p - d : p \in q[k]}
  BY DEF Shift
<1> HIDE DEF s
<1> QED  BY <1>4, <1>6, <1>7 DEF s

-----------------------------------------------------------------------------
(* The three queues, relative to `start`: in time order, nothing before    *)
(* `pop`, nothing after the newest accepted stamp; and the newest IMU      *)
(* sample is always still there.                                           *)
ImagesBetween(q, start, first, last) ==
  /\ q \in Seq([t : Int, n : Nat])
  /\ \A k \in DOMAIN q : /\ first <= q[k].t + start /\ 1 <= q[k].t + start
                         /\ q[k].t + start <= last
  /\ \A i, j \in DOMAIN q : i < j => q[i].t <= q[j].t

ScansBetween(q, start, first, last) ==
  /\ ScansInOrder(q)
  /\ \A k \in DOMAIN q : \A p \in q[k] : first <= p + start /\ p + start <= last

SamplesBetween(q, start, first, last) ==
  /\ q \in Seq(Int)
  /\ \A k \in DOMAIN q : first <= q[k] + start
  /\ \A i, j \in DOMAIN q : i < j => q[i] <= q[j]
  /\ q = <<>> => last = 0
  /\ q # <<>> => q[Len(q)] + start = last

StreamsBetween(images, scans, samples, start, first, lastImage, lastLidar, lastImu) ==
  /\ start \in Nat /\ first \in Nat
  /\ lastImage \in Nat /\ lastLidar \in Nat /\ lastImu \in Nat
  /\ first <= lastImage /\ first <= lastLidar /\ first <= lastImu
  /\ ImagesBetween(images, start, first, lastImage)
  /\ ScansBetween(scans, start, first, lastLidar)
  /\ SamplesBetween(samples, start, first, lastImu)

-----------------------------------------------------------------------------
(* What Ready means: both streams have reached the front image.            *)
LEMMA ReadyStreams ==
  ASSUME NEW first, StreamsBetween(imageQ, lidarQ, imuQ, startTime, first,
                                        latestImage, latestLidar, latestImu),
         Ready, MarginAssumption
  PROVE  LET max == Head(imageQ).t
             b   == BeforeMax(max)
         IN  /\ imageQ # <<>> /\ Head(imageQ) = imageQ[1] /\ 1 \in DOMAIN imageQ
             /\ max \in Int /\ max + startTime >= 1
             /\ latestLidar >= max + startTime /\ latestImu >= max + startTime
             /\ latestImage >= max + startTime
             /\ b \in 0..(Len(imuQ) - 1) /\ imuQ[b + 1] >= max
<1> DEFINE max == Head(imageQ).t
           b == BeforeMax(max)
<1>1. imageQ # <<>> /\ imageQ \in Seq([t : Int, n : Nat])
  BY DEF Ready, StreamsBetween, ImagesBetween
<1>2. Head(imageQ) = imageQ[1] /\ 1 \in DOMAIN imageQ /\ Head(imageQ) \in [t : Int, n : Nat]
  BY <1>1, SeqFacts
<1>3. max \in Int /\ max + startTime >= 1 /\ latestImage >= max + startTime
      /\ startTime \in Nat /\ latestImu \in Nat /\ latestLidar \in Nat
  BY <1>2 DEF StreamsBetween, ImagesBetween
<1>4. latestLidar >= max + startTime /\ latestImu >= max + startTime
  <2>1. StreamSettled("lidar", max + startTime, latestLidar)
        /\ StreamSettled("imu", max + startTime, latestImu)
    BY DEF Ready
  <2> HIDE DEF max
  <2> QED  BY <1>3, <2>1 DEF StreamSettled, MarginAssumption
<1>5. imuQ \in Seq(Int) /\ imuQ # <<>> /\ imuQ[Len(imuQ)] + startTime = latestImu
  BY <1>3, <1>4 DEF StreamsBetween, SamplesBetween
<1>6. b \in 0..Len(imuQ) /\ (\A j \in 1..b : imuQ[j] < max)
      /\ (b < Len(imuQ) => imuQ[b + 1] >= max)
  BY <1>3, <1>5, BeforeMaxFacts
<1>7. b # Len(imuQ)
  <2> SUFFICES ASSUME b = Len(imuQ) PROVE FALSE
    OBVIOUS
  <2> HIDE DEF b, max
  <2>1. Len(imuQ) \in 1..b /\ imuQ[Len(imuQ)] \in Int
    BY <1>5, <1>6
  <2>2. imuQ[Len(imuQ)] < max
    BY <1>6, <2>1
  <2> QED  BY <1>3, <1>4, <1>5, <2>1, <2>2
<1> HIDE DEF b, max
<1>8. b \in 0..(Len(imuQ) - 1) /\ imuQ[b + 1] >= max
  BY <1>5, <1>6, <1>7
<1> QED  BY <1>1, <1>2, <1>3, <1>4, <1>8 DEF b, max

LEMMA TailOfImages ==
  ASSUME NEW q, NEW start \in Nat, NEW first \in Nat, NEW last \in Nat,
         ImagesBetween(q, start, first, last), q # <<>>
  PROVE  /\ ImagesBetween(Tail(q), start, Head(q).t + start, last)
         /\ Len(Tail(q)) = Len(q) - 1
         /\ \A k \in DOMAIN Tail(q) : Tail(q)[k] = q[k + 1] /\ k + 1 \in DOMAIN q
<1> DEFINE R == [t : Int, n : Nat]
           r == Tail(q)
<1>0. q \in Seq(R) /\ q # <<>>
  BY DEF ImagesBetween
<1>1. /\ Len(q) \in Nat /\ DOMAIN q = 1..Len(q) /\ Head(q) = q[1] /\ 1 \in DOMAIN q
      /\ \A k \in DOMAIN q : q[k] \in R
  <2> HIDE DEF R
  <2> QED  BY <1>0, SeqFacts
<1>2. /\ r \in Seq(R) /\ Len(r) = Len(q) - 1 /\ DOMAIN r = 1..(Len(q) - 1)
      /\ \A k \in DOMAIN r : r[k] = q[k + 1] /\ k + 1 \in DOMAIN q
  <2> HIDE DEF R
  <2> QED  BY <1>0, TailFacts
<1> HIDE DEF r
<1>3. \A k \in DOMAIN r : k \in Int /\ 1 < k + 1
  BY <1>1, <1>2
<1>4. \A k \in DOMAIN r : r[k] = q[k + 1] /\ k + 1 \in DOMAIN q /\ 1 < k + 1 /\ 1 \in DOMAIN q
  BY <1>1, <1>2, <1>3
<1>5. \A k \in DOMAIN q : q[k].t \in Int
  BY <1>1
<1> HIDE DEF R
<1>6. \A k \in DOMAIN r : /\ Head(q).t + start <= r[k].t + start /\ 1 <= r[k].t + start
                          /\ r[k].t + start <= last
  <2> TAKE k \in DOMAIN r
  <2>1. k + 1 \in DOMAIN q /\ 1 \in DOMAIN q /\ 1 < k + 1 /\ r[k].t = q[k + 1].t
    BY <1>4
  <2>2. q[1].t <= q[k + 1].t
    BY <2>1 DEF ImagesBetween
  <2>3. /\ Head(q).t \in Int /\ r[k].t \in Int /\ Head(q).t <= r[k].t
    BY <1>1, <1>5, <2>1, <2>2
  <2>4. 1 <= r[k].t + start /\ r[k].t + start <= last
    BY <2>1 DEF ImagesBetween
  <2> QED  BY <2>3, <2>4
<1>7. \A i, j \in DOMAIN r : i < j => r[i].t <= r[j].t
  <2> TAKE i, j \in DOMAIN r
  <2> HAVE i < j
  <2>1. i + 1 < j + 1 /\ i + 1 \in DOMAIN q /\ j + 1 \in DOMAIN q
    BY <1>3, <1>4
  <2> QED  BY <1>4, <2>1 DEF ImagesBetween
<1> QED  BY <1>1, <1>2, <1>4, <1>6, <1>7 DEF ImagesBetween, R, r

LEMMA LeftOfScans ==
  ASSUME NEW first \in Nat, startTime \in Nat, NEW last \in Nat,
         ScansBetween(lidarQ, startTime, first, last), NEW max \in Int
  PROVE  ScansBetween(LidarLeft(max), startTime, max + startTime, last)
<1> DEFINE left == LidarLeft(max)
           w == WholeScans(max)
<1>1. /\ ScansInOrder(left)
      /\ \A k \in DOMAIN left : /\ w + k \in DOMAIN lidarQ /\ left[k] \subseteq lidarQ[w + k]
                                /\ \A p \in left[k] : p > max
  BY LidarLeftFacts DEF ScansBetween
<1>2. ASSUME NEW k \in DOMAIN left, NEW p \in left[k]
      PROVE  max + startTime <= p + startTime /\ p + startTime <= last
  <2>1. w + k \in DOMAIN lidarQ /\ p \in lidarQ[w + k] /\ p > max
    BY <1>1
  <2>2. p \in Int
    <3>1. lidarQ[w + k] \subseteq Int
      BY <2>1 DEF ScansBetween, ScansInOrder
    <3> QED  BY <2>1, <3>1
  <2> QED  BY <2>1, <2>2 DEF ScansBetween
<1> HIDE DEF left
<1> QED  BY <1>1, <1>2 DEF ScansBetween, left

LEMMA LeftOfSamples ==
  ASSUME NEW first \in Nat, startTime \in Nat, NEW last \in Nat,
         SamplesBetween(imuQ, startTime, first, last), NEW max \in Int,
         BeforeMax(max) \in 0..(Len(imuQ) - 1), imuQ[BeforeMax(max) + 1] >= max
  PROVE  SamplesBetween(ImuLeft(max), startTime, max + startTime, last)
         /\ ImuLeft(max) # <<>>
<1> DEFINE left == ImuLeft(max)
           b == BeforeMax(max)
<1>1. /\ left \in Seq(Int) /\ Len(left) = Len(imuQ) - b
      /\ \A j \in 1..Len(left) : left[j] = imuQ[b + j]
  BY ImuLeftFacts DEF SamplesBetween
<1>2. /\ imuQ \in Seq(Int) /\ Len(imuQ) \in Nat /\ DOMAIN imuQ = 1..Len(imuQ)
      /\ b \in 0..(Len(imuQ) - 1) /\ imuQ[b + 1] >= max
      /\ \A k \in DOMAIN imuQ : imuQ[k] \in Int
  <2>1. imuQ \in Seq(Int)
    BY DEF SamplesBetween
  <2> QED  BY <2>1, SeqFacts
<1> HIDE DEF left, b
<1>0. Len(left) >= 1
  BY <1>1, <1>2
<1>3. left # <<>> /\ DOMAIN left = 1..Len(left) /\ Len(left) >= 1 /\ Len(left) \in Nat
  BY <1>0, <1>1, SeqFacts
<1>4. ASSUME NEW k \in DOMAIN left
      PROVE  left[k] = imuQ[b + k] /\ b + k \in DOMAIN imuQ /\ left[k] \in Int
  <2>1. k \in 1..Len(left) /\ left[k] = imuQ[b + k]
    BY <1>1, <1>3
  <2>2. b + k \in DOMAIN imuQ
    <3>1. Len(imuQ) \in Nat /\ b \in Nat /\ k \in Nat /\ k >= 1
      BY <1>2, <2>1
    <3>2. k <= Len(imuQ) - b
      BY <1>1, <2>1
    <3>3. b + k \in 1..Len(imuQ)
      BY <3>1, <3>2
    <3> QED  BY <1>2, <3>3
  <2> QED  BY <1>2, <2>1, <2>2
<1>5. \A i, j \in DOMAIN left : i < j => left[i] <= left[j]
  <2> TAKE i, j \in DOMAIN left
  <2> HAVE i < j
  <2>1. b + i < b + j
    BY <1>2, <1>3
  <2> QED  BY <1>4, <2>1 DEF SamplesBetween
<1>6. \A k \in DOMAIN left : max + startTime <= left[k] + startTime
  <2> TAKE k \in DOMAIN left
  <2>0. 1 \in DOMAIN left /\ (k = 1 \/ 1 < k)
    BY <1>3
  <2>1. left[1] >= max
    BY <1>2, <1>4, <2>0
  <2>2. left[1] <= left[k]
    BY <1>4, <1>5, <2>0
  <2> QED  BY <1>4, <2>0, <2>1, <2>2
<1>7. left[Len(left)] + startTime = last
  <2>1. left[Len(left)] = imuQ[b + Len(left)] /\ b + Len(left) = Len(imuQ) /\ imuQ # <<>>
    <3>1. Len(left) \in DOMAIN left
      BY <1>3
    <3>2. b + Len(left) = Len(imuQ)
      BY <1>1, <1>2
    <3>3. imuQ # <<>>
      BY <1>2, <1>3, <3>2
    <3> QED  BY <1>4, <3>1, <3>2, <3>3
  <2> QED  BY <2>1 DEF SamplesBetween
<1> QED  BY <1>1, <1>3, <1>5, <1>6, <1>7 DEF SamplesBetween, left

(* Popping the front image and everything up to it, as collectSamples()    *)
(* and syncMeasures() do.                                                  *)
LEMMA PoppedStreams ==
  ASSUME NEW first, StreamsBetween(imageQ, lidarQ, imuQ, startTime, first,
                                        latestImage, latestLidar, latestImu),
         Ready, MarginAssumption
  PROVE  LET max == Head(imageQ).t
         IN  StreamsBetween(Tail(imageQ), LidarLeft(max), ImuLeft(max), startTime,
                            max + startTime, latestImage, latestLidar, latestImu)
<1> DEFINE max == Head(imageQ).t
<1>1. /\ imageQ # <<>> /\ max \in Int /\ max + startTime >= 1
      /\ latestLidar >= max + startTime /\ latestImu >= max + startTime
      /\ latestImage >= max + startTime
      /\ BeforeMax(max) \in 0..(Len(imuQ) - 1) /\ imuQ[BeforeMax(max) + 1] >= max
  BY ReadyStreams
<1>2. /\ startTime \in Nat /\ first \in Nat
      /\ latestImage \in Nat /\ latestLidar \in Nat /\ latestImu \in Nat
      /\ ImagesBetween(imageQ, startTime, first, latestImage)
      /\ ScansBetween(lidarQ, startTime, first, latestLidar)
      /\ SamplesBetween(imuQ, startTime, first, latestImu)
  BY DEF StreamsBetween
<1>3. ImagesBetween(Tail(imageQ), startTime, max + startTime, latestImage)
  BY <1>1, <1>2, TailOfImages
<1> HIDE DEF max
<1>4. ScansBetween(LidarLeft(max), startTime, max + startTime, latestLidar)
  BY <1>1, <1>2, LeftOfScans
<1>5. SamplesBetween(ImuLeft(max), startTime, max + startTime, latestImu)
  BY <1>1, <1>2, LeftOfSamples
<1>6. max + startTime \in Nat
  BY <1>1, <1>2
<1> QED  BY <1>1, <1>2, <1>3, <1>4, <1>5, <1>6 DEF StreamsBetween, max

(* setStartTime(): the queues are the same instants, seen from `d`.        *)
LEMMA ShiftStreams ==
  ASSUME NEW images, NEW scans, NEW samples, NEW first, NEW lastImage, NEW lastLidar,
         NEW lastImu, NEW d \in Nat,
         StreamsBetween(images, scans, samples, 0, first, lastImage, lastLidar, lastImu)
  PROVE  StreamsBetween([k \in DOMAIN images |-> [images[k] EXCEPT !.t = @ - d]],
                        [k \in DOMAIN scans |-> Shift(scans[k], d)],
                        [k \in DOMAIN samples |-> samples[k] - d],
                        d, first, lastImage, lastLidar, lastImu)
<1> DEFINE I == [k \in DOMAIN images |-> [images[k] EXCEPT !.t = @ - d]]
           S == [k \in DOMAIN scans |-> Shift(scans[k], d)]
           M == [k \in DOMAIN samples |-> samples[k] - d]
<1>1. /\ first \in Nat /\ lastImage \in Nat /\ lastLidar \in Nat /\ lastImu \in Nat
      /\ first <= lastImage /\ first <= lastLidar /\ first <= lastImu
      /\ ImagesBetween(images, 0, first, lastImage)
      /\ ScansBetween(scans, 0, first, lastLidar)
      /\ SamplesBetween(samples, 0, first, lastImu)
  BY DEF StreamsBetween
<1>2. ImagesBetween(I, d, first, lastImage)
  <2>0. images \in Seq([t : Int, n : Nat])
    BY <1>1 DEF ImagesBetween
  <2>1. DOMAIN images = 1..Len(images) /\ Len(images) \in Nat
        /\ \A k \in DOMAIN images : images[k] \in [t : Int, n : Nat]
    BY <2>0, SeqFacts
  <2>2. \A k \in DOMAIN images : /\ images[k] \in [t : Int, n : Nat]
                                 /\ I[k] \in [t : Int, n : Nat]
                                 /\ I[k].t = images[k].t - d
                                 /\ images[k].t \in Int
    BY <2>1
  <2>3. I \in Seq([t : Int, n : Nat]) /\ DOMAIN I = DOMAIN images
    BY <2>1, <2>2
  <2> HIDE DEF I
  <2>4. \A k \in DOMAIN I : I[k].t + d = images[k].t
    BY <2>2, <2>3
  <2>5. \A k \in DOMAIN I : /\ first <= I[k].t + d /\ 1 <= I[k].t + d
                            /\ I[k].t + d <= lastImage
    BY <1>1, <2>2, <2>3, <2>4 DEF ImagesBetween
  <2>6. \A i, j \in DOMAIN I : i < j => I[i].t <= I[j].t
    BY <1>1, <2>2, <2>3, SMTT(20) DEF ImagesBetween
  <2> QED  BY <2>3, <2>5, <2>6 DEF ImagesBetween
<1>3. ScansBetween(S, d, first, lastLidar)
  <2>1. /\ ScansInOrder(S) /\ DOMAIN S = DOMAIN scans
        /\ \A k \in DOMAIN scans : S[k] = {p - d : p \in scans[k]}
    BY <1>1, ShiftedScansFacts DEF ScansBetween
  <2>2. \A k \in DOMAIN scans : scans[k] \subseteq Int
    BY <1>1 DEF ScansBetween, ScansInOrder
  <2> HIDE DEF S
  <2>3. ASSUME NEW k \in DOMAIN S, NEW p \in S[k]
        PROVE  first <= p + d /\ p + d <= lastLidar
    <3>1. PICK o \in scans[k] : p = o - d
      BY <2>1
    <3>2. o \in Int /\ first <= o + 0 /\ o + 0 <= lastLidar
      BY <1>1, <2>1, <2>2 DEF ScansBetween
    <3> QED  BY <1>1, <3>1, <3>2
  <2> QED  BY <2>1, <2>3 DEF ScansBetween
<1>4. SamplesBetween(M, d, first, lastImu)
  <2>1. samples \in Seq(Int) /\ DOMAIN samples = 1..Len(samples)
    BY <1>1 DEF SamplesBetween
  <2>2. \A k \in DOMAIN samples : samples[k] \in Int /\ M[k] \in Int /\ M[k] = samples[k] - d
    BY <2>1
  <2>3. M \in Seq(Int) /\ DOMAIN M = DOMAIN samples /\ Len(M) = Len(samples)
    BY <2>1, <2>2
  <2> HIDE DEF M
  <2>4. \A i, j \in DOMAIN M : i < j => M[i] <= M[j]
    BY <1>1, <2>2, <2>3 DEF SamplesBetween
  <2>5. \A k \in DOMAIN M : first <= M[k] + d
    BY <1>1, <2>2, <2>3 DEF SamplesBetween
  <2>6. M = <<>> => lastImu = 0
    BY <1>1, <2>1, <2>3 DEF SamplesBetween
  <2>7. M # <<>> => M[Len(M)] + d = lastImu
    <3> HAVE M # <<>>
    <3>1. samples # <<>> /\ Len(samples) \in DOMAIN samples
      BY <2>1, <2>3
    <3> QED  BY <1>1, <2>2, <2>3, <3>1 DEF SamplesBetween
  <2> QED  BY <2>3, <2>4, <2>5, <2>6, <2>7 DEF SamplesBetween
<1> HIDE DEF I, S, M
<1> QED  BY <1>1, <1>2, <1>3, <1>4 DEF StreamsBetween, I, S, M

-----------------------------------------------------------------------------
(* What push*() does to them.                                              *)
LEMMA ImagePushed ==
  ASSUME NEW q, NEW start \in Nat, NEW first \in Nat, NEW last \in Nat, first <= last,
         ImagesBetween(q, start, first, last),
         NEW t \in Nat, t >= 1, t >= last, NEW n \in Nat
  PROVE  ImagesBetween(Append(q, [t |-> t - start, n |-> n]), start, first, t)
<1> DEFINE R == [t : Int, n : Nat]
           e == [t |-> t - start, n |-> n]
           r == Append(q, e)
<1>1. e \in R /\ e.t + start = t
  OBVIOUS
<1>2. q \in Seq(R)
  BY DEF ImagesBetween
<1> HIDE DEF R, e
<1>3. /\ r \in Seq(R) /\ DOMAIN r = 1..(Len(q) + 1) /\ Len(q) \in Nat
      /\ DOMAIN q = 1..Len(q)
      /\ \A k \in DOMAIN q : r[k] = q[k] /\ q[k] \in R
      /\ r[Len(q) + 1] = e
  BY <1>1, <1>2, AppendFacts, SeqFacts
<1> HIDE DEF r
<1>4. \A k \in DOMAIN q : q[k].t \in Int
  BY <1>3 DEF R
<1>5. e.t \in Int
  BY <1>1 DEF R
<1>6. ASSUME NEW k \in DOMAIN r
      PROVE  first <= r[k].t + start /\ 1 <= r[k].t + start /\ r[k].t + start <= t
  <2>1. CASE k \in DOMAIN q
    <3>1. first <= q[k].t + start /\ 1 <= q[k].t + start /\ q[k].t + start <= last
      BY <2>1 DEF ImagesBetween
    <3> QED  BY <1>3, <1>4, <2>1, <3>1
  <2>2. CASE k = Len(q) + 1
    BY <1>1, <1>3, <2>2
  <2> QED  BY <1>3, <2>1, <2>2
<1>7. ASSUME NEW i \in DOMAIN r, NEW j \in DOMAIN r, i < j PROVE r[i].t <= r[j].t
  <2>1. i \in DOMAIN q
    BY <1>3, <1>7
  <2>2. CASE j \in DOMAIN q
    BY <1>3, <1>7, <2>1, <2>2 DEF ImagesBetween
  <2>3. CASE j = Len(q) + 1
    <3>1. q[i].t + start <= last /\ q[i].t \in Int
      BY <1>4, <2>1 DEF ImagesBetween
    <3>2. r[i].t = q[i].t /\ r[j].t = e.t
      BY <1>3, <2>1, <2>3
    <3> QED  BY <1>1, <1>5, <3>1, <3>2
  <2> QED  BY <1>3, <2>2, <2>3
<1> QED  BY <1>3, <1>6, <1>7 DEF ImagesBetween, R, r, e

LEMMA ScanPushed ==
  ASSUME NEW q, NEW start \in Nat, NEW first \in Nat, NEW last \in Nat, first <= last,
         ScansBetween(q, start, first, last),
         NEW scan, scan \subseteq Nat, HasEnds(scan), Earliest(scan) >= last
  PROVE  ScansBetween(Append(q, Shift(scan, start)), start, first, Latest(scan))
<1> DEFINE e == Shift(scan, start)
           r == Append(q, e)
<1>0. scan \subseteq Int /\ start \in Int
  OBVIOUS
<1>1. e \subseteq Int /\ HasEnds(e)
  BY <1>0, ShiftFacts
<1>2. /\ Earliest(scan) \in Nat /\ Latest(scan) \in Nat
      /\ \A p \in scan : Earliest(scan) <= p /\ p <= Latest(scan)
  <2>1. /\ Earliest(scan) \in scan /\ \A p \in scan : Earliest(scan) <= p
        /\ Latest(scan) \in scan /\ \A p \in scan : p <= Latest(scan)
    BY <1>0, EndsFacts
  <2> QED  BY <2>1
<1>3. \A p \in e : p + start \in scan
  BY DEF Shift
<1>4. q \in Seq(SUBSET Int) /\ (\A k \in DOMAIN q : HasEnds(q[k]))
  BY DEF ScansBetween, ScansInOrder
<1> HIDE DEF e
<1>5. /\ r \in Seq(SUBSET Int) /\ DOMAIN r = 1..(Len(q) + 1) /\ Len(q) \in Nat
      /\ DOMAIN q = 1..Len(q)
      /\ \A k \in DOMAIN q : r[k] = q[k] /\ q[k] \in SUBSET Int
      /\ r[Len(q) + 1] = e
  BY <1>1, <1>4, AppendFacts, SeqFacts
<1> HIDE DEF r
<1>6. ASSUME NEW p \in e
      PROVE  p \in Int /\ last <= p + start /\ p + start <= Latest(scan)
  BY <1>1, <1>2, <1>3
<1>7. Latest(scan) >= last
  <2>1. PICK p \in scan : TRUE
    BY DEF HasEnds
  <2> QED  BY <1>2, <2>1
<1>8. ASSUME NEW k \in DOMAIN r
      PROVE  /\ HasEnds(r[k])
             /\ \A p \in r[k] : first <= p + start /\ p + start <= Latest(scan)
  <2>1. CASE k \in DOMAIN q
    <3>1. ASSUME NEW p \in q[k]
          PROVE  first <= p + start /\ p + start <= Latest(scan)
      <4>1. first <= p + start /\ p + start <= last /\ p \in Int
        BY <1>5, <2>1 DEF ScansBetween
      <4> QED  BY <1>2, <1>7, <4>1
    <3> QED  BY <1>4, <1>5, <2>1, <3>1
  <2>2. CASE k = Len(q) + 1
    <3>1. r[k] = e
      BY <1>5, <2>2
    <3>2. ASSUME NEW p \in e
          PROVE  first <= p + start /\ p + start <= Latest(scan)
      BY <1>6
    <3> QED  BY <1>1, <3>1, <3>2
  <2> QED  BY <1>5, <2>1, <2>2
<1>9. ASSUME NEW i \in DOMAIN r, NEW j \in DOMAIN r, i < j, NEW p \in r[i], NEW o \in r[j]
      PROVE  p <= o
  <2>1. i \in DOMAIN q
    BY <1>5, <1>9
  <2>2. CASE j \in DOMAIN q
    BY <1>5, <1>9, <2>1, <2>2 DEF ScansBetween, ScansInOrder
  <2>3. CASE j = Len(q) + 1
    <3>1. p \in q[i] /\ o \in e
      BY <1>5, <1>9, <2>1, <2>3
    <3>2. p + start <= last /\ p \in Int
      BY <1>5, <2>1, <3>1 DEF ScansBetween
    <3> QED  BY <1>6, <3>1, <3>2
  <2> QED  BY <1>5, <2>2, <2>3
<1>10. ScansInOrder(r)
  BY <1>5, <1>8, <1>9 DEF ScansInOrder
<1>11. ScansBetween(r, start, first, Latest(scan))
  BY <1>8, <1>10 DEF ScansBetween
<1> QED  BY <1>11 DEF r, e

LEMMA SamplePushed ==
  ASSUME NEW q, NEW start \in Nat, NEW first \in Nat, NEW last \in Nat, first <= last,
         SamplesBetween(q, start, first, last),
         NEW t \in Nat, t >= last
  PROVE  SamplesBetween(Append(q, t - start), start, first, t)
<1> DEFINE e == t - start
           r == Append(q, e)
<1>1. e \in Int /\ e + start = t /\ q \in Seq(Int)
  BY DEF SamplesBetween
<1> HIDE DEF e
<1>2. /\ r \in Seq(Int) /\ DOMAIN r = 1..(Len(q) + 1) /\ Len(q) \in Nat
      /\ DOMAIN q = 1..Len(q) /\ Len(r) = Len(q) + 1 /\ r # <<>>
      /\ \A k \in DOMAIN q : r[k] = q[k] /\ q[k] \in Int
      /\ r[Len(q) + 1] = e
  BY <1>1, AppendFacts, SeqFacts
<1> HIDE DEF r
<1>3. ASSUME NEW k \in DOMAIN q PROVE q[k] <= e /\ first <= q[k] + start
  <2>1. q # <<>> /\ Len(q) \in DOMAIN q /\ (k = Len(q) \/ k < Len(q))
    BY <1>1, <1>2, SeqFacts
  <2>2. q[Len(q)] + start = last /\ q[k] <= q[Len(q)]
    <3>1. CASE k = Len(q)
      BY <1>2, <2>1, <3>1 DEF SamplesBetween
    <3>2. CASE k < Len(q)
      BY <2>1, <3>2 DEF SamplesBetween
    <3> QED  BY <2>1, <3>1, <3>2
  <2>3. q[k] <= e
    BY <1>1, <1>2, <2>1, <2>2
  <2> QED  BY <2>3 DEF SamplesBetween
<1>4. ASSUME NEW k \in DOMAIN r PROVE first <= r[k] + start
  <2>1. CASE k \in DOMAIN q
    BY <1>2, <1>3, <2>1
  <2>2. CASE k = Len(q) + 1
    BY <1>1, <1>2, <2>2
  <2> QED  BY <1>2, <2>1, <2>2
<1>5. ASSUME NEW i \in DOMAIN r, NEW j \in DOMAIN r, i < j PROVE r[i] <= r[j]
  <2>1. i \in DOMAIN q
    BY <1>2, <1>5
  <2>2. CASE j \in DOMAIN q
    BY <1>2, <1>5, <2>1, <2>2 DEF SamplesBetween
  <2>3. CASE j = Len(q) + 1
    BY <1>2, <1>3, <2>1, <2>3
  <2> QED  BY <1>2, <2>2, <2>3
<1>6. r[Len(r)] + start = t
  BY <1>1, <1>2
<1>7. SamplesBetween(r, start, first, t)
  BY <1>2, <1>4, <1>5, <1>6 DEF SamplesBetween
<1> QED  BY <1>7 DEF r, e
=============================================================================
