------------------------- MODULE MeasureSync_proofs -------------------------
(***************************************************************************)
(* Proofs about MeasureSync, for any bounds, any number of images in       *)
(* flight, scans of any number of points and any margins.                  *)
(***************************************************************************)
EXTENDS MeasureSync, DataQueues_proofs

(***************************************************************************)
(* The inductive invariant, in four parts.  The first two are stated over  *)
(* values, so that what a pop or a shift of the time origin does to them   *)
(* can be said before any action is looked at.                             *)
(***************************************************************************)

StreamsOK == StreamsBetween(imageQ, lidarQ, imuQ, startTime, lastPop,
                            latestImage, latestLidar, latestImu)

(* What Ready means here, and what a pop of the front image leaves.        *)
LEMMA ReadyFacts ==
  ASSUME StreamsOK, Ready, MarginAssumption
  PROVE  LET max == Head(imageQ).t
             b   == BeforeMax(max)
         IN  /\ imageQ # <<>> /\ Head(imageQ) = imageQ[1] /\ 1 \in DOMAIN imageQ
             /\ max \in Int /\ max + startTime >= 1
             /\ latestLidar >= max + startTime /\ latestImu >= max + startTime
             /\ latestImage >= max + startTime
             /\ b \in 0..(Len(imuQ) - 1) /\ imuQ[b + 1] >= max
BY ReadyStreams DEF StreamsOK

LEMMA PopStreams ==
  ASSUME StreamsOK, Ready, MarginAssumption
  PROVE  LET max == Head(imageQ).t
         IN  StreamsBetween(Tail(imageQ), LidarLeft(max), ImuLeft(max), startTime,
                            max + startTime, latestImage, latestLidar, latestImu)
BY PoppedStreams DEF StreamsOK

-----------------------------------------------------------------------------
(***************************************************************************)
(* The second part: images and tracking results are counted alike.  With   *)
(* `consumed` results taken out of the pipe, the k-th queued image is the  *)
(* (consumed + k)-th of those that were not skipped.                       *)
(***************************************************************************)
Before(skip, i) == {j \in skip : j < i}

CountsAt(images, fed, skip, consumed) ==
  /\ skip \subseteq 1..fed
  /\ \A k \in DOMAIN images :
       /\ images[k].n \in (1..fed) \ skip
       /\ images[k].n - Cardinality(Before(skip, images[k].n)) = consumed + k
  /\ \A i, j \in DOMAIN images : i < j => images[i].n < images[j].n
  /\ fed - Cardinality(skip) = consumed + Len(images)

LEMMA BeforeFacts ==
  ASSUME NEW fed \in Nat, NEW skip, skip \subseteq 1..fed, NEW i \in Int
  PROVE  /\ IsFiniteSet(skip) /\ Cardinality(skip) \in Nat
         /\ IsFiniteSet(Before(skip, i)) /\ Cardinality(Before(skip, i)) \in Nat
         /\ i > fed => Before(skip, i) = skip
<1>1. IsFiniteSet(1..fed)
  BY FS_Interval
<1>2. Before(skip, i) \subseteq 1..fed
  BY DEF Before
<1>3. IsFiniteSet(skip) /\ IsFiniteSet(Before(skip, i))
  BY <1>1, <1>2, FS_Subset
<1>4. Cardinality(skip) \in Nat /\ Cardinality(Before(skip, i)) \in Nat
  BY <1>3, FS_CardinalityType
<1>5. ASSUME i > fed PROVE Before(skip, i) = skip
  <2>1. \A j \in skip : j < i
    BY <1>5
  <2> QED  BY <2>1 DEF Before
<1> QED  BY <1>3, <1>4, <1>5

LEMMA SkipOne ==
  ASSUME NEW fed \in Nat, NEW skip, skip \subseteq 1..fed, NEW e \in Int, e \notin skip,
         NEW i \in Int
  PROVE  /\ Cardinality(skip \cup {e}) = Cardinality(skip) + 1
         /\ e >= i => Before(skip \cup {e}, i) = Before(skip, i)
         /\ e < i => Cardinality(Before(skip \cup {e}, i)) = Cardinality(Before(skip, i)) + 1
<1>1. IsFiniteSet(skip) /\ IsFiniteSet(Before(skip, i))
  BY BeforeFacts
<1>2. Cardinality(skip \cup {e}) = Cardinality(skip) + 1
  BY <1>1, FS_AddElement
<1>3. e >= i => Before(skip \cup {e}, i) = Before(skip, i)
  BY DEF Before
<1>4. e < i => Before(skip \cup {e}, i) = Before(skip, i) \cup {e}
  BY DEF Before
<1>5. e \notin Before(skip, i)
  BY DEF Before
<1>6. Cardinality(Before(skip, i) \cup {e}) = Cardinality(Before(skip, i)) + 1
  BY <1>1, <1>5, FS_AddElement
<1> QED  BY <1>2, <1>3, <1>4, <1>6

(* feedImage() and pushImage() of an accepted image.                       *)
LEMMA CountPushed ==
  ASSUME NEW R, NEW images \in Seq(R), NEW fed \in Nat, NEW skip, NEW c \in Int,
         CountsAt(images, fed, skip, c),
         NEW e \in R, e.n = fed + 1
  PROVE  CountsAt(Append(images, e), fed + 1, skip, c)
<1> DEFINE q == Append(images, e)
<1>1. /\ Len(images) \in Nat /\ DOMAIN images = 1..Len(images)
      /\ Len(q) = Len(images) + 1 /\ DOMAIN q = 1..(Len(images) + 1)
      /\ \A k \in DOMAIN images : q[k] = images[k]
      /\ q[Len(images) + 1] = e
  BY SeqFacts, AppendFacts
<1>2. /\ skip \subseteq 1..fed
      /\ Cardinality(skip) \in Nat /\ Before(skip, fed + 1) = skip
  <2>1. skip \subseteq 1..fed
    BY DEF CountsAt
  <2>2. fed + 1 \in Int /\ fed + 1 > fed
    OBVIOUS
  <2> QED  BY <2>1, <2>2, BeforeFacts
<1> HIDE DEF q
<1>3. ASSUME NEW k \in DOMAIN q
      PROVE  /\ q[k].n \in (1..(fed + 1)) \ skip
             /\ q[k].n - Cardinality(Before(skip, q[k].n)) = c + k
  <2>1. CASE k \in DOMAIN images
    BY <1>1, <2>1 DEF CountsAt
  <2>2. CASE k = Len(images) + 1
    <3>1. fed - Cardinality(skip) = c + Len(images)
      BY DEF CountsAt
    <3> QED  BY <1>1, <1>2, <2>2, <3>1
  <2> QED  BY <1>1, <2>1, <2>2
<1>4. ASSUME NEW i \in DOMAIN q, NEW j \in DOMAIN q, i < j
      PROVE  q[i].n < q[j].n
  <2>0. i \in DOMAIN images /\ images[i].n \in 1..fed
    BY <1>1, <1>4 DEF CountsAt
  <2>1. CASE j \in DOMAIN images
    BY <1>1, <1>4, <2>0, <2>1 DEF CountsAt
  <2>2. CASE j = Len(images) + 1
    BY <1>1, <2>0, <2>2
  <2> QED  BY <1>1, <2>1, <2>2
<1>5. (fed + 1) - Cardinality(skip) = c + Len(q)
  <2>1. fed - Cardinality(skip) = c + Len(images)
    BY DEF CountsAt
  <2> QED  BY <1>1, <1>2, <2>1
<1>6. skip \subseteq 1..(fed + 1)
  BY <1>2
<1>7. CountsAt(q, fed + 1, skip, c)
  BY <1>3, <1>4, <1>5, <1>6 DEF CountsAt
<1> QED  BY <1>7 DEF q

(* feedImage() of an image that pushImage() then drops.                    *)
LEMMA CountDropped ==
  ASSUME NEW R, NEW images \in Seq(R), NEW fed \in Nat, NEW skip, NEW c \in Int,
         CountsAt(images, fed, skip, c)
  PROVE  CountsAt(images, fed + 1, skip \cup {fed + 1}, c)
<1>1. skip \subseteq 1..fed /\ fed + 1 \notin skip /\ fed + 1 \in Int
  BY DEF CountsAt
<1> DEFINE more == skip \cup {fed + 1}
<1>2. Cardinality(skip \cup {fed + 1}) = Cardinality(skip) + 1 /\ Cardinality(skip) \in Nat
  BY <1>1, SkipOne, BeforeFacts
<1>3. ASSUME NEW k \in DOMAIN images
      PROVE  /\ images[k].n \in (1..(fed + 1)) \ (skip \cup {fed + 1})
             /\ images[k].n - Cardinality(Before(skip \cup {fed + 1}, images[k].n)) = c + k
  <2>1. images[k].n \in (1..fed) \ skip
    BY DEF CountsAt
  <2>2. images[k].n \in Int /\ fed + 1 >= images[k].n
    BY <2>1
  <2>3. Before(skip \cup {fed + 1}, images[k].n) = Before(skip, images[k].n)
    BY <1>1, <2>2, SkipOne
  <2> QED  BY <2>1, <2>3 DEF CountsAt
<1>4. (fed + 1) - Cardinality(more) = c + Len(images)
  <2>1. fed - Cardinality(skip) = c + Len(images)
    BY DEF CountsAt
  <2>2. Len(images) \in Int
    OBVIOUS
  <2> QED  BY <1>2, <2>1, <2>2
<1>5. more \subseteq 1..(fed + 1)
  BY <1>1
<1>6. \A i, j \in DOMAIN images : i < j => images[i].n < images[j].n
  BY DEF CountsAt
<1>7. \A k \in DOMAIN images :
        /\ images[k].n \in (1..(fed + 1)) \ more
        /\ images[k].n - Cardinality(Before(more, images[k].n)) = c + k
  BY <1>3
<1> HIDE DEF more
<1>8. CountsAt(images, fed + 1, more, c)
  BY <1>4, <1>5, <1>6, <1>7 DEF CountsAt
<1> QED  BY <1>8 DEF more

LEMMA TailOfCounted ==
  ASSUME NEW R, NEW images \in Seq(R), images # <<>>,
         NEW fed \in Nat, NEW skip, NEW c \in Int, CountsAt(images, fed, skip, c)
  PROVE  /\ Len(Tail(images)) = Len(images) - 1 /\ Len(images) \in Nat
         /\ DOMAIN Tail(images) = 1..(Len(images) - 1)
         /\ Head(images) = images[1] /\ 1 \in DOMAIN images
         /\ Head(images).n \in (1..fed) \ skip
         /\ Head(images).n - Cardinality(Before(skip, Head(images).n)) = c + 1
         /\ \A k \in DOMAIN Tail(images) :
              /\ Tail(images)[k] = images[k + 1] /\ k + 1 \in DOMAIN images
              /\ Head(images).n < images[k + 1].n /\ images[k + 1].n \in (1..fed) \ skip
<1>1. /\ Len(Tail(images)) = Len(images) - 1 /\ Len(images) \in Nat
      /\ DOMAIN Tail(images) = 1..(Len(images) - 1)
      /\ Head(images) = images[1] /\ 1 \in DOMAIN images
      /\ \A k \in DOMAIN Tail(images) :
           Tail(images)[k] = images[k + 1] /\ k + 1 \in DOMAIN images
  BY SeqFacts, TailFacts
<1>2. Head(images).n \in (1..fed) \ skip
      /\ Head(images).n - Cardinality(Before(skip, Head(images).n)) = c + 1
  BY <1>1 DEF CountsAt
<1>3. ASSUME NEW k \in DOMAIN Tail(images)
      PROVE  Head(images).n < images[k + 1].n /\ images[k + 1].n \in (1..fed) \ skip
  <2>1. k + 1 \in DOMAIN images /\ 1 < k + 1
    BY <1>1
  <2> QED  BY <1>1, <2>1 DEF CountsAt
<1> QED  BY <1>1, <1>2, <1>3

(* An image that is consumed without a result: eaten by calibration, or    *)
(* lost to a failed sync.                                                  *)
LEMMA CountSkipped ==
  ASSUME NEW R, NEW images \in Seq(R), images # <<>>,
         NEW fed \in Nat, NEW skip, NEW c \in Int, CountsAt(images, fed, skip, c)
  PROVE  CountsAt(Tail(images), fed, skip \cup {Head(images).n}, c)
<1> DEFINE q == Tail(images)
           e == Head(images).n
           more == skip \cup {e}
<1>1. /\ Len(q) = Len(images) - 1 /\ Len(images) \in Nat
      /\ DOMAIN q = 1..(Len(images) - 1)
      /\ e \in (1..fed) \ skip
      /\ \A k \in DOMAIN q : /\ q[k] = images[k + 1] /\ k + 1 \in DOMAIN images
                             /\ e < images[k + 1].n /\ images[k + 1].n \in (1..fed) \ skip
  BY TailOfCounted
<1>2. skip \subseteq 1..fed /\ e \notin skip /\ e \in Int
  BY <1>1 DEF CountsAt
<1> HIDE DEF q, e
<1>3. Cardinality(more) = Cardinality(skip) + 1 /\ Cardinality(skip) \in Nat
  BY <1>2, SkipOne, BeforeFacts
<1>4. ASSUME NEW k \in DOMAIN q
      PROVE  /\ q[k].n \in (1..fed) \ more
             /\ q[k].n - Cardinality(Before(more, q[k].n)) = c + k
  <2> DEFINE m == q[k].n
  <2>1. /\ q[k] = images[k + 1] /\ k + 1 \in DOMAIN images /\ k \in Int
        /\ e < m /\ m \in (1..fed) \ skip
    BY <1>1
  <2>2. m - Cardinality(Before(skip, m)) = c + (k + 1)
    BY <2>1 DEF CountsAt
  <2> HIDE DEF m
  <2>3. m \in Int
    BY <2>1
  <2>4. Cardinality(Before(more, m)) = Cardinality(Before(skip, m)) + 1
    BY <1>2, <2>1, <2>3, SkipOne
  <2>5. Cardinality(Before(skip, m)) \in Nat
    BY <1>2, <2>3, BeforeFacts
  <2>6. m - Cardinality(Before(more, m)) = c + k
    <3> HIDE DEF more
    <3> QED  BY <2>1, <2>2, <2>3, <2>4, <2>5
  <2>7. m \in (1..fed) \ more
    BY <2>1, <2>3, <1>2
  <2> HIDE DEF more
  <2> QED  BY <2>6, <2>7 DEF m
<1>5. \A i, j \in DOMAIN q : i < j => q[i].n < q[j].n
  <2> TAKE i, j \in DOMAIN q
  <2> HAVE i < j
  <2>1. i + 1 < j + 1 /\ i + 1 \in DOMAIN images /\ j + 1 \in DOMAIN images
    BY <1>1
  <2> QED  BY <1>1, <2>1 DEF CountsAt
<1>6. fed - Cardinality(more) = c + Len(q)
  <2> HIDE DEF more
  <2>1. fed - Cardinality(skip) = c + Len(images)
    BY DEF CountsAt
  <2> QED  BY <1>1, <1>3, <2>1
<1>7. more \subseteq 1..fed
  BY <1>1, <1>2
<1> HIDE DEF more
<1>8. CountsAt(q, fed, more, c)
  BY <1>4, <1>5, <1>6, <1>7 DEF CountsAt
<1> QED  BY <1>8 DEF more, q, e

(* An image that becomes a group takes one result.                         *)
LEMMA CountTaken ==
  ASSUME NEW R, NEW images \in Seq(R), images # <<>>,
         NEW fed \in Nat, NEW skip, NEW c \in Int, CountsAt(images, fed, skip, c)
  PROVE  CountsAt(Tail(images), fed, skip, c + 1)
<1> DEFINE q == Tail(images)
<1>1. /\ Len(q) = Len(images) - 1 /\ Len(images) \in Nat
      /\ DOMAIN q = 1..(Len(images) - 1)
      /\ \A k \in DOMAIN q : /\ q[k] = images[k + 1] /\ k + 1 \in DOMAIN images
                             /\ images[k + 1].n \in (1..fed) \ skip
  BY TailOfCounted
<1> HIDE DEF q
<1>2. ASSUME NEW k \in DOMAIN q
      PROVE  /\ q[k].n \in (1..fed) \ skip
             /\ q[k].n - Cardinality(Before(skip, q[k].n)) = (c + 1) + k
  <2>1. /\ q[k] = images[k + 1] /\ k + 1 \in DOMAIN images /\ k \in Int
        /\ images[k + 1].n \in (1..fed) \ skip
    BY <1>1
  <2>2. images[k + 1].n - Cardinality(Before(skip, images[k + 1].n)) = c + (k + 1)
    BY <2>1 DEF CountsAt
  <2>3. c + (k + 1) = (c + 1) + k
    BY <2>1
  <2> QED  BY <2>1, <2>2, <2>3
<1>3. \A i, j \in DOMAIN q : i < j => q[i].n < q[j].n
  <2> TAKE i, j \in DOMAIN q
  <2> HAVE i < j
  <2>1. i + 1 < j + 1 /\ i + 1 \in DOMAIN images /\ j + 1 \in DOMAIN images
    BY <1>1
  <2> QED  BY <1>1, <2>1 DEF CountsAt
<1>4. fed - Cardinality(skip) = (c + 1) + Len(q)
  <2>1. fed - Cardinality(skip) = c + Len(images)
    BY DEF CountsAt
  <2> QED  BY <1>1, <2>1
<1>5. skip \subseteq 1..fed
  BY DEF CountsAt
<1>6. CountsAt(q, fed, skip, c + 1)
  BY <1>2, <1>3, <1>4, <1>5 DEF CountsAt
<1> QED  BY <1>6 DEF q

(* The counts do not depend on the images' times.                          *)
LEMMA CountsOfShifted ==
  ASSUME NEW R, NEW images \in Seq(R), NEW other \in Seq(R),
         Len(other) = Len(images), \A k \in DOMAIN images : other[k].n = images[k].n,
         NEW fed, NEW skip, NEW c, CountsAt(images, fed, skip, c)
  PROVE  CountsAt(other, fed, skip, c)
<1>1. DOMAIN other = DOMAIN images
  BY SeqFacts
<1>2. skip \subseteq 1..fed /\ fed - Cardinality(skip) = c + Len(other)
  BY DEF CountsAt
<1>3. ASSUME NEW k \in DOMAIN other
      PROVE  /\ other[k].n \in (1..fed) \ skip
             /\ other[k].n - Cardinality(Before(skip, other[k].n)) = c + k
  BY <1>1 DEF CountsAt
<1>4. \A i, j \in DOMAIN other : i < j => other[i].n < other[j].n
  <2> TAKE i, j \in DOMAIN other
  <2>1. other[i].n = images[i].n /\ other[j].n = images[j].n
    BY <1>1
  <2> QED  BY <1>1, <2>1 DEF CountsAt
<1> QED  BY <1>2, <1>3, <1>4 DEF CountsAt

-----------------------------------------------------------------------------
(***************************************************************************)
(* The third part: what is in the pipe and in the groups is consecutive.   *)
(***************************************************************************)
Consumed(fed, pd, rs) == fed - Len(pd) - Len(rs)

PipeAt(fed, pd, rs, chain) ==
  /\ \A k \in DOMAIN pd : pd[k] = fed - Len(pd) + k
  /\ chain = fed - Len(pd)
  /\ \A k \in DOMAIN rs : /\ rs[k].n = Consumed(fed, pd, rs) + k
                          /\ rs[k].prev = Consumed(fed, pd, rs) + k - 1

LEMMA PipeFed ==
  ASSUME NEW fed \in Nat, NEW pd \in Seq(Nat), NEW R, NEW rs \in Seq(R), NEW chain,
         PipeAt(fed, pd, rs, chain)
  PROVE  /\ PipeAt(fed + 1, Append(pd, fed + 1), rs, chain)
         /\ Consumed(fed + 1, Append(pd, fed + 1), rs) = Consumed(fed, pd, rs)
<1> DEFINE q == Append(pd, fed + 1)
<1>1. /\ Len(pd) \in Nat /\ DOMAIN pd = 1..Len(pd) /\ Len(rs) \in Nat
      /\ Len(q) = Len(pd) + 1 /\ DOMAIN q = 1..(Len(pd) + 1)
      /\ \A k \in DOMAIN pd : q[k] = pd[k]
      /\ q[Len(pd) + 1] = fed + 1
  BY SeqFacts, AppendFacts
<1> HIDE DEF q
<1>2. Consumed(fed + 1, q, rs) = Consumed(fed, pd, rs)
  BY <1>1 DEF Consumed
<1>3. ASSUME NEW k \in DOMAIN q PROVE q[k] = (fed + 1) - Len(q) + k
  <2>1. CASE k \in DOMAIN pd
    <3>1. q[k] = fed - Len(pd) + k /\ k \in Nat
      BY <1>1, <2>1 DEF PipeAt
    <3> QED  BY <1>1, <3>1
  <2>2. CASE k = Len(pd) + 1
    BY <1>1, <2>2
  <2> QED  BY <1>1, <2>1, <2>2
<1>4. chain = (fed + 1) - Len(q)
  BY <1>1 DEF PipeAt
<1>5. PipeAt(fed + 1, q, rs, chain)
  BY <1>2, <1>3, <1>4 DEF PipeAt
<1> QED  BY <1>2, <1>5 DEF q

LEMMA PipeAnswered ==
  ASSUME NEW fed \in Nat, NEW pd \in Seq(Nat), pd # <<>>, NEW R, NEW rs \in Seq(R),
         NEW chain, PipeAt(fed, pd, rs, chain),
         NEW e \in R, e.n = Head(pd), e.prev = chain
  PROVE  /\ PipeAt(fed, Tail(pd), Append(rs, e), Head(pd))
         /\ Consumed(fed, Tail(pd), Append(rs, e)) = Consumed(fed, pd, rs)
<1> DEFINE q == Tail(pd)
           r == Append(rs, e)
<1>1. /\ Len(pd) \in Nat /\ Len(rs) \in Nat /\ DOMAIN rs = 1..Len(rs)
      /\ 1 \in DOMAIN pd /\ Head(pd) = pd[1]
  BY SeqFacts
<1>2. /\ Len(q) = Len(pd) - 1 /\ DOMAIN q = 1..(Len(pd) - 1)
      /\ \A k \in DOMAIN q : q[k] = pd[k + 1] /\ k + 1 \in DOMAIN pd
  BY TailFacts
<1>3. /\ Len(r) = Len(rs) + 1 /\ DOMAIN r = 1..(Len(rs) + 1)
      /\ \A k \in DOMAIN rs : r[k] = rs[k]
      /\ r[Len(rs) + 1] = e
  BY AppendFacts
<1>4. Head(pd) = fed - Len(pd) + 1 /\ chain = fed - Len(pd)
  BY <1>1 DEF PipeAt
<1> HIDE DEF q, r
<1>5. Consumed(fed, q, r) = Consumed(fed, pd, rs)
  BY <1>1, <1>2, <1>3 DEF Consumed
<1>6. ASSUME NEW k \in DOMAIN q PROVE q[k] = fed - Len(q) + k
  <2>1. pd[k + 1] = fed - Len(pd) + (k + 1) /\ k \in Int
    BY <1>1, <1>2 DEF PipeAt
  <2> QED  BY <1>1, <1>2, <2>1
<1>7. ASSUME NEW k \in DOMAIN r
      PROVE  /\ r[k].n = Consumed(fed, q, r) + k
             /\ r[k].prev = Consumed(fed, q, r) + k - 1
  <2>1. CASE k \in DOMAIN rs
    BY <1>3, <1>5, <2>1 DEF PipeAt
  <2>2. CASE k = Len(rs) + 1
    <3>1. r[k] = e /\ Consumed(fed, q, r) = fed - Len(pd) - Len(rs)
      BY <1>3, <1>5, <2>2 DEF Consumed
    <3> QED  BY <1>1, <1>4, <2>2, <3>1
  <2> QED  BY <1>1, <1>3, <2>1, <2>2
<1>8. Head(pd) = fed - Len(q)
  BY <1>1, <1>2, <1>4
<1>9. PipeAt(fed, q, r, Head(pd))
  BY <1>6, <1>7, <1>8 DEF PipeAt
<1> QED  BY <1>5, <1>9 DEF q, r

LEMMA PipeConsumed ==
  ASSUME NEW fed \in Nat, NEW pd \in Seq(Nat), NEW R, NEW rs \in Seq(R), rs # <<>>,
         NEW chain, PipeAt(fed, pd, rs, chain)
  PROVE  /\ PipeAt(fed, pd, Tail(rs), chain)
         /\ Consumed(fed, pd, rs) \in Int
         /\ Consumed(fed, pd, Tail(rs)) = Consumed(fed, pd, rs) + 1
         /\ Head(rs).n = Consumed(fed, pd, rs) + 1
         /\ Head(rs).prev = Consumed(fed, pd, rs)
<1> DEFINE q == Tail(rs)
<1>1. Len(pd) \in Nat /\ Len(rs) \in Nat /\ 1 \in DOMAIN rs /\ Head(rs) = rs[1]
  BY SeqFacts
<1>2. /\ Len(q) = Len(rs) - 1 /\ DOMAIN q = 1..(Len(rs) - 1)
      /\ \A k \in DOMAIN q : q[k] = rs[k + 1] /\ k + 1 \in DOMAIN rs
  BY TailFacts
<1> HIDE DEF q
<1>3. PICK c \in Int : c = Consumed(fed, pd, rs) /\ Consumed(fed, pd, q) = c + 1
  <2>1. Consumed(fed, pd, rs) \in Int
    BY <1>1 DEF Consumed
  <2>2. Consumed(fed, pd, q) = Consumed(fed, pd, rs) + 1
    BY <1>1, <1>2 DEF Consumed
  <2> QED  BY <2>1, <2>2
<1>4. Head(rs).n = c + 1 /\ Head(rs).prev = c + 1 - 1
  BY <1>1, <1>3 DEF PipeAt
<1>5. ASSUME NEW k \in DOMAIN q
      PROVE  /\ q[k].n = Consumed(fed, pd, q) + k
             /\ q[k].prev = Consumed(fed, pd, q) + k - 1
  <2>1. rs[k + 1].n = c + (k + 1) /\ rs[k + 1].prev = c + (k + 1) - 1 /\ k \in Int
    BY <1>1, <1>2, <1>3 DEF PipeAt
  <2>2. c + (k + 1) = (c + 1) + k
    BY <1>3, <2>1
  <2>3. q[k] = rs[k + 1]
    BY <1>2
  <2>4. q[k].n = (c + 1) + k /\ q[k].prev = ((c + 1) + k) - 1
    BY <2>1, <2>2, <2>3
  <2> QED  BY <1>3, <2>1, <2>4
<1>6. PipeAt(fed, pd, q, chain)
  BY <1>5 DEF PipeAt
<1>7. Head(rs).prev = c
  BY <1>3, <1>4
<1> QED  BY <1>3, <1>4, <1>6, <1>7 DEF q

(* The groups waiting to be estimated, the first of them the (est + 1)-th  *)
(* ever; each group's frame lags its image by what was skipped before it.  *)
GroupsAt(gs, images, fed, skip, est) ==
  \A k \in DOMAIN gs :
    /\ gs[k].frame.n = est + k
    /\ gs[k].frame.prev = est + k - 1
    /\ gs[k].frame.n = gs[k].n - Cardinality(Before(skip, gs[k].n))
    /\ gs[k].n \in 1..fed
    /\ \A i \in DOMAIN images : gs[k].n < images[i].n

LEMMA GroupSkipped ==
  ASSUME NEW R, NEW images \in Seq(R), images # <<>>,
         NEW fed \in Nat, NEW skip, NEW c \in Int, CountsAt(images, fed, skip, c),
         NEW gs, NEW est \in Int, GroupsAt(gs, images, fed, skip, est)
  PROVE  GroupsAt(gs, Tail(images), fed, skip \cup {Head(images).n}, est)
<1> DEFINE q == Tail(images)
           e == Head(images).n
           more == skip \cup {e}
<1>1. /\ e \in (1..fed) \ skip /\ Head(images) = images[1] /\ 1 \in DOMAIN images
      /\ \A k \in DOMAIN q : q[k] = images[k + 1] /\ k + 1 \in DOMAIN images
  BY TailOfCounted
<1>2. skip \subseteq 1..fed
  BY DEF CountsAt
<1>3. ASSUME NEW k \in DOMAIN gs
      PROVE  Before(more, gs[k].n) = Before(skip, gs[k].n)
  <2>1. gs[k].n \in Int /\ gs[k].n < e
    BY <1>1 DEF GroupsAt
  <2> HIDE DEF e
  <2>2. e >= gs[k].n /\ e \in Int /\ e \notin skip
    BY <1>1, <2>1
  <2> QED  BY <1>2, <2>1, <2>2, SkipOne
<1>4. ASSUME NEW k \in DOMAIN gs, NEW i \in DOMAIN q
      PROVE  gs[k].n < q[i].n
  BY <1>1 DEF GroupsAt
<1> HIDE DEF q, more
<1>5. GroupsAt(gs, q, fed, more, est)
  BY <1>3, <1>4 DEF GroupsAt
<1> QED  BY <1>5 DEF q, more

LEMMA GroupTaken ==
  ASSUME NEW R, NEW images \in Seq(R), images # <<>>,
         NEW fed \in Nat, NEW skip,
         NEW G, NEW gs \in Seq(G), NEW est \in Int,
         CountsAt(images, fed, skip, est + Len(gs)),
         GroupsAt(gs, images, fed, skip, est),
         NEW g \in G, g.n = Head(images).n,
         g.frame.n = est + Len(gs) + 1, g.frame.prev = est + Len(gs)
  PROVE  GroupsAt(Append(gs, g), Tail(images), fed, skip, est)
<1> DEFINE q == Tail(images)
           hs == Append(gs, g)
           e == Head(images).n
<1>0. Len(gs) \in Nat /\ DOMAIN gs = 1..Len(gs) /\ est + Len(gs) \in Int
  BY SeqFacts
<1>1. /\ e \in (1..fed) \ skip
      /\ e - Cardinality(Before(skip, e)) = est + Len(gs) + 1
      /\ \A k \in DOMAIN q : /\ q[k] = images[k + 1] /\ k + 1 \in DOMAIN images
                             /\ e < images[k + 1].n
  BY <1>0, TailOfCounted
<1>2. /\ Len(hs) = Len(gs) + 1 /\ DOMAIN hs = 1..(Len(gs) + 1)
      /\ \A k \in DOMAIN gs : hs[k] = gs[k]
      /\ hs[Len(gs) + 1] = g
  BY AppendFacts
<1> HIDE DEF q, hs
<1>3. ASSUME NEW k \in DOMAIN hs
      PROVE  /\ hs[k].frame.n = est + k
             /\ hs[k].frame.prev = est + k - 1
             /\ hs[k].frame.n = hs[k].n - Cardinality(Before(skip, hs[k].n))
             /\ hs[k].n \in 1..fed
             /\ \A i \in DOMAIN q : hs[k].n < q[i].n
  <2>1. CASE k \in DOMAIN gs
    BY <1>1, <1>2, <2>1 DEF GroupsAt
  <2>2. CASE k = Len(gs) + 1
    <3>1. hs[k] = g /\ g.n = e
      BY <1>2, <2>2
    <3> HIDE DEF e
    <3>2. est + Len(gs) + 1 = est + k /\ est + Len(gs) = est + k - 1
      BY <1>0, <2>2
    <3> QED  BY <1>1, <3>1, <3>2
  <2> QED  BY <1>0, <1>2, <2>1, <2>2
<1>4. GroupsAt(hs, q, fed, skip, est)
  BY <1>3 DEF GroupsAt
<1> QED  BY <1>4 DEF q, hs

LEMMA GroupEstimated ==
  ASSUME NEW images, NEW fed, NEW skip, NEW G, NEW gs \in Seq(G), gs # <<>>, NEW est \in Int,
         GroupsAt(gs, images, fed, skip, est)
  PROVE  /\ GroupsAt(Tail(gs), images, fed, skip, est + 1)
         /\ Head(gs).frame.n = est + 1 /\ Head(gs).frame.prev = est
<1> DEFINE q == Tail(gs)
<1>1. 1 \in DOMAIN gs /\ Head(gs) = gs[1] /\ Len(gs) \in Nat
  BY SeqFacts
<1>2. /\ DOMAIN q = 1..(Len(gs) - 1)
      /\ \A k \in DOMAIN q : q[k] = gs[k + 1] /\ k + 1 \in DOMAIN gs
  BY TailFacts
<1>3. Head(gs).frame.n = est + 1 /\ Head(gs).frame.prev = est + 1 - 1
  BY <1>1 DEF GroupsAt
<1> HIDE DEF q
<1>4. ASSUME NEW k \in DOMAIN q
      PROVE  q[k].frame.n = (est + 1) + k /\ q[k].frame.prev = (est + 1) + k - 1
  <2>1. gs[k + 1].frame.n = est + (k + 1) /\ gs[k + 1].frame.prev = est + (k + 1) - 1
        /\ k \in Int
    BY <1>1, <1>2 DEF GroupsAt
  <2> QED  BY <1>2, <2>1
<1>5. GroupsAt(q, images, fed, skip, est + 1)
  BY <1>2, <1>4 DEF GroupsAt
<1>6. est + 1 - 1 = est
  OBVIOUS
<1> QED  BY <1>3, <1>5, <1>6 DEF q

HistoryAt(hist, est) ==
  /\ est \in Nat
  /\ est = 0 => hist = <<>>
  /\ est > 0 => Len(hist) = 1 /\ Head(hist).n = est

Estimated == Consumed(nFed, pend, results) - Len(groups)

CountsOK ==
  active => /\ CountsAt(imageQ, nFed, skipped, Consumed(nFed, pend, results))
            /\ PipeAt(nFed, pend, results, prevChain)
            /\ GroupsAt(groups, imageQ, nFed, skipped, Estimated)
            /\ HistoryAt(history, Estimated)

(***************************************************************************)
(* The fourth part: calibration.  Times are absolute and nothing is        *)
(* grouped until it is done; and a bag that ended without it left no image *)
(* that the main loop could take.                                          *)
(***************************************************************************)
CalibrationOK ==
  /\ ~calibDone => /\ startTime = 0 /\ groups = <<>>
                   /\ calibImu \o imuQ = acceptedImu
                   /\ framesToGo > 0
  /\ bagDone => offlineMode
  /\ bagDone /\ ~calibDone => ~Ready
  /\ mode = "run" => calibDone \/ bagDone

IInv ==
  /\ TypeOK
  /\ StreamsOK
  /\ CountsOK
  /\ CalibrationOK
  /\ ImuBracketsImage
  /\ AnchorAlwaysFound

LEMMA InitIInv == Init => IInv
<1> SUFFICES ASSUME Init PROVE IInv
  OBVIOUS
<1> USE DEF Init, DataQueuesInit, PipeInit
<1>1. TypeOK
  <2>1. framesToGo \in Nat
    BY SyncAssumption
  <2>2. offlineMode \in BOOLEAN
    BY MarginAssumption
  <2>3. groups \in Seq([n : Nat, t : Int, points : SUBSET Int, imu : Seq(Int),
                        frame : [n : Nat, prev : Nat]])
    BY EmptySeq
  <2>4. lookup \in [want : Nat, hit : BOOLEAN, pose : Nat]
    BY DEF NoLookup, NoFrame
  <2>5. /\ imageQ \in Seq([t : Int, n : Nat])
        /\ results \in Seq([n : Nat, prev : Nat])
        /\ history \in Seq([n : Nat, pose : Nat])
    BY EmptySeq
  <2>6. /\ lidarQ \in Seq(SUBSET Int) /\ imuQ \in Seq(Int) /\ pend \in Seq(Nat)
        /\ calibImu \in Seq(Int) /\ acceptedImu \in Seq(Int)
    BY EmptySeq
  <2>7. quiet \in [Streams -> BOOLEAN]
    OBVIOUS
  <2>8. /\ {latestImage, latestLidar, latestImu, latestFed, startTime} \subseteq Nat
        /\ nFed \in Nat /\ prevChain \in Nat
        /\ currTime \in Int /\ lastPop \in Int /\ skipped \subseteq Nat
    BY DEF NoFrame
  <2>9. mode \in {"calib", "run"} /\ calibDone \in BOOLEAN /\ bagDone \in BOOLEAN
        /\ active \in BOOLEAN
    OBVIOUS
  <2> HIDE DEF Init, DataQueuesInit, PipeInit
  <2> QED  BY <2>1, <2>2, <2>3, <2>4, <2>5, <2>6, <2>7, <2>8, <2>9 DEF TypeOK
<1>2. StreamsOK
  <2>1. ImagesBetween(imageQ, startTime, lastPop, latestImage)
    BY EmptySeq DEF ImagesBetween
  <2>2. ScansBetween(lidarQ, startTime, lastPop, latestLidar)
    BY EmptySeq DEF ScansBetween, ScansInOrder
  <2>3. SamplesBetween(imuQ, startTime, lastPop, latestImu)
    BY EmptySeq DEF SamplesBetween
  <2> QED  BY <2>1, <2>2, <2>3 DEF StreamsOK, StreamsBetween
<1>3. CountsOK
  <2>0. Len(<<>>) = 0 /\ DOMAIN <<>> = {} /\ 0 - 0 = 0
    OBVIOUS
  <2>1. Consumed(nFed, pend, results) = 0 /\ Estimated = 0
    BY <2>0 DEF Consumed, Estimated
  <2>2. CountsAt(imageQ, nFed, skipped, 0)
    BY FS_EmptySet DEF CountsAt
  <2>3. PipeAt(nFed, pend, results, prevChain)
    BY <2>0 DEF PipeAt, NoFrame
  <2>4. GroupsAt(groups, imageQ, nFed, skipped, 0) /\ HistoryAt(history, 0)
    BY DEF GroupsAt, HistoryAt
  <2> QED  BY <2>1, <2>2, <2>3, <2>4 DEF CountsOK
<1>4. CalibrationOK
  BY SyncAssumption DEF CalibrationOK
<1>5. ImuBracketsImage /\ AnchorAlwaysFound
  BY DEF ImuBracketsImage, AnchorAlwaysFound, NoLookup
<1> QED  BY <1>1, <1>2, <1>3, <1>4, <1>5 DEF IInv

(***************************************************************************)
(* Steps that touch none of the queues.                                    *)
(***************************************************************************)
LEMMA QueuesUnchanged ==
  ASSUME StreamsOK, UNCHANGED <<imageQ, lidarQ, imuQ, startTime, lastPop,
                                latestImage, latestLidar, latestImu>>
  PROVE  StreamsOK'
  BY DEF StreamsOK

LEMMA CountsUnchanged ==
  ASSUME CountsOK, UNCHANGED <<imageQ, skipped, groups, history, pipeVars>>
  PROVE  CountsOK'
  BY DEF CountsOK, Estimated, pipeVars

LEMMA StreamGoesQuietKeeps ==
  ASSUME IInv, NEW s \in Streams, StreamGoesQuiet(s)
  PROVE  IInv'
<1> USE DEF StreamGoesQuiet, QuietElapses, pipeVars, syncVars
<1>1. TypeOK'
  BY DEF IInv, TypeOK
<1>2. StreamsOK' /\ CountsOK'
  BY QueuesUnchanged, CountsUnchanged DEF IInv
<1>3. CalibrationOK'
  BY DEF IInv, CalibrationOK
<1>4. ImuBracketsImage' /\ AnchorAlwaysFound'
  BY DEF IInv, ImuBracketsImage, AnchorAlwaysFound
<1> QED  BY <1>1, <1>2, <1>3, <1>4 DEF IInv

LEMMA BagEndsKeeps ==
  ASSUME IInv, BagEnds
  PROVE  IInv'
<1> USE DEF BagEnds, dqVars, pipeVars
<1>1. TypeOK'
  BY DEF IInv, TypeOK
<1>2. StreamsOK' /\ CountsOK'
  BY QueuesUnchanged, CountsUnchanged DEF IInv
<1>3. CalibrationOK'
  <2>1. Ready' <=> Ready
    BY DEF Ready, StreamSettled
  <2>2. mode = "calib" \/ mode = "run"
    BY DEF IInv, TypeOK
  <2> QED  BY <2>1, <2>2 DEF IInv, CalibrationOK, CanReceive, CalibrationCaughtUp
<1>4. ImuBracketsImage' /\ AnchorAlwaysFound'
  BY DEF IInv, ImuBracketsImage, AnchorAlwaysFound
<1> QED  BY <1>1, <1>2, <1>3, <1>4 DEF IInv

LEMMA EnterMainLoopKeeps ==
  ASSUME IInv, EnterMainLoop
  PROVE  IInv'
<1> USE DEF EnterMainLoop, dqVars, pipeVars
<1>1. TypeOK'
  BY DEF IInv, TypeOK
<1>2. StreamsOK' /\ CountsOK'
  BY QueuesUnchanged, CountsUnchanged DEF IInv
<1>3. CalibrationOK'
  <2>1. Ready' <=> Ready
    BY DEF Ready, StreamSettled
  <2> QED  BY <2>1 DEF IInv, CalibrationOK, CalibrationOver
<1>4. ImuBracketsImage' /\ AnchorAlwaysFound'
  BY DEF IInv, ImuBracketsImage, AnchorAlwaysFound
<1> QED  BY <1>1, <1>2, <1>3, <1>4 DEF IInv

LEMMA TrackerAnswersKeeps ==
  ASSUME IInv, TrackerAnswers
  PROVE  IInv'
<1> USE DEF TrackerAnswers, Answer, dqVars, syncVars
<1> DEFINE R == [n : Nat, prev : Nat]
           e == [n |-> Head(pend), prev |-> prevChain]
<1>1. /\ pend \in Seq(Nat) /\ results \in Seq(R) /\ nFed \in Nat /\ prevChain \in Nat
      /\ pend # <<>> /\ Head(pend) \in Nat
  BY SeqFacts DEF IInv, TypeOK
<1>2. e \in R /\ e.n = Head(pend) /\ e.prev = prevChain
  BY <1>1
<1>3. pend' = Tail(pend) /\ results' = Append(results, e) /\ prevChain' = Head(pend)
  OBVIOUS
<1> HIDE DEF R, e
<1>4. Tail(pend) \in Seq(Nat) /\ Append(results, e) \in Seq(R)
  BY <1>1, <1>2, TailFacts, AppendFacts
<1>5. TypeOK'
  BY <1>1, <1>3, <1>4 DEF IInv, TypeOK, R
<1>6. StreamsOK'
  BY QueuesUnchanged DEF IInv
<1>7. CountsOK'
  <2> SUFFICES ASSUME active PROVE CountsOK'
    BY DEF CountsOK
  <2>1. PipeAt(nFed, pend, results, prevChain)
    BY DEF IInv, CountsOK
  <2>2. /\ PipeAt(nFed, Tail(pend), Append(results, e), Head(pend))
        /\ Consumed(nFed, Tail(pend), Append(results, e)) = Consumed(nFed, pend, results)
    BY <1>1, <1>2, <2>1, PipeAnswered
  <2>3. /\ Consumed(nFed, pend, results)' = Consumed(nFed, pend, results)
        /\ Estimated' = Estimated
    BY <1>3, <2>2 DEF Estimated
  <2> QED  BY <1>3, <2>2, <2>3 DEF IInv, CountsOK
<1>8. CalibrationOK'
  <2>1. Ready' <=> Ready
    BY DEF Ready, StreamSettled
  <2> QED  BY <2>1 DEF IInv, CalibrationOK
<1>9. ImuBracketsImage' /\ AnchorAlwaysFound'
  BY DEF IInv, ImuBracketsImage, AnchorAlwaysFound
<1> QED  BY <1>5, <1>6, <1>7, <1>8, <1>9 DEF IInv

(***************************************************************************)
(* The sensor callbacks: what push*() does to the queues, then the steps.  *)
(***************************************************************************)
LEMMA ImageCallbackKeeps ==
  ASSUME IInv, NEW t \in Stamps, ImageCallback(t)
  PROVE  IInv'
<1> USE DEF ImageCallback
<1> DEFINE R == [t : Int, n : Nat]
           e == [t |-> t - startTime, n |-> nFed + 1]
<1>1. /\ t \in Nat /\ t >= 1 /\ nFed \in Nat /\ startTime \in Nat /\ latestImage \in Nat
      /\ latestFed \in Nat /\ lastPop \in Nat /\ lastPop <= latestImage
      /\ imageQ \in Seq(R) /\ pend \in Seq(Nat) /\ results \in Seq([n : Nat, prev : Nat])
  BY SyncAssumption DEF Stamps, IInv, TypeOK, StreamsOK, StreamsBetween
<1>2. groups = <<>> /\ ~bagDone
  BY DEF CanReceive
<1>3. /\ nFed' = nFed + 1
      /\ pend' = IF active THEN Append(pend, nFed + 1) ELSE pend
      /\ UNCHANGED <<results, prevChain, active>>
  BY DEF Feed
<1>4. /\ latestFed' = IF t > latestFed THEN t ELSE latestFed
      /\ t < latestImage => /\ UNCHANGED <<latestImage, imageQ>>
                            /\ skipped' = skipped \cup {nFed + 1}
      /\ ~(t < latestImage) => /\ latestImage' = t /\ imageQ' = Append(imageQ, e)
                               /\ UNCHANGED skipped
      /\ UNCHANGED <<lidarQ, imuQ, latestLidar, latestImu, quiet, startTime, offlineMode>>
  BY DEF PushImage, UpdateLatestFedTime
<1>5. e \in R /\ e.n = nFed + 1
  BY <1>1
<1>6. ImagesBetween(imageQ, startTime, lastPop, latestImage)
  BY DEF IInv, StreamsOK, StreamsBetween
<1>7. ~(t < latestImage)
        => Append(imageQ, e) \in Seq(R) /\ ImagesBetween(Append(imageQ, e), startTime, lastPop, t)
  <2> HAVE ~(t < latestImage)
  <2>1. ImagesBetween(Append(imageQ, e), startTime, lastPop, t)
    BY <1>1, <1>6, ImagePushed
  <2> QED  BY <2>1 DEF ImagesBetween
<1> HIDE DEF e, R
<1>8. Append(pend, nFed + 1) \in Seq(Nat)
  BY <1>1, AppendFacts
<1> HIDE DEF ImageCallback
<1>9. UNCHANGED <<mode, calibDone, framesToGo, calibImu, currTime, groups,
                  history, nScans, nImu, bagDone, acceptedImu, lastPop, lookup>>
  BY DEF ImageCallback
<1>10. TypeOK'
  <2>1. imageQ' \in Seq(R)
    BY <1>1, <1>4, <1>7
  <2>2. /\ {latestImage, latestLidar, latestImu, latestFed, startTime}' \subseteq Nat
        /\ nFed' \in Nat /\ pend' \in Seq(Nat) /\ skipped' \subseteq Nat
    <3>1. latestFed' \in Nat /\ latestImage' \in Nat
      BY <1>1, <1>4
    <3>2. latestLidar' \in Nat /\ latestImu' \in Nat /\ startTime' \in Nat
      BY <1>4 DEF IInv, TypeOK
    <3>3. nFed' \in Nat /\ pend' \in Seq(Nat)
      BY <1>1, <1>3, <1>8
    <3>4. skipped' \subseteq Nat
      <4>1. skipped \subseteq Nat
        BY DEF IInv, TypeOK
      <4>2. skipped' = skipped \cup {nFed + 1} \/ skipped' = skipped
        BY <1>4
      <4>3. nFed + 1 \in Nat
        BY <1>1
      <4> QED  BY <4>1, <4>2, <4>3
    <3> QED  BY <3>1, <3>2, <3>3, <3>4
  <2> QED  BY <1>3, <1>4, <1>9, <2>1, <2>2 DEF IInv, TypeOK, R
<1>11. StreamsOK'
  <2>1. CASE t < latestImage
    BY <1>4, <1>9, <2>1, QueuesUnchanged DEF IInv
  <2>2. CASE ~(t < latestImage)
    <3>1. lastPop <= t
      BY <1>1, <2>2
    <3> QED  BY <1>1, <1>4, <1>7, <1>9, <2>2, <3>1 DEF IInv, StreamsOK, StreamsBetween
  <2> QED  BY <2>1, <2>2
<1>12. CountsOK'
  <2> SUFFICES ASSUME active PROVE CountsOK'
    BY <1>3 DEF CountsOK
  <2> DEFINE c == Consumed(nFed, pend, results)
  <2>1. CountsAt(imageQ, nFed, skipped, c) /\ PipeAt(nFed, pend, results, prevChain)
    BY DEF IInv, CountsOK
  <2>2. /\ PipeAt(nFed + 1, Append(pend, nFed + 1), results, prevChain)
        /\ Consumed(nFed + 1, Append(pend, nFed + 1), results) = c
    BY <1>1, <2>1, PipeFed
  <2>3. c \in Int
    BY <1>1, SeqFacts DEF Consumed
  <2>4. CountsAt(imageQ', nFed', skipped', c)
    <3> HIDE DEF c
    <3>1. CASE t < latestImage
      <4>1. CountsAt(imageQ, nFed + 1, skipped \cup {nFed + 1}, c)
        BY <1>1, <2>1, <2>3, CountDropped
      <4> QED  BY <1>3, <1>4, <3>1, <4>1
    <3>2. CASE ~(t < latestImage)
      <4>1. CountsAt(Append(imageQ, e), nFed + 1, skipped, c)
        BY <1>1, <1>5, <2>1, <2>3, CountPushed
      <4> QED  BY <1>3, <1>4, <3>2, <4>1
    <3> QED  BY <3>1, <3>2
  <2>5. Consumed(nFed, pend, results)' = c /\ PipeAt(nFed, pend, results, prevChain)'
    BY <1>3, <2>2
  <2>6. Estimated' = Estimated
    BY <1>9, <2>5 DEF Estimated
  <2>7. GroupsAt(groups, imageQ, nFed, skipped, Estimated)'
    BY <1>2, <1>9 DEF GroupsAt
  <2>8. HistoryAt(history, Estimated)'
    BY <1>9, <2>6 DEF IInv, CountsOK
  <2> QED  BY <2>4, <2>5, <2>7, <2>8 DEF CountsOK
<1>13. CalibrationOK'
  BY <1>2, <1>4, <1>9 DEF IInv, CalibrationOK
<1>14. ImuBracketsImage' /\ AnchorAlwaysFound'
  BY <1>9 DEF IInv, ImuBracketsImage, AnchorAlwaysFound
<1> QED  BY <1>10, <1>11, <1>12, <1>13, <1>14 DEF IInv

LEMMA ReceiveScanKeeps ==
  ASSUME IInv, NEW points, points \subseteq Nat, HasEnds(points), ReceiveScan(points)
  PROVE  IInv'
<1> USE DEF ReceiveScan
<1>0. points \subseteq Int
  OBVIOUS
<1>1. /\ startTime \in Nat /\ latestLidar \in Nat /\ latestFed \in Nat
      /\ lastPop \in Nat /\ lastPop <= latestLidar
      /\ Earliest(points) \in Nat /\ Latest(points) \in Nat
      /\ Earliest(points) <= Latest(points)
  <2>1. Earliest(points) \in points /\ Latest(points) \in points
        /\ \A t \in points : t <= Latest(points)
    BY <1>0, EndsFacts
  <2> QED  BY <2>1 DEF IInv, TypeOK, StreamsOK, StreamsBetween
<1>2. ~bagDone
  BY DEF CanReceive
<1>3. /\ latestFed' = IF Latest(points) > latestFed THEN Latest(points) ELSE latestFed
      /\ quiet' = [quiet EXCEPT !["lidar"] = FALSE]
      /\ Overlaps(points) => UNCHANGED <<latestLidar, lidarQ>>
      /\ ~Overlaps(points) => /\ latestLidar' = Latest(points)
                              /\ lidarQ' = Append(lidarQ, Shift(points, startTime))
      /\ UNCHANGED <<imageQ, imuQ, latestImage, latestImu, startTime, offlineMode>>
  BY DEF PushLidar, UpdateLatestFedTime
<1>4. UNCHANGED <<mode, calibDone, framesToGo, calibImu, currTime, groups,
                  history, nImu, bagDone, acceptedImu, lastPop, skipped, lookup, pipeVars>>
  OBVIOUS
<1> HIDE DEF ReceiveScan
<1>5. ScansBetween(lidarQ', startTime, lastPop, latestLidar') /\ lastPop <= latestLidar'
      /\ latestLidar' \in Nat
  <2>1. ScansBetween(lidarQ, startTime, lastPop, latestLidar)
    BY DEF IInv, StreamsOK, StreamsBetween
  <2>2. CASE Overlaps(points)
    BY <1>1, <1>3, <2>1, <2>2
  <2>3. CASE ~Overlaps(points)
    <3>1. Earliest(points) >= latestLidar
      BY <1>1, <2>3 DEF Overlaps
    <3>2. ScansBetween(Append(lidarQ, Shift(points, startTime)), startTime, lastPop,
                       Latest(points))
      BY <1>1, <2>1, <3>1, ScanPushed
    <3>3. lastPop <= Latest(points)
      BY <1>1, <3>1
    <3> QED  BY <1>1, <1>3, <2>3, <3>2, <3>3
  <2> QED  BY <2>2, <2>3
<1>6. TypeOK'
  <2>1. lidarQ' \in Seq(SUBSET Int)
    BY <1>5 DEF ScansBetween, ScansInOrder
  <2>2. {latestImage, latestLidar, latestImu, latestFed, startTime}' \subseteq Nat
    <3>1. latestFed' \in Nat
      BY <1>1, <1>3
    <3>2. latestImage' \in Nat /\ latestImu' \in Nat /\ startTime' \in Nat
      BY <1>3 DEF IInv, TypeOK
    <3> QED  BY <1>5, <3>1, <3>2
  <2>3. quiet' \in [Streams -> BOOLEAN]
    BY <1>3 DEF IInv, TypeOK
  <2> QED  BY <1>3, <1>4, <2>1, <2>2, <2>3 DEF IInv, TypeOK, pipeVars
<1>7. StreamsOK'
  BY <1>3, <1>4, <1>5 DEF IInv, StreamsOK, StreamsBetween
<1>8. CountsOK'
  BY <1>3, <1>4, CountsUnchanged DEF IInv
<1>9. CalibrationOK'
  BY <1>2, <1>3, <1>4 DEF IInv, CalibrationOK
<1>10. ImuBracketsImage' /\ AnchorAlwaysFound'
  BY <1>4 DEF IInv, ImuBracketsImage, AnchorAlwaysFound
<1> QED  BY <1>6, <1>7, <1>8, <1>9, <1>10 DEF IInv

(* The points a callback keeps of a received scan.                         *)
LEMMA ScanPoints ==
  ASSUME NEW scan \in Scans, NEW points, points \subseteq scan, points # {}
  PROVE  points \subseteq Nat /\ HasEnds(points)
<1>1. PICK a \in Stamps, b \in Stamps : scan = {a, b}
  BY DEF Scans
<1>2. a \in Nat /\ b \in Nat
  BY SyncAssumption DEF Stamps
<1>3. scan \subseteq Int
  BY <1>1, <1>2
<1>4. HasEnds(scan)
  <2>1. CASE a <= b
    BY <1>1, <1>2, <2>1 DEF HasEnds
  <2>2. CASE b <= a
    BY <1>1, <1>2, <2>2 DEF HasEnds
  <2> QED  BY <1>2, <2>1, <2>2
<1> QED  BY <1>1, <1>2, <1>3, <1>4, EndsOfPart

LEMMA ScanCallbackKeeps ==
  ASSUME IInv, NEW scan \in Scans, LidarCallbackMsg(scan) \/ LidarCallbackPcl(scan)
  PROVE  IInv'
<1> DEFINE points == {p \in scan : IsValid(p)}
<1>1. points \subseteq scan /\ points # {} /\ ReceiveScan(points)
  BY DEF LidarCallbackMsg, LidarCallbackPcl, ReceiveScan
<1> HIDE DEF points
<1>2. points \subseteq Nat /\ HasEnds(points)
  BY <1>1, ScanPoints
<1> QED  BY <1>1, <1>2, ReceiveScanKeeps

LEMMA ImuCallbackKeeps ==
  ASSUME IInv, NEW t \in Stamps, ImuCallback(t)
  PROVE  IInv'
<1> USE DEF ImuCallback
<1>1. /\ startTime \in Nat /\ latestImu \in Nat /\ latestFed \in Nat
      /\ lastPop \in Nat /\ lastPop <= latestImu /\ t \in Nat
      /\ imuQ \in Seq(Int) /\ acceptedImu \in Seq(Int) /\ calibImu \in Seq(Int)
  BY SyncAssumption DEF IInv, TypeOK, StreamsOK, StreamsBetween, Stamps
<1>2. ~bagDone
  BY DEF CanReceive
<1>3. /\ latestFed' = IF t > latestFed THEN t ELSE latestFed
      /\ quiet' = [quiet EXCEPT !["imu"] = FALSE]
      /\ t < latestImu => UNCHANGED <<latestImu, imuQ>>
      /\ ~(t < latestImu) => latestImu' = t /\ imuQ' = Append(imuQ, t - startTime)
      /\ UNCHANGED <<imageQ, lidarQ, latestImage, latestLidar, startTime, offlineMode>>
  BY DEF PushImu, UpdateLatestFedTime
<1>4. UNCHANGED <<mode, calibDone, framesToGo, calibImu, currTime, groups,
                  history, nScans, bagDone, lastPop, skipped, lookup, pipeVars>>
  OBVIOUS
<1>5. acceptedImu' = IF t < latestImu \/ calibDone THEN acceptedImu ELSE Append(acceptedImu, t)
  OBVIOUS
<1> HIDE DEF ImuCallback
<1>6. SamplesBetween(imuQ', startTime, lastPop, latestImu') /\ lastPop <= latestImu'
      /\ latestImu' \in Nat
  <2>1. SamplesBetween(imuQ, startTime, lastPop, latestImu)
    BY DEF IInv, StreamsOK, StreamsBetween
  <2>2. CASE t < latestImu
    BY <1>1, <1>3, <2>1, <2>2
  <2>3. CASE ~(t < latestImu)
    <3>1. t >= latestImu /\ lastPop <= t
      BY <1>1, <2>3
    <3>2. SamplesBetween(Append(imuQ, t - startTime), startTime, lastPop, t)
      BY <1>1, <2>1, <3>1, SamplePushed
    <3> QED  BY <1>1, <1>3, <2>3, <3>1, <3>2
  <2> QED  BY <2>2, <2>3
<1>7. TypeOK'
  <2>1. imuQ' \in Seq(Int)
    BY <1>6 DEF SamplesBetween
  <2>2. {latestImage, latestLidar, latestImu, latestFed, startTime}' \subseteq Nat
    <3>1. latestFed' \in Nat
      BY <1>1, <1>3
    <3>2. latestImage' \in Nat /\ latestLidar' \in Nat /\ startTime' \in Nat
      BY <1>3 DEF IInv, TypeOK
    <3> QED  BY <1>6, <3>1, <3>2
  <2>3. quiet' \in [Streams -> BOOLEAN]
    BY <1>3 DEF IInv, TypeOK
  <2>4. acceptedImu' \in Seq(Int)
    <3>1. t \in Int
      BY <1>1
    <3> QED  BY <1>1, <1>5, <3>1, AppendFacts
  <2> QED  BY <1>3, <1>4, <2>1, <2>2, <2>3, <2>4 DEF IInv, TypeOK, pipeVars
<1>8. StreamsOK'
  BY <1>3, <1>4, <1>6 DEF IInv, StreamsOK, StreamsBetween
<1>9. CountsOK'
  BY <1>3, <1>4, CountsUnchanged DEF IInv
<1>10. CalibrationOK'
  <2>1. ASSUME ~calibDone PROVE calibImu' \o imuQ' = acceptedImu'
    <3>1. calibImu \o imuQ = acceptedImu /\ startTime = 0
      BY <2>1 DEF IInv, CalibrationOK
    <3>2. CASE t < latestImu
      BY <1>3, <1>4, <1>5, <3>1, <3>2
    <3>3. CASE ~(t < latestImu)
      <4>1. imuQ' = Append(imuQ, t) /\ acceptedImu' = Append(acceptedImu, t)
        BY <1>1, <1>3, <1>5, <2>1, <3>1, <3>3
      <4>2. calibImu \o Append(imuQ, t) = Append(calibImu \o imuQ, t)
        BY <1>1
      <4> QED  BY <1>4, <3>1, <4>1, <4>2
    <3> QED  BY <3>2, <3>3
  <2> QED  BY <1>2, <1>3, <1>4, <2>1 DEF IInv, CalibrationOK
<1>11. ImuBracketsImage' /\ AnchorAlwaysFound'
  BY <1>4 DEF IInv, ImuBracketsImage, AnchorAlwaysFound
<1> QED  BY <1>7, <1>8, <1>9, <1>10, <1>11 DEF IInv

(***************************************************************************)
(* The main loop.                                                          *)
(***************************************************************************)
GroupRecords == [n : Nat, t : Int, points : SUBSET Int, imu : Seq(Int),
                 frame : [n : Nat, prev : Nat]]

Bracketed(g) ==
  /\ Len(g.imu) > 0
  /\ g.imu[Len(g.imu)] >= g.t
  /\ \A j \in 1..(Len(g.imu) - 1) : g.imu[j] < g.t

LEMMA BracketsFacts == ImuBracketsImage <=> \A k \in DOMAIN groups : Bracketed(groups[k])
  BY DEF ImuBracketsImage, Bracketed

LEMMA EstimateStateKeeps ==
  ASSUME IInv, EstimateState
  PROVE  IInv'
<1> DEFINE group == Head(groups)
           rec == PoseRecord(group)
           left == IF AnchorHit(group.frame) THEN Tail(history) ELSE history
<1>1. /\ groups # <<>> /\ groups' = Tail(groups) /\ mode = "run"
      /\ UNCHANGED <<dqVars, pipeVars>>
      /\ UNCHANGED <<mode, calibDone, framesToGo, calibImu, currTime, nScans,
                     nImu, bagDone, acceptedImu, lastPop, skipped>>
      /\ ~active => UNCHANGED <<history, lookup>>
      /\ active => /\ history' = Append(left, rec)
                   /\ lookup' = [want |-> group.frame.prev, hit |-> AnchorHit(group.frame),
                                 pose |-> IF AnchorHit(group.frame)
                                          THEN Head(history).pose ELSE NoFrame]
  BY DEF EstimateState
<1>2. groups \in Seq(GroupRecords) /\ history \in Seq([n : Nat, pose : Nat])
  BY DEF IInv, TypeOK, GroupRecords
<1>3. /\ group \in GroupRecords /\ group = groups[1] /\ 1 \in DOMAIN groups
      /\ Len(groups) \in Nat
  BY <1>1, <1>2, SeqFacts
<1>4. /\ Tail(groups) \in Seq(GroupRecords) /\ Len(Tail(groups)) = Len(groups) - 1
      /\ \A k \in DOMAIN Tail(groups) :
           Tail(groups)[k] = groups[k + 1] /\ k + 1 \in DOMAIN groups
  BY <1>1, <1>2, TailFacts
<1>5. rec \in [n : Nat, pose : Nat] /\ rec.n = group.frame.n /\ group.frame.prev \in Nat
  BY <1>3 DEF PoseRecord, GroupRecords
<1>6. history # <<>> => /\ Head(history) \in [n : Nat, pose : Nat]
                        /\ Tail(history) \in Seq([n : Nat, pose : Nat])
                        /\ Len(Tail(history)) = Len(history) - 1
  <2> DEFINE P == [n : Nat, pose : Nat]
  <2>1. history \in Seq(P)
    BY <1>2
  <2> HIDE DEF P
  <2>2. history # <<>> => /\ Head(history) \in P /\ Tail(history) \in Seq(P)
                          /\ Len(Tail(history)) = Len(history) - 1
    BY <2>1, SeqFacts, TailFacts
  <2> QED  BY <2>2 DEF P
<1>7. AnchorHit(group.frame) \in BOOLEAN /\ (AnchorHit(group.frame) => history # <<>>)
  BY DEF AnchorHit
<1> HIDE DEF group, rec, left
<1>8. TypeOK'
  <2>1. groups' \in Seq(GroupRecords)
    BY <1>1, <1>4
  <2>2. left \in Seq([n : Nat, pose : Nat])
    BY <1>2, <1>6, <1>7 DEF left
  <2>3. history' \in Seq([n : Nat, pose : Nat])
    <3>1. Append(left, rec) \in Seq([n : Nat, pose : Nat])
      BY <1>5, <2>2, AppendFacts
    <3> QED  BY <1>1, <1>2, <3>1
  <2>4. lookup' \in [want : Nat, hit : BOOLEAN, pose : Nat]
    <3>1. CASE ~active
      BY <1>1, <3>1 DEF IInv, TypeOK
    <3>2. CASE active
      <4>1. (IF AnchorHit(group.frame) THEN Head(history).pose ELSE NoFrame) \in Nat
        BY <1>6, <1>7 DEF NoFrame
      <4> QED  BY <1>1, <1>5, <1>7, <3>2, <4>1
    <3> QED  BY <3>1, <3>2
  <2> QED  BY <1>1, <2>1, <2>3, <2>4 DEF IInv, TypeOK, GroupRecords, dqVars, pipeVars
<1>9. StreamsOK'
  BY <1>1, QueuesUnchanged DEF IInv, dqVars
<1>10. ASSUME active
       PROVE  /\ GroupsAt(Tail(groups), imageQ, nFed, skipped, Estimated + 1)
              /\ group.frame.n = Estimated + 1 /\ group.frame.prev = Estimated
              /\ HistoryAt(history, Estimated)
  <2>1. GroupsAt(groups, imageQ, nFed, skipped, Estimated) /\ HistoryAt(history, Estimated)
    BY <1>10 DEF IInv, CountsOK
  <2>2. Estimated \in Int
    BY <2>1 DEF HistoryAt
  <2> DEFINE est == Estimated
  <2>3. est \in Int /\ GroupsAt(groups, imageQ, nFed, skipped, est)
    BY <2>1, <2>2
  <2> HIDE DEF est
  <2>4. /\ GroupsAt(Tail(groups), imageQ, nFed, skipped, est + 1)
        /\ Head(groups).frame.n = est + 1 /\ Head(groups).frame.prev = est
    BY <1>1, <1>2, <2>3, GroupEstimated
  <2> QED  BY <2>1, <2>4 DEF group, est
<1>11. ASSUME active PROVE left = <<>> /\ (AnchorHit(group.frame) \/ group.frame.prev = 0)
  <2>1. CASE Estimated = 0
    BY <1>7, <1>10, <1>11, <2>1 DEF HistoryAt, left
  <2>2. CASE Estimated > 0
    <3>1. Len(history) = 1 /\ Head(history).n = Estimated
      BY <1>10, <1>11, <2>2 DEF HistoryAt
    <3>2. history # <<>>
      BY <1>2, <3>1
    <3>3. AnchorHit(group.frame)
      BY <1>10, <1>11, <3>1, <3>2 DEF AnchorHit
    <3>4. Tail(history) = <<>>
      <4> DEFINE P == [n : Nat, pose : Nat]
      <4>1. Tail(history) \in Seq(P) /\ Len(Tail(history)) = 0
        BY <1>6, <3>1, <3>2
      <4> HIDE DEF P
      <4> QED  BY <4>1, SeqFacts
    <3> QED  BY <3>3, <3>4 DEF left
  <2>3. Estimated \in Nat
    BY <1>10, <1>11 DEF HistoryAt
  <2> QED  BY <2>1, <2>2, <2>3
<1>12. CountsOK'
  <2> SUFFICES ASSUME active PROVE CountsOK'
    BY <1>1 DEF CountsOK, pipeVars
  <2>1. /\ CountsAt(imageQ, nFed, skipped, Consumed(nFed, pend, results))
        /\ PipeAt(nFed, pend, results, prevChain)
    BY DEF IInv, CountsOK
  <2>2. UNCHANGED <<imageQ, nFed, pend, results, prevChain, active, skipped>>
    BY <1>1 DEF dqVars, pipeVars
  <2>3. Consumed(nFed, pend, results)' = Consumed(nFed, pend, results)
    BY <2>2
  <2>4. Estimated' = Estimated + 1
    <3>1. Len(groups') = Len(groups) - 1
      BY <1>1, <1>4
    <3>2. Consumed(nFed, pend, results) \in Int
      <4>1. Len(pend) \in Nat /\ Len(results) \in Nat /\ nFed \in Nat
        BY SeqFacts DEF IInv, TypeOK
      <4> QED  BY <4>1 DEF Consumed
    <3> QED  BY <1>3, <2>3, <3>1, <3>2 DEF Estimated
  <2>5. history' = <<rec>>
    BY <1>1, <1>11
  <2>6. HistoryAt(history', Estimated + 1)
    <3>1. Len(<<rec>>) = 1 /\ Head(<<rec>>) = rec
      OBVIOUS
    <3>2. Estimated \in Nat
      BY <1>10 DEF HistoryAt
    <3> QED  BY <1>5, <1>10, <2>5, <3>1, <3>2 DEF HistoryAt
  <2> QED  BY <1>1, <1>10, <2>1, <2>2, <2>3, <2>4, <2>6 DEF CountsOK
<1>13. CalibrationOK'
  <2>1. Ready' <=> Ready
    BY <1>1 DEF Ready, StreamSettled, dqVars
  <2>2. ~calibDone => groups' = <<>>
    BY <1>1 DEF IInv, CalibrationOK
  <2> QED  BY <1>1, <2>1, <2>2 DEF IInv, CalibrationOK, dqVars
<1>14. ImuBracketsImage'
  <2>1. \A k \in DOMAIN groups : Bracketed(groups[k])
    BY BracketsFacts DEF IInv
  <2>2. \A k \in DOMAIN groups' : Bracketed(groups'[k])
    BY <1>1, <1>4, <2>1
  <2> QED  BY <2>2 DEF ImuBracketsImage, Bracketed
<1>15. AnchorAlwaysFound'
  <2>1. CASE ~active
    BY <1>1, <2>1 DEF IInv, AnchorAlwaysFound
  <2>2. CASE active
    BY <1>1, <1>11, <2>2 DEF AnchorAlwaysFound, NoFrame
  <2> QED  BY <2>1, <2>2
<1> QED  BY <1>8, <1>9, <1>12, <1>13, <1>14, <1>15 DEF IInv

(* A failed sync and an uncompleted calibration window alike: the front    *)
(* image is gone and counted as skipped.                                   *)
LEMMA SkipFront ==
  ASSUME IInv, active, imageQ # <<>>
  PROVE  LET more == skipped \cup {Head(imageQ).n}
         IN  /\ CountsAt(Tail(imageQ), nFed, more, Consumed(nFed, pend, results))
             /\ GroupsAt(groups, Tail(imageQ), nFed, more, Estimated)
<1> DEFINE R == [t : Int, n : Nat]
           c == Consumed(nFed, pend, results)
           est == Estimated
<1>1. imageQ \in Seq(R) /\ nFed \in Nat
  BY DEF IInv, TypeOK
<1>2. c \in Int
  <2>1. Len(pend) \in Nat /\ Len(results) \in Nat
    BY SeqFacts DEF IInv, TypeOK
  <2> QED  BY <1>1, <2>1 DEF Consumed
<1>3. CountsAt(imageQ, nFed, skipped, c) /\ GroupsAt(groups, imageQ, nFed, skipped, est)
      /\ est \in Int
  BY DEF IInv, CountsOK, HistoryAt
<1> HIDE DEF R, c, est
<1>4. CountsAt(Tail(imageQ), nFed, skipped \cup {Head(imageQ).n}, c)
  BY <1>1, <1>2, <1>3, CountSkipped
<1>5. GroupsAt(groups, Tail(imageQ), nFed, skipped \cup {Head(imageQ).n}, est)
  BY <1>1, <1>2, <1>3, GroupSkipped
<1> QED  BY <1>4, <1>5 DEF c, est

LEMMA SyncMeasuresKeeps ==
  ASSUME IInv, SyncMeasures
  PROVE  IInv'
<1> DEFINE R == [t : Int, n : Nat]
           F == [n : Nat, prev : Nat]
           img == Head(imageQ)
           points == PoppedPoints(img.t)
           samples == PoppedImu(img.t)
           success == points # {} /\ samples # <<>>
           g == [n |-> img.n, t |-> img.t, points |-> points, imu |-> samples,
                 frame |-> IF active THEN Head(results) ELSE NoResult]
<1>1. /\ mode = "run" /\ Ready /\ (active => results # <<>>)
      /\ imageQ' = Tail(imageQ) /\ lidarQ' = LidarLeft(img.t) /\ imuQ' = ImuLeft(img.t)
      /\ currTime' = img.t /\ lastPop' = img.t + startTime
      /\ UNCHANGED <<latestImage, latestLidar, latestImu, latestFed, quiet,
                     startTime, offlineMode>>
      /\ UNCHANGED <<mode, calibDone, framesToGo, calibImu, history, nScans,
                     nImu, bagDone, acceptedImu, lookup>>
      /\ success => /\ groups' = Append(groups, g) /\ UNCHANGED skipped
                    /\ active => Consume
                    /\ ~active => UNCHANGED pipeVars
      /\ ~success => /\ UNCHANGED <<groups, pipeVars>>
                     /\ skipped' = skipped \cup {img.n}
  BY DEF SyncMeasures, TrackerGate, ResultReady, PopFront
<1>2. /\ imageQ \in Seq(R) /\ results \in Seq(F) /\ groups \in Seq(GroupRecords)
      /\ nFed \in Nat /\ pend \in Seq(Nat) /\ imageQ # <<>>
  BY <1>1 DEF IInv, TypeOK, GroupRecords, Ready
<1>3. img \in R /\ Tail(imageQ) \in Seq(R)
  <2> HIDE DEF R
  <2> QED  BY <1>2, SeqFacts, TailFacts
<1>4. img.t \in Int /\ img.n \in Nat
  BY <1>3
<1>5. active => Head(results) \in F /\ Tail(results) \in Seq(F) /\ results # <<>>
  <2> HIDE DEF F
  <2> QED  BY <1>1, <1>2, SeqFacts, TailFacts
<1>6. StreamsOK'
  <2>1. StreamsBetween(Tail(imageQ), LidarLeft(img.t), ImuLeft(img.t), startTime,
                       img.t + startTime, latestImage, latestLidar, latestImu)
    BY <1>1, MarginAssumption, PopStreams DEF IInv
  <2> HIDE DEF img
  <2> QED  BY <1>1, <2>1 DEF StreamsOK
<1>7. points \subseteq Int
  <2>1. ScansInOrder(lidarQ)
    BY DEF IInv, StreamsOK, StreamsBetween, ScansBetween
  <2> HIDE DEF img
  <2> QED  BY <1>4, <2>1, PoppedPointsFacts
<1>8. /\ samples \in Seq(Int) /\ Len(samples) > 0
      /\ samples[Len(samples)] >= img.t
      /\ \A j \in 1..(Len(samples) - 1) : samples[j] < img.t
  <2> DEFINE max == img.t
             b == BeforeMax(max)
  <2>1. imuQ \in Seq(Int) /\ max \in Int
    BY <1>4 DEF IInv, TypeOK
  <2>2. b \in 0..(Len(imuQ) - 1) /\ imuQ[b + 1] >= max
    BY <1>1, MarginAssumption, ReadyFacts DEF IInv
  <2>3. Len(imuQ) \in Nat
    BY <2>1, SeqFacts
  <2> HIDE DEF max, b
  <2>4. \A j \in 1..b : imuQ[j] < max
    BY <2>1, BeforeMaxFacts DEF b
  <2>5. /\ PoppedImu(max) \in Seq(Int)
        /\ Len(PoppedImu(max)) = IF b < Len(imuQ) THEN b + 1 ELSE Len(imuQ)
        /\ \A j \in 1..Len(PoppedImu(max)) : PoppedImu(max)[j] = imuQ[j]
    BY <2>1, PoppedImuFacts DEF b
  <2>6. Len(PoppedImu(max)) = b + 1 /\ b \in Nat
    BY <2>2, <2>3, <2>5
  <2>7. PoppedImu(max)[b + 1] >= max
    BY <2>2, <2>5, <2>6
  <2>8. \A j \in 1..b : PoppedImu(max)[j] < max
    BY <2>4, <2>5, <2>6
  <2>9. (b + 1) - 1 = b /\ b + 1 > 0
    BY <2>6
  <2> QED  BY <2>5, <2>6, <2>7, <2>8, <2>9 DEF max
<1>9. calibDone
  BY <1>1 DEF IInv, CalibrationOK
<1> HIDE DEF points, samples
<1>10. g \in GroupRecords
  <2>1. (IF active THEN Head(results) ELSE NoResult) \in F
    BY <1>5 DEF NoResult, NoFrame
  <2> HIDE DEF img
  <2> QED  BY <1>4, <1>7, <1>8, <2>1 DEF GroupRecords
<1>11. /\ g.n = img.n /\ g.t = img.t /\ g.imu = samples
       /\ active => g.frame = Head(results)
  OBVIOUS
<1> HIDE DEF img, g, success, R, F
<1>12. success => /\ Append(groups, g) \in Seq(GroupRecords)
                  /\ DOMAIN Append(groups, g) = 1..(Len(groups) + 1) /\ Len(groups) \in Nat
                  /\ DOMAIN groups = 1..Len(groups)
                  /\ Len(Append(groups, g)) = Len(groups) + 1
                  /\ \A k \in DOMAIN groups : Append(groups, g)[k] = groups[k]
                  /\ Append(groups, g)[Len(groups) + 1] = g
  BY <1>2, <1>10, AppendFacts, SeqFacts
<1>13. /\ nFed' = nFed /\ pend' = pend /\ prevChain' = prevChain /\ active' = active
       /\ results' = IF success /\ active THEN Tail(results) ELSE results
  BY <1>1 DEF Consume, pipeVars
<1>14. TypeOK'
  <2>1. imageQ' \in Seq(R) /\ results' \in Seq(F) /\ groups' \in Seq(GroupRecords)
    BY <1>1, <1>2, <1>3, <1>5, <1>12, <1>13
  <2>2. lidarQ' \in Seq(SUBSET Int) /\ imuQ' \in Seq(Int) /\ lastPop' \in Int
    BY <1>6 DEF StreamsOK, StreamsBetween, ScansBetween, ScansInOrder, SamplesBetween
  <2>3. skipped' \subseteq Nat
    <3>1. skipped \subseteq Nat
      BY DEF IInv, TypeOK
    <3>2. skipped' = skipped \/ skipped' = skipped \cup {img.n}
      BY <1>1
    <3> QED  BY <1>4, <3>1, <3>2
  <2>4. currTime' \in Int
    BY <1>1, <1>4
  <2> QED  BY <1>1, <1>13, <2>1, <2>2, <2>3, <2>4 DEF IInv, TypeOK, GroupRecords, R, F
<1>15. CountsOK'
  <2> SUFFICES ASSUME active PROVE CountsOK'
    BY <1>13 DEF CountsOK
  <2> DEFINE c == Consumed(nFed, pend, results)
             est == Estimated
  <2>1. /\ CountsAt(imageQ, nFed, skipped, c) /\ PipeAt(nFed, pend, results, prevChain)
        /\ GroupsAt(groups, imageQ, nFed, skipped, est) /\ HistoryAt(history, est)
    BY DEF IInv, CountsOK
  <2>2. c \in Int /\ est \in Int /\ est = c - Len(groups) /\ Len(groups) \in Nat
    <3>1. Len(pend) \in Nat /\ Len(results) \in Nat /\ Len(groups) \in Nat
      BY <1>2, SeqFacts
    <3> QED  BY <1>2, <3>1 DEF Consumed, Estimated
  <2>3. CASE ~success
    <3>1. /\ CountsAt(Tail(imageQ), nFed, skipped \cup {img.n}, c)
          /\ GroupsAt(groups, Tail(imageQ), nFed, skipped \cup {img.n}, est)
      BY <1>2, SkipFront DEF img
    <3>2. Consumed(nFed, pend, results)' = c /\ Estimated' = est
      BY <1>1, <1>13, <2>3 DEF Estimated
    <3>3. /\ imageQ' = Tail(imageQ) /\ nFed' = nFed /\ skipped' = skipped \cup {img.n}
          /\ pend' = pend /\ results' = results /\ prevChain' = prevChain
          /\ groups' = groups /\ history' = history
      BY <1>1, <1>13, <2>3
    <3> HIDE DEF c, est
    <3> QED  BY <2>1, <3>1, <3>2, <3>3 DEF CountsOK
  <2>4. CASE success
    <3> HIDE DEF c, est
    <3>1. /\ imageQ' = Tail(imageQ) /\ nFed' = nFed /\ skipped' = skipped
          /\ pend' = pend /\ results' = Tail(results) /\ prevChain' = prevChain
          /\ groups' = Append(groups, g) /\ history' = history
      BY <1>1, <1>13, <2>4
    <3>2. /\ PipeAt(nFed, pend, Tail(results), prevChain)
          /\ Consumed(nFed, pend, Tail(results)) = c + 1
          /\ Head(results).n = c + 1 /\ Head(results).prev = c
      BY <1>2, <1>5, <2>1, PipeConsumed DEF c
    <3>3. CountsAt(Tail(imageQ), nFed, skipped, c + 1)
      BY <1>2, <2>1, <2>2, CountTaken
    <3>4. est + Len(groups) = c
      BY <2>2
    <3>5. g.frame.n = est + Len(groups) + 1 /\ g.frame.prev = est + Len(groups)
      BY <1>11, <3>2, <3>4
    <3>6. GroupsAt(Append(groups, g), Tail(imageQ), nFed, skipped, est)
      <4>1. CountsAt(imageQ, nFed, skipped, est + Len(groups))
        BY <2>1, <3>4
      <4>2. g.n = Head(imageQ).n
        BY <1>11 DEF img
      <4> QED  BY <1>2, <1>10, <2>1, <2>2, <3>5, <4>1, <4>2, GroupTaken
    <3>7. Consumed(nFed, pend, results)' = c + 1
      BY <3>1, <3>2
    <3>8. Estimated' = est
      <4>1. Len(groups') = Len(groups) + 1
        BY <1>12, <2>4, <3>1
      <4> QED  BY <2>2, <3>7, <4>1 DEF Estimated
    <3> QED  BY <2>1, <3>1, <3>2, <3>3, <3>6, <3>7, <3>8 DEF CountsOK
  <2> QED  BY <2>3, <2>4
<1>16. CalibrationOK'
  BY <1>1, <1>9 DEF IInv, CalibrationOK
<1>17. ImuBracketsImage'
  <2>1. \A k \in DOMAIN groups : Bracketed(groups[k])
    BY BracketsFacts DEF IInv
  <2>2. Bracketed(g)
    BY <1>8, <1>11 DEF Bracketed
  <2>3. \A k \in DOMAIN groups' : Bracketed(groups'[k])
    <3>1. CASE ~success
      BY <1>1, <2>1, <3>1
    <3>2. CASE success
      <4>1. \A k \in 1..(Len(groups) + 1) : k \in 1..Len(groups) \/ k = Len(groups) + 1
        BY <1>12, <3>2
      <4> QED  BY <1>1, <1>12, <2>1, <2>2, <3>2, <4>1
    <3> QED  BY <3>1, <3>2
  <2> QED  BY <2>3 DEF ImuBracketsImage, Bracketed
<1>18. AnchorAlwaysFound'
  BY <1>1 DEF IInv, AnchorAlwaysFound
<1> QED  BY <1>6, <1>14, <1>15, <1>16, <1>17, <1>18 DEF IInv

(***************************************************************************)
(* Calibration.                                                            *)
(***************************************************************************)

(* What an image adds to the window and what it leaves queued make up what *)
(* was queued, whether it qualifies or not.                                *)
LEMMA WindowSplit ==
  ASSUME imuQ \in Seq(Int), NEW max \in Int, BeforeMax(max) \in 0..(Len(imuQ) - 1)
  PROVE  /\ Trimmed(PoppedImu(max)) \in Seq(Int)
         /\ Trimmed(PoppedImu(max)) \o ImuLeft(max) = imuQ
         /\ ~Qualifies(PoppedImu(max)) => ImuLeft(max) = imuQ
<1> DEFINE b == BeforeMax(max)
           samples == PoppedImu(max)
           left == ImuLeft(max)
           part == Trimmed(samples)
<1>1. Len(imuQ) \in Nat /\ b \in Nat /\ b < Len(imuQ) /\ \A j \in 1..Len(imuQ) : imuQ[j] \in Int
  BY SeqFacts
<1>2. /\ samples \in Seq(Int)
      /\ Len(samples) = IF b < Len(imuQ) THEN b + 1 ELSE Len(imuQ)
      /\ \A j \in 1..Len(samples) : samples[j] = imuQ[j]
  BY PoppedImuFacts
<1>3. left \in Seq(Int) /\ Len(left) = Len(imuQ) - b
      /\ \A j \in 1..Len(left) : left[j] = imuQ[b + j]
  BY ImuLeftFacts
<1>4. part = SubSeq(samples, 1, Len(samples) - 1)
  BY DEF Trimmed
<1> HIDE DEF b, samples, left, part
<1>5. Len(samples) = b + 1 /\ Len(samples) - 1 = b
  BY <1>1, <1>2
<1>6. part \in Seq(Int) /\ Len(part) = b /\ \A j \in 1..b : part[j] = imuQ[j]
  <2>1. \A j \in 1..b : samples[j] \in Int /\ samples[j] = imuQ[j]
    BY <1>1, <1>2, <1>5, SMTT(20)
  <2>2. /\ SubSeq(samples, 1, b) \in Seq(Int)
        /\ Len(SubSeq(samples, 1, b)) = IF 1 <= b THEN b - 1 + 1 ELSE 0
        /\ \A j \in 1..b - 1 + 1 : SubSeq(samples, 1, b)[j] = samples[1 + j - 1]
    BY <1>1, <2>1, SubSeqProperties
  <2>3. part = SubSeq(samples, 1, b)
    BY <1>4, <1>5
  <2>4. \A j \in 1..b : j \in 1..b - 1 + 1 /\ 1 + j - 1 = j
    BY <1>1
  <2> QED  BY <1>1, <2>1, <2>2, <2>3, <2>4
<1>7. part \o left = imuQ
  <2> DEFINE w == part \o left
  <2>1. /\ w \in Seq(Int) /\ Len(w) = Len(part) + Len(left)
        /\ \A i \in 1..Len(part) + Len(left) :
             w[i] = IF i <= Len(part) THEN part[i] ELSE left[i - Len(part)]
    BY <1>3, <1>6, ConcatProperties
  <2> HIDE DEF w
  <2>2. Len(w) = Len(imuQ)
    BY <1>1, <1>3, <1>6, <2>1
  <2>3. ASSUME NEW i \in 1..Len(w) PROVE w[i] = imuQ[i]
    <3>1. i \in 1..Len(part) + Len(left) /\ i \in Nat
      BY <2>1, <2>2
    <3>2. CASE i <= b
      BY <1>6, <2>1, <3>1, <3>2, SMTT(20)
    <3>3. CASE ~(i <= b)
      <4>1. i - b \in 1..Len(left) /\ b + (i - b) = i
        BY <1>1, <1>3, <2>2, <3>1, <3>3
      <4> QED  BY <1>3, <1>6, <2>1, <3>1, <3>3, <4>1
    <3> QED  BY <3>2, <3>3
  <2>4. w = imuQ
    BY <2>1, <2>2, <2>3, SeqEqual
  <2> QED  BY <2>4 DEF w
<1>8. ~Qualifies(samples) => left = imuQ
  <2> HAVE ~Qualifies(samples)
  <2>1. b = 0
    BY <1>1, <1>5 DEF Qualifies
  <2>2. Len(left) = Len(imuQ) /\ \A j \in 1..Len(left) : left[j] = imuQ[j]
    BY <1>1, <1>3, <2>1
  <2> QED  BY <1>3, <2>2, SeqEqual
<1> QED  BY <1>6, <1>7, <1>8 DEF part, samples, left

LEMMA CalibrateOnImageKeeps ==
  ASSUME IInv, CalibrateOnImage
  PROVE  IInv'
<1> DEFINE R == [t : Int, n : Nat]
           img == Head(imageQ)
           samples == PoppedImu(img.t)
           left == IF Qualifies(samples) THEN framesToGo - 1 ELSE framesToGo
           complete == left <= 0
           images == Tail(imageQ)
           shifted == [k \in DOMAIN images |-> [images[k] EXCEPT !.t = @ - img.t]]
<1>1. /\ mode = "calib" /\ ~calibDone /\ Ready
      /\ framesToGo' = left /\ calibDone' = complete /\ lastPop' = img.t
      /\ skipped' = skipped \cup {img.n}
      /\ UNCHANGED <<latestImage, latestLidar, latestImu, latestFed, quiet, offlineMode>>
      /\ UNCHANGED pipeVars
      /\ UNCHANGED <<mode, groups, history, nScans, nImu, bagDone, lookup>>
  BY DEF CalibrateOnImage, StillCalibrating
<1>2. complete => FinishCalibration(img)
  BY DEF CalibrateOnImage
<1>3. ~complete => /\ imageQ' = images /\ lidarQ' = LidarLeft(img.t) /\ imuQ' = ImuLeft(img.t)
                   /\ calibImu' = IF Qualifies(samples) THEN calibImu \o Trimmed(samples)
                                  ELSE calibImu
                   /\ UNCHANGED <<startTime, currTime, acceptedImu>>
  BY DEF CalibrateOnImage, PopFront
<1>4. startTime = 0 /\ groups = <<>> /\ framesToGo > 0
      /\ calibImu \o imuQ = acceptedImu /\ ~bagDone
  BY <1>1 DEF IInv, CalibrationOK
<1>5. imageQ \in Seq(R) /\ imageQ # <<>>
  BY <1>1 DEF IInv, TypeOK, Ready
<1>6. img \in R /\ images \in Seq(R)
  <2> HIDE DEF R
  <2> QED  BY <1>5, SeqFacts, TailFacts
<1>7. img.t \in Nat /\ img.n \in Nat
  <2>1. img.t + startTime >= 1
    BY <1>1, MarginAssumption, ReadyFacts DEF IInv
  <2> QED  BY <1>4, <1>6, <2>1
<1>8. /\ imuQ \in Seq(Int) /\ calibImu \in Seq(Int) /\ acceptedImu \in Seq(Int)
      /\ BeforeMax(img.t) \in 0..(Len(imuQ) - 1)
  <2>1. BeforeMax(img.t) \in 0..(Len(imuQ) - 1)
    BY <1>1, MarginAssumption, ReadyFacts DEF IInv
  <2> QED  BY <2>1 DEF IInv, TypeOK
<1>9. /\ Trimmed(samples) \in Seq(Int) /\ ImuLeft(img.t) \in Seq(Int)
      /\ Trimmed(samples) \o ImuLeft(img.t) = imuQ
      /\ ~Qualifies(samples) => ImuLeft(img.t) = imuQ
  <2> HIDE DEF img
  <2>1. img.t \in Int
    BY <1>7
  <2> QED  BY <1>8, <2>1, WindowSplit, ImuLeftFacts
<1>10. StreamsBetween(images, LidarLeft(img.t), ImuLeft(img.t), 0, img.t,
                      latestImage, latestLidar, latestImu)
  <2>1. img.t + 0 = img.t
    BY <1>7
  <2> QED  BY <1>1, <1>4, <2>1, MarginAssumption, PopStreams DEF IInv
<1>11. complete => /\ startTime' = img.t /\ imageQ' = shifted
                   /\ lidarQ' = [k \in DOMAIN LidarLeft(img.t) |->
                                   Shift(LidarLeft(img.t)[k], img.t)]
                   /\ imuQ' = [k \in DOMAIN ImuLeft(img.t) |-> ImuLeft(img.t)[k] - img.t]
                   /\ currTime' = 0 /\ calibImu' = <<>> /\ acceptedImu' = <<>>
  BY <1>2 DEF FinishCalibration, SetStartTime
<1> HIDE DEF samples
<1>12. left \in Nat /\ (~complete => left > 0) /\ complete \in BOOLEAN
  <2>1. framesToGo \in Nat /\ framesToGo > 0
    BY <1>4 DEF IInv, TypeOK
  <2>2. left = framesToGo - 1 \/ left = framesToGo
    OBVIOUS
  <2>3. left \in Nat /\ (~complete => left > 0)
    <3> HIDE DEF left
    <3> QED  BY <2>1, <2>2
  <2>4. complete \in BOOLEAN
    OBVIOUS
  <2> QED  BY <2>3, <2>4
<1> HIDE DEF complete, left
<1>13. StreamsOK'
  <2>1. CASE ~complete
    BY <1>1, <1>3, <1>4, <1>10, <2>1 DEF StreamsOK
  <2>2. CASE complete
    <3> HIDE DEF img, images
    <3>1. StreamsBetween(imageQ', lidarQ', imuQ', img.t, img.t,
                         latestImage, latestLidar, latestImu)
      BY <1>7, <1>10, <1>11, <2>2, ShiftStreams
    <3> QED  BY <1>1, <1>11, <2>2, <3>1 DEF StreamsOK
  <2> QED  BY <2>1, <2>2
<1>14. imageQ' \in Seq(R) /\ Len(imageQ') = Len(images)
       /\ \A k \in DOMAIN images : imageQ'[k].n = images[k].n
  <2>1. imageQ' \in Seq(R)
    BY <1>13 DEF StreamsOK, StreamsBetween, ImagesBetween
  <2>2. CASE ~complete
    BY <1>3, <2>1, <2>2
  <2>3. CASE complete
    <3> HIDE DEF images, img
    <3>1. /\ DOMAIN images = 1..Len(images) /\ Len(images) \in Nat
          /\ \A k \in DOMAIN images : images[k] \in R
      <4> HIDE DEF R
      <4> QED  BY <1>6, SeqFacts
    <3>2. \A k \in DOMAIN images : shifted[k].n = images[k].n
      BY <3>1
    <3>3. DOMAIN shifted = 1..Len(images)
      BY <3>1
    <3> HIDE DEF shifted
    <3>4. imageQ' = shifted /\ DOMAIN imageQ' = 1..Len(imageQ') /\ Len(imageQ') \in Nat
      <4> HIDE DEF R
      <4> QED  BY <1>11, <2>1, <2>3, SeqFacts
    <3>5. Len(imageQ') = Len(images)
      BY <3>1, <3>3, <3>4
    <3> QED  BY <2>1, <3>2, <3>4, <3>5
  <2> QED  BY <2>2, <2>3
<1>15. TypeOK'
  <2>1. lidarQ' \in Seq(SUBSET Int) /\ imuQ' \in Seq(Int) /\ lastPop' \in Int
        /\ startTime' \in Nat
    BY <1>13 DEF StreamsOK, StreamsBetween, ScansBetween, ScansInOrder, SamplesBetween
  <2>2. skipped' \subseteq Nat
    <3>1. skipped \subseteq Nat
      BY DEF IInv, TypeOK
    <3> QED  BY <1>1, <1>7, <3>1
  <2>3. calibImu' \in Seq(Int) /\ acceptedImu' \in Seq(Int) /\ currTime' \in Int
    <3>1. CASE complete
      BY <1>11, <3>1, EmptySeq
    <3>2. CASE ~complete
      <4>1. calibImu \o Trimmed(samples) \in Seq(Int)
        BY <1>8, <1>9, ConcatProperties
      <4>2. currTime \in Int
        BY DEF IInv, TypeOK
      <4> QED  BY <1>3, <1>8, <3>2, <4>1, <4>2
    <3> QED  BY <3>1, <3>2
  <2>4. framesToGo' \in Nat /\ calibDone' \in BOOLEAN
    BY <1>1, <1>12
  <2>5. {latestImage, latestLidar, latestImu, latestFed, startTime}' \subseteq Nat
    <3>1. latestImage' \in Nat /\ latestLidar' \in Nat /\ latestImu' \in Nat
          /\ latestFed' \in Nat
      BY <1>1 DEF IInv, TypeOK
    <3> QED  BY <2>1, <3>1
  <2> HIDE DEF img
  <2> QED  BY <1>1, <1>14, <2>1, <2>2, <2>3, <2>4, <2>5 DEF IInv, TypeOK, pipeVars, R
<1>16. CountsOK'
  <2> SUFFICES ASSUME active PROVE CountsOK'
    BY <1>1 DEF CountsOK, pipeVars
  <2> DEFINE c == Consumed(nFed, pend, results)
  <2>1. CountsAt(images, nFed, skipped \cup {img.n}, c)
    BY <1>5, SkipFront
  <2> HIDE DEF c, img, images, R
  <2>2. CountsAt(imageQ', nFed, skipped \cup {img.n}, c)
    BY <1>6, <1>14, <2>1, CountsOfShifted
  <2>3. nFed' = nFed /\ Consumed(nFed, pend, results)' = c /\ Estimated' = Estimated
    BY <1>1 DEF Estimated, pipeVars, c
  <2>4. CountsAt(imageQ, nFed, skipped, Consumed(nFed, pend, results))'
    BY <1>1, <2>2, <2>3
  <2>5. GroupsAt(groups, imageQ, nFed, skipped, Estimated)'
    BY <1>1, <1>4 DEF GroupsAt
  <2>6. PipeAt(nFed, pend, results, prevChain)' /\ HistoryAt(history, Estimated)'
    BY <1>1, <2>3 DEF IInv, CountsOK, pipeVars
  <2> QED  BY <2>4, <2>5, <2>6 DEF CountsOK
<1>17. CalibrationOK'
  <2>1. ASSUME ~complete PROVE calibImu' \o imuQ' = acceptedImu'
    <3>1. CASE Qualifies(samples)
      <4>1. calibImu' = calibImu \o Trimmed(samples) /\ imuQ' = ImuLeft(img.t)
            /\ acceptedImu' = acceptedImu
        BY <1>3, <2>1, <3>1
      <4> HIDE DEF img, images, shifted, R
      <4>2. (calibImu \o Trimmed(samples)) \o ImuLeft(img.t)
              = calibImu \o (Trimmed(samples) \o ImuLeft(img.t))
        <5>1. /\ calibImu \in Seq(Int) /\ Trimmed(samples) \in Seq(Int)
              /\ ImuLeft(img.t) \in Seq(Int)
          BY <1>8, <1>9
        <5> HIDE DEF samples
        <5> QED  BY ONLY <5>1, AppendedTwice, SMTT(20)
      <4> QED  BY <1>4, <1>9, <4>1, <4>2
    <3>2. CASE ~Qualifies(samples)
      BY <1>3, <1>4, <1>9, <2>1, <3>2
    <3> QED  BY <3>1, <3>2
  <2> HIDE DEF img, images
  <2> QED  BY <1>1, <1>3, <1>4, <1>12, <2>1 DEF IInv, CalibrationOK
<1>18. ImuBracketsImage' /\ AnchorAlwaysFound'
  BY <1>1, <1>4 DEF IInv, ImuBracketsImage, AnchorAlwaysFound
<1> QED  BY <1>13, <1>15, <1>16, <1>17, <1>18 DEF IInv

-----------------------------------------------------------------------------
LEMMA StutterKeeps ==
  ASSUME IInv, UNCHANGED vars
  PROVE  IInv'
<1> USE DEF vars, dqVars, pipeVars, syncVars
<1>1. TypeOK'
  BY DEF IInv, TypeOK
<1>2. StreamsOK' /\ CountsOK'
  BY QueuesUnchanged, CountsUnchanged DEF IInv
<1>3. CalibrationOK'
  <2>1. Ready' <=> Ready
    BY DEF Ready, StreamSettled
  <2> QED  BY <2>1 DEF IInv, CalibrationOK
<1>4. ImuBracketsImage' /\ AnchorAlwaysFound'
  BY DEF IInv, ImuBracketsImage, AnchorAlwaysFound
<1> QED  BY <1>1, <1>2, <1>3, <1>4 DEF IInv

LEMMA NextIInv == IInv /\ [Next]_vars => IInv'
<1> SUFFICES ASSUME IInv, [Next]_vars PROVE IInv'
  OBVIOUS
<1>1. CASE \E t \in Stamps : ImageCallback(t)
  BY <1>1, ImageCallbackKeeps
<1>2. CASE \E scan \in Scans : LidarCallbackMsg(scan) \/ LidarCallbackPcl(scan)
  BY <1>2, ScanCallbackKeeps
<1>3. CASE \E t \in Stamps : ImuCallback(t)
  BY <1>3, ImuCallbackKeeps
<1>4. CASE \E s \in Streams : StreamGoesQuiet(s)
  BY <1>4, StreamGoesQuietKeeps
<1>5. CASE BagEnds
  BY <1>5, BagEndsKeeps
<1>6. CASE TrackerAnswers
  BY <1>6, TrackerAnswersKeeps
<1>7. CASE CalibrateOnImage
  BY <1>7, CalibrateOnImageKeeps
<1>8. CASE EnterMainLoop
  BY <1>8, EnterMainLoopKeeps
<1>9. CASE SyncMeasures
  BY <1>9, SyncMeasuresKeeps
<1>10. CASE EstimateState
  BY <1>10, EstimateStateKeeps
<1>11. CASE UNCHANGED vars
  BY <1>11, StutterKeeps
<1> QED  BY <1>1, <1>2, <1>3, <1>4, <1>5, <1>6, <1>7, <1>8, <1>9, <1>10, <1>11 DEF Next

(* The invariant, from which the theorems below are read off: every step   *)
(* of the callbacks, the calibration, syncMeasures() and estimateState()   *)
(* keeps it.                                                               *)
THEOREM SyncInvariant == Spec => []IInv
<1> QED  BY InitIInv, NextIInv, PTL DEF Spec

-----------------------------------------------------------------------------
(***************************************************************************)
(* What the runs check, for every value of the constants.                  *)
(***************************************************************************)

(* Images cut the streams: nothing older than the image consumed last is   *)
(* queued, and a group's IMU samples end with the one sample at or after   *)
(* its image (popLidar(), popImu(), push*() and setStartTime() together).  *)
THEOREM QueuesAlwaysCut == Spec => []QueuesCutAtImages
<1>1. IInv => QueuesCutAtImages
  <2> SUFFICES ASSUME IInv PROVE QueuesCutAtImages
    OBVIOUS
  <2>1. /\ ImagesBetween(imageQ, startTime, lastPop, latestImage)
        /\ ScansBetween(lidarQ, startTime, lastPop, latestLidar)
        /\ SamplesBetween(imuQ, startTime, lastPop, latestImu)
        /\ lastPop \in Nat /\ startTime \in Nat
    BY DEF IInv, StreamsOK, StreamsBetween
  <2>2. \A k \in DOMAIN imageQ : lastPop <= imageQ[k].t + startTime
    BY <2>1 DEF ImagesBetween
  <2>3. \A k \in DOMAIN lidarQ : \A p \in lidarQ[k] : lastPop <= p + startTime
    BY <2>1 DEF ScansBetween
  <2>4. \A k \in DOMAIN imuQ : lastPop <= imuQ[k] + startTime
    BY <2>1 DEF SamplesBetween
  <2>5. NothingStaleQueued
    BY <2>2, <2>3, <2>4 DEF NothingStaleQueued
  <2> QED  BY <2>5 DEF IInv, QueuesCutAtImages
<1> QED  BY <1>1, SyncInvariant, PTL

(* The tracker gate of syncMeasures() cannot stay closed for ever, and a   *)
(* group's frame lags its image by exactly the images skipped before it:   *)
(* those pushImage() dropped, calibration ate or a failed sync lost.       *)
THEOREM ResultsAlwaysKeepPace == Spec => []ResultsKeepPace
<1>1. IInv => ResultsKeepPace
  <2> SUFFICES ASSUME IInv, active PROVE ResultsKeepPace
    BY DEF ResultsKeepPace, ImagesHaveResults, LagIsExactlySkipped
  <2>1. /\ CountsAt(imageQ, nFed, skipped, Consumed(nFed, pend, results))
        /\ GroupsAt(groups, imageQ, nFed, skipped, Estimated)
    BY DEF IInv, CountsOK
  <2>2. nFed \in Nat /\ Len(pend) \in Nat /\ Len(results) \in Nat /\ Len(imageQ) \in Nat
    BY SeqFacts DEF IInv, TypeOK
  <2>3. Cardinality(skipped) \in Nat
    <3>1. skipped \subseteq 1..nFed
      BY <2>1 DEF CountsAt
    <3>2. nFed \in Nat /\ 0 \in Int
      BY <2>2
    <3> QED  BY <3>1, <3>2, BeforeFacts
  <2>4. nFed - Cardinality(skipped) = (nFed - Len(pend) - Len(results)) + Len(imageQ)
    BY <2>1 DEF CountsAt, Consumed
  <2>5. ImagesHaveResults
    BY <2>2, <2>3, <2>4 DEF ImagesHaveResults
  <2>6. LagIsExactlySkipped
    BY <2>1 DEF GroupsAt, Before, LagIsExactlySkipped
  <2> QED  BY <2>5, <2>6 DEF ResultsKeepPace
<1> QED  BY <1>1, SyncInvariant, PTL

(* resolveAnchorPose() looks at the front of the pose history only, and    *)
(* always finds there the pose of the frame before the group's own.        *)
THEOREM AnchorIsFound == Spec => []AnchorAlwaysFound
<1>1. IInv => AnchorAlwaysFound
  BY DEF IInv
<1> QED  BY <1>1, SyncInvariant, PTL

(* collectSamples() counts every accepted IMU sample once, although every  *)
(* image hands its boundary sample out again to the next; and no group is  *)
(* formed before calibration has set the start state.                      *)
THEOREM CalibrationIsWhole == Spec => []CalibrationWhole
<1>1. IInv => CalibrationWhole
  BY DEF IInv, CalibrationOK, CalibrationWhole, CalibSamplesOnce, EstimateNeedsCalibration
<1> QED  BY <1>1, SyncInvariant, PTL

(* A new group's points were measured after the image consumed before it   *)
(* and no later than its own (popLidar() with its split of the last scan). *)
THEOREM LidarStaysInWindow == Spec => LidarWindow
<1> DEFINE Window ==
             Len(groups') > Len(groups) =>
               LET g == groups'[Len(groups')]
               IN  \A p \in g.points : lastPop <= p + startTime /\ p <= g.t
<1>1. IInv /\ [Next]_vars => [Window]_vars
  <2> SUFFICES ASSUME IInv, Next, Len(groups') > Len(groups) PROVE Window
    OBVIOUS
  <2>0. groups \in Seq(GroupRecords)
    BY DEF IInv, TypeOK, GroupRecords
  <2>1. groups' # groups
    BY <2>0, SeqFacts
  <2>2. groups' # Tail(groups) \/ groups = <<>>
    BY <2>0, SeqFacts, TailFacts
  <2>3. SyncMeasures
    <3>1. ~EstimateState
      BY <2>2 DEF EstimateState
    <3>2. ~TrackerAnswers /\ ~\E s \in Streams : StreamGoesQuiet(s)
      BY <2>1 DEF TrackerAnswers, StreamGoesQuiet, syncVars
    <3>3. ~BagEnds /\ ~EnterMainLoop /\ ~CalibrateOnImage
      BY <2>1 DEF BagEnds, EnterMainLoop, CalibrateOnImage
    <3>4. ~(\E t \in Stamps : ImageCallback(t)) /\ ~(\E t \in Stamps : ImuCallback(t))
      BY <2>1 DEF ImageCallback, ImuCallback
    <3>5. ~\E scan \in Scans : LidarCallbackMsg(scan) \/ LidarCallbackPcl(scan)
      BY <2>1 DEF LidarCallbackMsg, LidarCallbackPcl, ReceiveScan
    <3> QED  BY <3>1, <3>2, <3>3, <3>4, <3>5 DEF Next
  <2> DEFINE img == Head(imageQ)
             new == [n |-> img.n, t |-> img.t, points |-> PoppedPoints(img.t),
                     imu |-> PoppedImu(img.t),
                     frame |-> IF active THEN Head(results) ELSE NoResult]
  <2>4. groups' = Append(groups, new)
    BY <2>1, <2>3 DEF SyncMeasures
  <2>5. new.points = PoppedPoints(img.t) /\ new.t = img.t
    OBVIOUS
  <2>6. img.t \in Int
    BY <2>3, MarginAssumption, ReadyFacts DEF SyncMeasures, IInv
  <2>7. ScansBetween(lidarQ, startTime, lastPop, latestLidar)
    BY DEF IInv, StreamsOK, StreamsBetween
  <2> HIDE DEF img, new
  <2>8. groups'[Len(groups')] = new
    BY <2>0, <2>4, SeqFacts
  <2>9. ASSUME NEW p \in PoppedPoints(img.t)
        PROVE  lastPop <= p + startTime /\ p <= img.t
    <3>1. p <= img.t /\ \E k \in DOMAIN lidarQ : p \in lidarQ[k]
      BY <2>6, <2>7, PoppedPointsFacts DEF ScansBetween
    <3> QED  BY <2>7, <3>1 DEF ScansBetween
  <2> QED  BY <2>5, <2>8, <2>9
<1> QED  BY <1>1, SyncInvariant, PTL DEF Spec, LidarWindow
=============================================================================
