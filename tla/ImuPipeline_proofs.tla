------------------------- MODULE ImuPipeline_proofs -------------------------
(***************************************************************************)
(* Proofs about ImuPipeline, for any bounds, any lengths of scans and      *)
(* queues, any scale of the accelerometer and any margins.                 *)
(***************************************************************************)
EXTENDS ImuPipeline, DataQueues_proofs

(***************************************************************************)
(* The inductive invariant.                                                *)
(***************************************************************************)

\* The queues hold what came after the image consumed last.
StreamsOK == StreamsBetween(imageQ, lidarQ, imuQ, startTime, popped + startTime,
                            latestImage, latestLidar, latestImu)

\* Points strictly after it, when no two scans share an instant.
PointsOK == ~SplitPulses => \A k \in DOMAIN lidarQ : \A p \in lidarQ[k] : p > popped

\* Propagation never gets ahead of the images; nothing is estimated, and times are
\* absolute, before the calibration is done.
StartOK ==
  /\ calibrated \in BOOLEAN /\ nImages \in Nat
  /\ popped \in Int /\ integrated \in Int /\ integrated <= popped
  /\ ~calibrated => startTime = 0 /\ popped = 0 /\ group = NoGroup /\ ~headSeeded

\* The reading of an instant.
Reading(t) == AccScale * (t + startTime)

\* While the first sample's reading stands in, nothing ...
Held == headSeeded /\ passed = NoTime

\* ... is waiting that lies before propagation or says less than the held reading.
Ahead(samples) ==
  Held => \A k \in DOMAIN samples :
            /\ samples[k] > integrated
            /\ lastSample.v <= Reading(samples[k])

\* The head sample is where propagation stands, and exact once a sample was passed.
HeadOK ==
  /\ headSeeded \in BOOLEAN
  /\ firstStamp \in Int /\ passed \in Int
  /\ lastSample = [t |-> integrated, v |-> lastSample.v] /\ lastSample.v \in Int
  /\ ~headSeeded => passed = NoTime /\ integrated = 0
  /\ passed # NoTime => /\ passed <= integrated + startTime
                        /\ lastSample.v = Reading(integrated)
  /\ Held => /\ AccScale * firstStamp <= lastSample.v
             /\ latestImu > integrated + startTime
             /\ lastSample.v <= AccScale * latestImu
  /\ Ahead(imuQ)

GroupShape(g) ==
  /\ g = [stage |-> g.stage, frame |-> g.frame, t |-> g.t, points |-> g.points,
          imu |-> g.imu, poses |-> g.poses, cloud |-> g.cloud]
  /\ g.stage \in {"synced", "propagated", "deskewed", "aborted"}
  /\ g.t \in Int /\ g.points \subseteq Int /\ g.imu \in Seq(Int) /\ g.imu # <<>>
  /\ \A p \in g.points : p <= g.t

\* Only its last sample reaches the image, and the samples are in time order.
EndsAtImage(g) ==
  /\ \A j \in 1..(Len(g.imu) - 1) : g.imu[j] < g.t
  /\ g.imu[Len(g.imu)] >= g.t
  /\ \A i, j \in DOMAIN g.imu : i < j => g.imu[i] <= g.imu[j]

\* A group that is not propagated yet begins where propagation stands.
SyncedOK ==
  group.stage = "synced" =>
    /\ group.t = popped
    /\ group.poses = <<>>
    /\ EndsAtImage(group)
    /\ integrated <= group.t
    /\ \A j \in DOMAIN group.imu : integrated <= group.imu[j] /\ 0 <= group.imu[j] + startTime
    /\ Ahead(group.imu)
    /\ \A k \in DOMAIN imuQ : group.imu[Len(group.imu)] <= imuQ[k]
    /\ imuQ # <<>>
    /\ ~SplitPulses => \A p \in group.points : p > integrated

Tiles(P, from, to) ==
  /\ P \in Seq([t : Int, head : Int, tail : Int, dt : Int]) /\ Len(P) >= 1
  /\ P[1].t = from
  /\ \A k \in 1..(Len(P) - 1) : P[k].t + P[k].dt = P[k + 1].t
  /\ \A k \in 1..Len(P) : P[k].dt >= 0
  /\ P[Len(P)].t + P[Len(P)].dt = to

\* A propagated group covers its points.
PropagatedOK ==
  group.stage \in {"propagated", "deskewed", "aborted"} =>
    /\ integrated = group.t /\ popped = group.t
    /\ Tiles(group.poses, group.poses[1].t, group.t)
    /\ ~SplitPulses => \A p \in group.points : p > group.poses[1].t

GroupOK ==
  /\ group = NoGroup \/ GroupShape(group)
  /\ SyncedOK
  /\ PropagatedOK

\* LIO reads, and so empties, the accumulator in every frame.
BudgetOK ==
  ~Combined =>
    /\ budget = [frames |-> budget.frames, before |-> budget.before, primed |-> budget.primed]
    /\ group.stage \in {"none", "synced"} => budget.frames = {}
    /\ group.stage \in {"propagated", "deskewed"} =>
         budget.frames = {group.frame} /\ budget.before = group.frame /\ budget.primed = TRUE

DeskewedOK == ~SplitPulses => EveryPointDeskewed

IInv ==
  /\ StreamsOK /\ PointsOK /\ StartOK /\ HeadOK /\ GroupOK
  /\ ReadingsBelong
  /\ BudgetOK
  /\ DeskewedOK

-----------------------------------------------------------------------------
(* Division, and the scale of the readings.                                *)
LEMMA DivFacts ==
  ASSUME NEW x \in Int, NEW d \in Nat, d > 0
  PROVE  /\ x \div d \in Int
         /\ d * (x \div d) <= x
         /\ x < d * (x \div d) + d
OBVIOUS

LEMMA ExactDiv ==
  ASSUME NEW x \in Int, NEW d \in Nat, d > 0
  PROVE  (x * d) \div d = x
<1> DEFINE q == (x * d) \div d
<1>1. x * d \in Int
  OBVIOUS
<1>2. q \in Int /\ d * q <= x * d /\ x * d < d * q + d
  BY <1>1, DivFacts
<1> HIDE DEF q
<1>3. d * q <= d * x /\ d * x < d * (q + 1)
  BY <1>2
<1>4. ~(q > x)
  BY <1>2, <1>3
<1>5. ~(x > q)
  BY <1>2, <1>3
<1>6. q = x
  BY <1>2, <1>4, <1>5
<1> QED  BY <1>6 DEF q

LEMMA PartDiv ==
  ASSUME NEW x \in Nat, NEW y \in Nat, NEW d \in Nat, d > 0, x <= d
  PROVE  (x * y) \div d \in 0..y
<1> DEFINE q == (x * y) \div d
<1>1. x * y \in Nat
  OBVIOUS
<1>2. q \in Int /\ d * q <= x * y /\ x * y < d * q + d
  BY <1>1, DivFacts
<1> HIDE DEF q
<1>3. x * y <= d * y
  OBVIOUS
<1>4. d * q <= d * y
  BY <1>1, <1>2, <1>3
<1>5. ~(q > y)
  BY <1>2, <1>4
<1>6. ~(q < 0)
  BY <1>1, <1>2
<1>7. q \in 0..y
  BY <1>2, <1>5, <1>6
<1> QED  BY <1>7 DEF q

LEMMA ScaleFacts ==
  ASSUME NEW a \in Int, NEW b \in Int, PipelineAssumption
  PROVE  /\ AccScale * a \in Int
         /\ a <= b => AccScale * a <= AccScale * b
         /\ AccScale * b - AccScale * a = AccScale * (b - a)
<1>1. AccScale \in Nat
  BY DEF PipelineAssumption
<1>2. a <= b => AccScale * a <= AccScale * b
  <2> HAVE a <= b
  <2>1. PICK c \in Nat : c = b - a
    OBVIOUS
  <2>2. AccScale * b = AccScale * a + AccScale * c /\ AccScale * c >= 0
    <3>1. b = a + c
      BY <2>1
    <3> QED  BY <1>1, <3>1
  <2>3. AccScale * a \in Int /\ AccScale * c \in Int
    BY <1>1
  <2> QED  BY <2>2, <2>3
<1> QED  BY <1>1, <1>2

(* Later instants read no less, here where the readings are their times.   *)
LEMMA ReadingFacts ==
  ASSUME NEW a \in Int, NEW b \in Int, startTime \in Int, PipelineAssumption
  PROVE  /\ Reading(a) \in Int
         /\ a <= b => Reading(a) <= Reading(b)
<1>1. PICK c \in Int, d \in Int : c = a + startTime /\ d = b + startTime
  OBVIOUS
<1>2. AccScale * c \in Int /\ (c <= d => AccScale * c <= AccScale * d)
  BY ScaleFacts
<1>3. a <= b => c <= d
  BY <1>1
<1>4. Reading(a) = AccScale * c /\ Reading(b) = AccScale * d
  BY <1>1 DEF Reading
<1> QED  BY <1>2, <1>3, <1>4

LEMMA ScaledFacts ==
  ASSUME NEW x
  PROVE  Scaled(x).t = x /\ Scaled(x).v = Reading(x)
  BY DEF Scaled, Reading

(* Between two exact readings interpolation is exact; between any two it   *)
(* stays between them.                                                     *)
LEMMA InterpolatedFacts ==
  ASSUME NEW h, h.t \in Int, h.v \in Int, NEW s, s.t \in Int, s.v \in Int,
         NEW t \in Int, h.t <= t, t < s.t, startTime \in Int, PipelineAssumption
  PROVE  LET r == Interpolated(h, s, t)
         IN  /\ r.t = t /\ r.v \in Int
             /\ h.v <= s.v => h.v <= r.v /\ r.v <= s.v
             /\ h.v = Reading(h.t) /\ s.v = Reading(s.t) => r.v = Reading(t)
<1> DEFINE r == Interpolated(h, s, t)
           d == s.t - h.t
           x == t - h.t
           y == s.v - h.v
<1>1. /\ r.t = t /\ r.v = h.v + (x * y) \div d
      /\ d \in Nat /\ d > 0 /\ x \in Nat /\ x <= d /\ y \in Int
  BY DEF Interpolated
<1>2. x * y \in Int
  BY <1>1
<1>3. (x * y) \div d \in Int
  BY <1>1, <1>2, DivFacts
<1>4. h.v <= s.v => h.v <= r.v /\ r.v <= s.v
  <2> HAVE h.v <= s.v
  <2>1. y \in Nat
    OBVIOUS
  <2>2. (x * y) \div d \in 0..y
    BY <1>1, <2>1, PartDiv
  <2> HIDE DEF x, d, r
  <2>3. PICK q \in 0..y : q = (x * y) \div d
    BY <2>2
  <2>4. r.v = h.v + q
    BY <1>1, <2>3
  <2> QED  BY <2>3, <2>4
<1>5. ASSUME h.v = AccScale * (h.t + startTime), s.v = AccScale * (s.t + startTime)
      PROVE  r.v = AccScale * (t + startTime)
  <2>1. y = AccScale * d
    <3>1. /\ AccScale * (s.t + startTime) - AccScale * (h.t + startTime)
               = AccScale * ((s.t + startTime) - (h.t + startTime))
      BY ScaleFacts
    <3>2. (s.t + startTime) - (h.t + startTime) = d
      OBVIOUS
    <3> QED  BY <1>5, <3>1, <3>2
  <2>2. /\ AccScale * (t + startTime) - AccScale * (h.t + startTime)
             = AccScale * ((t + startTime) - (h.t + startTime))
        /\ (t + startTime) - (h.t + startTime) = x
        /\ AccScale * (t + startTime) \in Int /\ AccScale * (h.t + startTime) \in Int
    BY ScaleFacts
  <2>3. AccScale \in Int
    BY DEF PipelineAssumption
  <2>4. r.v = h.v + (x * y) \div d
    BY <1>1
  <2> HIDE DEF x, d, r, y
  <2>5. x * y = (x * AccScale) * d /\ x * AccScale \in Int
    BY <1>1, <2>1, <2>3
  <2>6. (x * y) \div d = x * AccScale
    BY <1>1, <2>5, ExactDiv
  <2>7. x * AccScale = AccScale * x
    BY <1>1, <2>3
  <2> QED  BY <1>5, <2>2, <2>4, <2>6, <2>7
<1> HIDE DEF x, d, y
<1>7. h.v = Reading(h.t) /\ s.v = Reading(s.t) => r.v = Reading(t)
  <2> HIDE DEF r
  <2> QED  BY <1>5 DEF Reading
<1>6. r.v \in Int
  <2> HIDE DEF r
  <2> QED  BY <1>1, <1>3
<1> QED  BY <1>1, <1>4, <1>6, <1>7

-----------------------------------------------------------------------------
(***************************************************************************)
(* ImuProc::propagate(): what the poses of a group are.                    *)
(***************************************************************************)
FirstReading == IF headSeeded THEN AccScale * firstStamp ELSE Reading(group.imu[1])

(* All samples of the group are used, the last of them at the image.       *)
LEMMA TailCountFacts ==
  ASSUME NEW g, g.imu \in Seq(Int), g.imu # <<>>, g.t \in Int, EndsAtImage(g)
  PROVE  TailCount(g) = Len(g.imu) /\ Len(g.imu) \in Nat /\ Len(g.imu) >= 1
<1> DEFINE m == Len(g.imu)
           K == {k \in 1..m : \A j \in 1..(k - 1) : g.imu[j] <= g.t}
<1>1. m \in Nat /\ m >= 1 /\ \A j \in 1..m : g.imu[j] \in Int
  BY SeqFacts
<1>2. \A j \in 1..(m - 1) : g.imu[j] < g.t
  BY DEF EndsAtImage
<1>3. ASSUME NEW k \in 1..m, NEW j \in 1..(k - 1) PROVE g.imu[j] <= g.t
  <2>1. j \in 1..(m - 1) /\ j \in 1..m
    BY <1>1
  <2> QED  BY <1>1, <1>2, <2>1
<1>4. K = 1..m
  BY <1>3
<1>5. TailCount(g) = Cardinality(K)
  BY DEF TailCount
<1> HIDE DEF K
<1>6. Cardinality(1..m) = m
  BY <1>1, FS_Interval
<1> QED  BY <1>1, <1>4, <1>5, <1>6

(* What a synced group has, gathered from the invariant.                   *)
LEMMA SyncedFacts ==
  ASSUME IInv, group.stage = "synced"
  PROVE  LET m == Len(group.imu)
         IN  /\ m \in Nat /\ m >= 1 /\ DOMAIN group.imu = 1..m
             /\ \A j \in 1..m : /\ group.imu[j] \in Int /\ integrated <= group.imu[j]
                                /\ 0 <= group.imu[j] + startTime
             /\ \A j \in 1..(m - 1) : group.imu[j] < group.t
             /\ group.imu[m] >= group.t
             /\ \A i, j \in 1..m : i < j => group.imu[i] <= group.imu[j]
             /\ group.t \in Int /\ integrated \in Int /\ startTime \in Nat
             /\ integrated <= group.t
             /\ TailCount(group) = m
             /\ GroupShape(group)
<1>1. group # NoGroup
  BY DEF NoGroup
<1>2. GroupShape(group) /\ SyncedOK /\ integrated \in Int /\ startTime \in Nat
  BY <1>1 DEF IInv, GroupOK, StartOK, StreamsOK, StreamsBetween
<1>3. group.imu \in Seq(Int) /\ group.imu # <<>> /\ group.t \in Int
  BY <1>2 DEF GroupShape
<1>4. EndsAtImage(group) /\ integrated <= group.t
      /\ \A j \in DOMAIN group.imu : integrated <= group.imu[j] /\ 0 <= group.imu[j] + startTime
  BY <1>2 DEF SyncedOK
<1>5. DOMAIN group.imu = 1..Len(group.imu) /\ \A j \in DOMAIN group.imu : group.imu[j] \in Int
  BY <1>3, SeqFacts
<1>6. TailCount(group) = Len(group.imu) /\ Len(group.imu) \in Nat /\ Len(group.imu) >= 1
  BY <1>3, <1>4, TailCountFacts
<1> QED  BY <1>2, <1>3, <1>4, <1>5, <1>6 DEF EndsAtImage

\* The same for one sample of the group.
LEMMA SyncedSample ==
  ASSUME IInv, group.stage = "synced", NEW k \in 1..Len(group.imu)
  PROVE  LET m == Len(group.imu)
         IN  /\ m \in Nat /\ m >= 1 /\ k \in Nat /\ 1 <= k /\ k <= m
             /\ group.imu[k] \in Int /\ integrated <= group.imu[k]
             /\ 0 <= group.imu[k] + startTime
             /\ k < m => group.imu[k] < group.t
             /\ k = m => group.imu[k] >= group.t
             /\ group.imu[1] \in Int /\ group.imu[1] <= group.imu[k]
             /\ integrated <= group.imu[1] /\ 0 <= group.imu[1] + startTime
             /\ group.t \in Int /\ integrated \in Int /\ startTime \in Int
             /\ integrated <= group.t
<1> DEFINE I == group.imu
           m == Len(I)
<1>1. /\ m \in Nat /\ m >= 1
      /\ \A j \in 1..m : I[j] \in Int /\ integrated <= I[j] /\ 0 <= I[j] + startTime
      /\ \A j \in 1..(m - 1) : I[j] < group.t
      /\ I[m] >= group.t
      /\ \A i, j \in 1..m : i < j => I[i] <= I[j]
      /\ group.t \in Int /\ integrated \in Int /\ startTime \in Int
      /\ integrated <= group.t
  BY SyncedFacts
<1>2. k \in 1..m
  OBVIOUS
<1> HIDE DEF I, m
<1>3. k \in Nat /\ 1 <= k /\ k <= m /\ 1 \in 1..m
  BY <1>1, <1>2
<1>4. k < m => I[k] < group.t
  BY <1>1, <1>3
<1>5. k = m => I[k] >= group.t
  BY <1>1
<1>6. I[1] <= I[k]
  <2>1. CASE k = 1
    BY <1>1, <1>3, <2>1
  <2>2. CASE 1 < k
    BY <1>1, <1>2, <1>3, <2>2
  <2> QED  BY <1>3, <2>1, <2>2
<1>7. /\ I[k] \in Int /\ integrated <= I[k] /\ 0 <= I[k] + startTime
      /\ I[1] \in Int /\ integrated <= I[1] /\ 0 <= I[1] + startTime
  BY <1>1, <1>2, <1>3
<1>8. m \in Nat /\ m >= 1 /\ group.t \in Int /\ integrated \in Int /\ startTime \in Int /\ integrated <= group.t
  BY <1>1
<1> QED  BY <1>3, <1>4, <1>5, <1>6, <1>7, <1>8 DEF I, m

LEMMA FirstReadingFacts ==
  ASSUME IInv, PipelineAssumption, group.stage = "synced"
  PROVE  FirstReading \in Int
<1>1. group.imu[1] \in Int /\ startTime \in Int
  <2>1. 1 \in 1..Len(group.imu)
    BY SyncedFacts
  <2> QED  BY <2>1, SyncedFacts
<1>2. AccScale * firstStamp \in Int
  BY DEF IInv, HeadOK, PipelineAssumption
<1>3. Reading(group.imu[1]) \in Int
  BY <1>1, ReadingFacts
<1> QED  BY <1>2, <1>3 DEF FirstReading

(* The head of the first interval stands where propagation does.           *)
LEMMA FirstHeadFacts ==
  ASSUME IInv, PipelineAssumption, group.stage = "synced"
  PROVE  LET h == FirstHead(group)
         IN  /\ h.t = integrated /\ h.v \in Int
             /\ h.v <= Reading(group.imu[1])
             /\ passed # NoTime => h.v = Reading(integrated)
             /\ passed = NoTime => FirstReading <= h.v
             /\ ~headSeeded => h.v = Reading(group.imu[1])
<1> DEFINE h == FirstHead(group)
<1> SUFFICES /\ h.t = integrated /\ h.v \in Int
             /\ h.v <= Reading(group.imu[1])
             /\ passed # NoTime => h.v = Reading(integrated)
             /\ passed = NoTime => FirstReading <= h.v
             /\ ~headSeeded => h.v = Reading(group.imu[1])
  OBVIOUS
<1>1. /\ group.imu[1] \in Int /\ integrated <= group.imu[1] /\ startTime \in Int
      /\ integrated \in Int /\ 1 \in DOMAIN group.imu
  <2>1. 1 \in 1..Len(group.imu)
    BY SyncedFacts
  <2> QED  BY <2>1, SyncedFacts, SMTT(20)
<1>2. Reading(group.imu[1]) \in Int
  BY <1>1, ReadingFacts
<1>3. /\ lastSample = [t |-> integrated, v |-> lastSample.v] /\ lastSample.v \in Int
      /\ headSeeded \in BOOLEAN
      /\ passed # NoTime => /\ headSeeded
                            /\ lastSample.v = Reading(integrated)
      /\ Held => AccScale * firstStamp <= lastSample.v
  BY DEF IInv, HeadOK
<1>4. ASSUME headSeeded
      PROVE  /\ h = lastSample
             /\ h.v <= Reading(group.imu[1])
             /\ passed = NoTime => FirstReading <= h.v
  <2>1. h = lastSample /\ FirstReading = AccScale * firstStamp
    BY <1>4 DEF FirstHead, FirstReading
  <2>2. CASE passed = NoTime
    <3>1. Held /\ Ahead(group.imu)
      BY <1>4, <2>2 DEF Held, IInv, GroupOK, SyncedOK
    <3>2. h.v <= Reading(group.imu[1])
      BY <1>1, <2>1, <3>1 DEF Ahead
    <3> QED  BY <1>3, <2>1, <3>1, <3>2
  <2>3. CASE passed # NoTime
    <3>1. Reading(integrated) <= Reading(group.imu[1])
      BY <1>1, ReadingFacts
    <3> QED  BY <1>3, <2>1, <2>3, <3>1
  <2> QED  BY <2>2, <2>3
<1>5. ASSUME ~headSeeded
      PROVE  /\ h.t = integrated /\ h.v = Reading(group.imu[1])
             /\ FirstReading = Reading(group.imu[1]) /\ passed = NoTime
  <2>1. h = [lastSample EXCEPT !.v = Scaled(group.imu[1]).v]
    BY <1>5 DEF FirstHead
  <2>2. Scaled(group.imu[1]).v = Reading(group.imu[1])
    BY ScaledFacts
  <2>3. h.t = integrated /\ h.v = Reading(group.imu[1])
    BY <1>3, <2>1, <2>2
  <2> QED  BY <1>3, <1>5, <2>3 DEF FirstReading
<1> HIDE DEF h
<1>6. CASE headSeeded
  <2>1. h.t = integrated /\ h.v = lastSample.v
    BY <1>3, <1>4, <1>6
  <2> QED  BY <1>3, <1>4, <1>6, <2>1
<1>7. CASE ~headSeeded
  BY <1>2, <1>5, <1>7
<1> QED  BY <1>6, <1>7

(* The samples that end the intervals: at their own time or at the image,  *)
(* and exact unless the first sample of all lies past the image.           *)
LEMMA TailSampleFacts ==
  ASSUME IInv, PipelineAssumption, group.stage = "synced", NEW k \in 1..Len(group.imu)
  PROVE  LET s == TailSample(group, k)
         IN  /\ s.t = IF k = Len(group.imu) THEN group.t ELSE group.imu[k]
             /\ s.v \in Int /\ s.v <= Reading(group.imu[k])
             /\ k > 1 \/ passed # NoTime \/ group.imu[1] <= group.t => s.v = Reading(s.t)
             /\ k = 1 /\ passed = NoTime => FirstReading <= s.v
<1> DEFINE m == Len(group.imu)
           s == TailSample(group, k)
           raw == Scaled(group.imu[k])
           h == IF k = 1 THEN FirstHead(group) ELSE Scaled(group.imu[k - 1])
           r == Interpolated(h, raw, group.t)
<1> SUFFICES /\ s.t = IF k = m THEN group.t ELSE group.imu[k]
             /\ s.v \in Int /\ s.v <= Reading(group.imu[k])
             /\ k > 1 \/ passed # NoTime \/ group.imu[1] <= group.t => s.v = Reading(s.t)
             /\ k = 1 /\ passed = NoTime => FirstReading <= s.v
  OBVIOUS
<1>1. /\ m \in Nat /\ m >= 1 /\ k \in Nat /\ 1 <= k /\ k <= m
      /\ group.imu[k] \in Int /\ integrated <= group.imu[k]
      /\ k < m => group.imu[k] < group.t
      /\ k = m => group.imu[k] >= group.t
      /\ group.t \in Int /\ integrated \in Int /\ startTime \in Int /\ integrated <= group.t
  <2>1. k \in 1..Len(group.imu)
    OBVIOUS
  <2> QED  BY <2>1, SyncedSample DEF m
<1>2. raw.t = group.imu[k] /\ raw.v = Reading(group.imu[k]) /\ raw.v \in Int
  BY <1>1, ReadingFacts, ScaledFacts
<1>3. s = IF raw.t > group.t THEN r ELSE raw
  BY DEF TailSample
<1>4. /\ h.t \in Int /\ h.v \in Int /\ h.t <= group.t
      /\ h.v <= raw.v
      /\ k > 1 \/ passed # NoTime => h.v = Reading(h.t)
      /\ k = 1 /\ passed = NoTime => FirstReading <= h.v
  <2>1. CASE k = 1
    <3>1. /\ FirstHead(group).t = integrated /\ FirstHead(group).v \in Int
          /\ FirstHead(group).v <= Reading(group.imu[1])
          /\ passed # NoTime => FirstHead(group).v = Reading(integrated)
          /\ passed = NoTime => FirstReading <= FirstHead(group).v
      BY FirstHeadFacts
    <3>2. h = FirstHead(group)
      BY <2>1
    <3> HIDE DEF h, raw
    <3> QED  BY <1>1, <1>2, <2>1, <3>1, <3>2, SMTT(20)
  <2>2. CASE k > 1
    <3>1. k - 1 \in 1..(m - 1) /\ k - 1 \in 1..m /\ k - 1 < k /\ k \in 1..m
      BY <1>1, <2>2, SMTT(20)
    <3>2. /\ group.imu[k - 1] \in Int /\ group.imu[k - 1] < group.t
          /\ group.imu[k - 1] <= group.imu[k]
      BY <3>1, SyncedFacts
    <3>3. h.t = group.imu[k - 1] /\ h.v = Reading(group.imu[k - 1])
      <4>1. h = Scaled(group.imu[k - 1])
        BY <1>1, <2>2
      <4> QED  BY <4>1, ScaledFacts
    <3>4. /\ Reading(group.imu[k - 1]) \in Int
          /\ Reading(group.imu[k - 1]) <= Reading(group.imu[k])
      BY <1>1, <3>2, ReadingFacts
    <3> HIDE DEF h, raw
    <3> QED  BY <1>1, <1>2, <2>2, <3>2, <3>3, <3>4, SMTT(20)
  <2> QED  BY <1>1, <2>1, <2>2
<1>0. FirstReading \in Int
  BY FirstReadingFacts
<1> HIDE DEF s, raw, h
<1>5. CASE raw.t > group.t
  <2>1. /\ r.t = group.t /\ r.v \in Int /\ h.v <= r.v /\ r.v <= raw.v
        /\ h.v = Reading(h.t) /\ raw.v = Reading(raw.t) => r.v = Reading(group.t)
    <3>1. /\ h.t \in Int /\ h.v \in Int /\ raw.t \in Int /\ raw.v \in Int
          /\ h.t <= group.t /\ group.t < raw.t /\ group.t \in Int /\ startTime \in Int
      BY <1>1, <1>2, <1>4, <1>5
    <3>2. h.v <= raw.v
      BY <1>4
    <3> QED  BY <3>1, <3>2, InterpolatedFacts, SMTT(20)
  <2>2. s = r /\ k = m
    BY <1>1, <1>2, <1>3, <1>5, SMTT(20)
  <2>3. k = 1 => ~(group.imu[1] <= group.t)
    BY <1>1, <1>2, <1>5
  <2> HIDE DEF r
  <2>4. k = 1 /\ passed = NoTime => FirstReading <= s.v
    BY <1>0, <1>4, <2>1, <2>2
  <2>5. k > 1 \/ passed # NoTime \/ group.imu[1] <= group.t => s.v = Reading(s.t)
    <3>1. raw.v = Reading(raw.t)
      BY <1>2
    <3>2. k > 1 \/ passed # NoTime \/ group.imu[1] <= group.t => k > 1 \/ passed # NoTime
      BY <1>1, <2>3
    <3>3. k > 1 \/ passed # NoTime => r.v = Reading(group.t)
      BY <1>4, <2>1, <3>1
    <3> QED  BY <2>1, <2>2, <3>2, <3>3
  <2> QED  BY <1>1, <1>2, <2>1, <2>2, <2>4, <2>5
<1>6. CASE ~(raw.t > group.t)
  <2>1. s = raw /\ (k = m => group.imu[k] = group.t)
    BY <1>1, <1>2, <1>3, <1>6
  <2>2. k = 1 /\ passed = NoTime => FirstReading <= s.v
    BY <1>0, <1>2, <1>4, <2>1
  <2> QED  BY <1>1, <1>2, <2>1, <2>2
<1> QED  BY <1>5, <1>6

(* The samples that begin the intervals.                                   *)
LEMMA HeadSampleFacts ==
  ASSUME IInv, PipelineAssumption, group.stage = "synced", NEW k \in 1..Len(group.imu)
  PROVE  LET h == HeadSample(group, k)
         IN  /\ h.t = IF k = 1 THEN integrated ELSE group.imu[k - 1]
             /\ h.v \in Int /\ h.v <= Reading(group.imu[k])
             /\ k > 1 \/ passed # NoTime => h.v = Reading(h.t)
             /\ k = 1 /\ passed = NoTime => FirstReading <= h.v
             /\ k = 1 /\ ~headSeeded => h.v = Reading(group.imu[1])
             /\ k > 1 => group.imu[1] <= group.imu[k - 1] /\ group.imu[1] < group.t
<1> DEFINE m == Len(group.imu)
           h == HeadSample(group, k)
<1> SUFFICES /\ h.t = IF k = 1 THEN integrated ELSE group.imu[k - 1]
             /\ h.v \in Int /\ h.v <= Reading(group.imu[k])
             /\ k > 1 \/ passed # NoTime => h.v = Reading(h.t)
             /\ k = 1 /\ passed = NoTime => FirstReading <= h.v
             /\ k = 1 /\ ~headSeeded => h.v = Reading(group.imu[1])
             /\ k > 1 => group.imu[1] <= group.imu[k - 1] /\ group.imu[1] < group.t
  OBVIOUS
<1>1. m \in Nat /\ k \in Nat /\ k >= 1 /\ k <= m
  BY SyncedFacts
<1>2. CASE k = 1
  <2>1. h = FirstHead(group)
    BY <1>2 DEF HeadSample
  <2> HIDE DEF h
  <2> QED  BY <1>2, <2>1, FirstHeadFacts
<1>3. CASE k > 1
  <2>1. /\ k - 1 \in 1..(m - 1) /\ k - 1 \in 1..m /\ k - 1 < k /\ k - 1 # m /\ k # 1
        /\ 1 \in 1..m /\ 1 \in 1..(m - 1) /\ (1 < k - 1 \/ k - 1 = 1)
    BY <1>1, <1>3
  <2>2. h = TailSample(group, k - 1)
    BY <1>3 DEF HeadSample
  <2>3. /\ group.imu[1] \in Int /\ group.imu[k - 1] \in Int /\ group.imu[k] \in Int
        /\ group.imu[1] < group.t /\ group.t \in Int /\ startTime \in Int
        /\ group.imu[1] <= group.imu[k - 1] /\ group.imu[k - 1] <= group.imu[k]
    <3>0. group.imu[1] < group.t
      BY <2>1, SyncedFacts
    <3>1. /\ group.imu[1] \in Int /\ group.imu[k - 1] \in Int /\ group.imu[k] \in Int
          /\ group.imu[1] < group.t /\ group.t \in Int /\ startTime \in Int
      <4>1. \A j \in 1..m : group.imu[j] \in Int
        BY SyncedFacts
      <4>2. group.t \in Int /\ startTime \in Int
        BY SyncedFacts
      <4> QED  BY <2>1, <3>0, <4>1, <4>2
    <3>2. group.imu[k - 1] <= group.imu[k]
      BY <2>1, SyncedFacts
    <3>3. group.imu[1] <= group.imu[k - 1]
      <4>1. CASE k - 1 = 1
        BY <3>1, <4>1
      <4>2. CASE 1 < k - 1
        BY <2>1, <4>2, SyncedFacts
      <4> QED  BY <2>1, <4>1, <4>2
    <3> QED  BY <3>1, <3>2, <3>3
  <2>4. /\ TailSample(group, k - 1).t = group.imu[k - 1]
        /\ TailSample(group, k - 1).v \in Int
        /\ k - 1 > 1 \/ passed # NoTime \/ group.imu[1] <= group.t
             => TailSample(group, k - 1).v = Reading(TailSample(group, k - 1).t)
    BY <2>1, TailSampleFacts
  <2>5. Reading(group.imu[k - 1]) <= Reading(group.imu[k])
    BY <2>3, ReadingFacts
  <2>6. group.imu[1] <= group.t
    BY <2>3, SMTT(20)
  <2> HIDE DEF h
  <2>7. h.t = group.imu[k - 1] /\ h.v \in Int /\ h.v = Reading(h.t)
    BY <2>2, <2>4, <2>6
  <2> QED  BY <1>3, <2>1, <2>3, <2>5, <2>7
<1> QED  BY <1>1, <1>2, <1>3

PoseRecords == [t : Int, head : Int, tail : Int, dt : Int]

Interval(h, s) == [t |-> h.t, head |-> h.v, tail |-> s.v, dt |-> s.t - h.t]

LEMMA IntervalFacts ==
  ASSUME NEW h, NEW s, h.t \in Int, h.v \in Int, s.t \in Int, s.v \in Int, h.t <= s.t
  PROVE  /\ Interval(h, s) \in PoseRecords
         /\ Interval(h, s).t = h.t /\ Interval(h, s).head = h.v /\ Interval(h, s).tail = s.v
         /\ Interval(h, s).dt >= 0 /\ Interval(h, s).t + Interval(h, s).dt = s.t
<1>1. PICK a \in Int, b \in Int, c \in Int, d \in Int :
        a = h.t /\ b = h.v /\ c = s.t /\ d = s.v /\ a <= c
  OBVIOUS
<1>2. Interval(h, s) = [t |-> a, head |-> b, tail |-> d, dt |-> c - a]
  BY <1>1 DEF Interval
<1> QED  BY <1>1, <1>2 DEF PoseRecords

(* The intervals: one per sample, from where propagation stands to the     *)
(* image, each beginning where the one before it ended.                    *)
LEMMA PosesFacts ==
  ASSUME IInv, PipelineAssumption, group.stage = "synced"
  PROVE  LET m == Len(group.imu)
             P == Poses(group)
         IN  /\ Tiles(P, integrated, group.t) /\ Len(P) = m /\ DOMAIN P = 1..m
             /\ P # <<>>
             /\ \A k \in 1..m :
                  /\ P[k].t = HeadSample(group, k).t /\ P[k].head = HeadSample(group, k).v
                  /\ P[k].tail = TailSample(group, k).v
                  /\ P[k].t + P[k].dt = TailSample(group, k).t
<1> DEFINE m == Len(group.imu)
           P == Poses(group)
<1>1. /\ m \in Nat /\ m >= 1 /\ TailCount(group) = m
      /\ group.t \in Int /\ integrated \in Int /\ integrated <= group.t
  BY SyncedFacts
<1>2. P = [k \in 1..m |-> Interval(HeadSample(group, k), TailSample(group, k))]
  BY <1>1 DEF Poses, Interval
<1>3. ASSUME NEW k \in 1..m
      PROVE  /\ HeadSample(group, k).t = (IF k = 1 THEN integrated ELSE group.imu[k - 1]) /\ HeadSample(group, k).t \in Int
             /\ TailSample(group, k).t = (IF k = m THEN group.t ELSE group.imu[k]) /\ TailSample(group, k).t \in Int
             /\ HeadSample(group, k).t <= TailSample(group, k).t
             /\ HeadSample(group, k).v \in Int /\ TailSample(group, k).v \in Int
  <2>1. /\ HeadSample(group, k).t = (IF k = 1 THEN integrated ELSE group.imu[k - 1]) /\ HeadSample(group, k).v \in Int
        /\ k > 1 => group.imu[1] <= group.imu[k - 1] /\ group.imu[1] < group.t
    BY HeadSampleFacts
  <2>2. TailSample(group, k).t = (IF k = m THEN group.t ELSE group.imu[k]) /\ TailSample(group, k).v \in Int
    BY TailSampleFacts
  <2>3. group.imu[k] \in Int /\ integrated <= group.imu[k]
    BY SyncedFacts
  <2>4. k > 1 => /\ group.imu[k - 1] \in Int /\ group.imu[k - 1] < group.t
                 /\ group.imu[k - 1] <= group.imu[k]
    <3> HAVE k > 1
    <3>1. k - 1 \in 1..(m - 1) /\ k - 1 \in 1..m /\ k - 1 < k
      BY <1>1
    <3> QED  BY <3>1, SyncedFacts
  <2>5. k = 1 \/ k > 1
    BY <1>1
  <2> HIDE DEF m
  <2> QED  BY <1>1, <2>1, <2>2, <2>3, <2>4, <2>5
<1> HIDE DEF m, P
<1>4. \A k \in 1..m : P[k] = Interval(HeadSample(group, k), TailSample(group, k))
  BY <1>2
<1>5. ASSUME NEW k \in 1..m
      PROVE  /\ P[k] \in PoseRecords
             /\ P[k].t = HeadSample(group, k).t /\ P[k].head = HeadSample(group, k).v
             /\ P[k].tail = TailSample(group, k).v
             /\ P[k].dt >= 0 /\ P[k].t + P[k].dt = TailSample(group, k).t
  BY <1>3, <1>4, IntervalFacts
<1>6. P \in Seq(PoseRecords) /\ Len(P) = m /\ DOMAIN P = 1..m
  <2>1. P \in [1..m -> PoseRecords]
    BY <1>2, <1>5
  <2> HIDE DEF PoseRecords
  <2> QED  BY <1>1, <2>1
<1>8. 1 \in 1..m /\ m \in 1..m
  BY <1>1
<1>9. P[1].t = integrated /\ P[m].t + P[m].dt = group.t
  BY <1>3, <1>5, <1>8
<1>10. ASSUME NEW k \in 1..(m - 1) PROVE P[k].t + P[k].dt = P[k + 1].t
  <2>1. k \in 1..m /\ k + 1 \in 1..m /\ k # m /\ k + 1 # 1 /\ (k + 1) - 1 = k
    BY <1>1
  <2>2. TailSample(group, k).t = group.imu[k] /\ HeadSample(group, k + 1).t = group.imu[(k + 1) - 1]
    BY <1>3, <2>1
  <2> QED  BY <1>5, <2>1, <2>2
<1>11. Tiles(P, integrated, group.t)
  BY <1>1, <1>6, <1>5, <1>9, <1>10 DEF Tiles, PoseRecords
<1>12. P # <<>>
  BY <1>1, <1>6
<1> QED  BY <1>6, <1>5, <1>11, <1>12 DEF m, P

(* What a reading may be: with p the stamp of the first sample passed, f   *)
(* that of the first one integrated, and u the sample it is read before.   *)
Right(v, t, p, f, u) ==
  IF p # NoTime /\ t + startTime >= p
  THEN v = Reading(t)
  ELSE v \in (AccScale * f)..Reading(u)

FirstStampThen == IF headSeeded THEN firstStamp ELSE group.imu[1] + startTime
PassedThen ==
  IF passed = NoTime /\ group.imu[1] <= group.t THEN group.imu[1] + startTime ELSE passed

LEMMA ReadingsThen ==
  ASSUME IInv, PipelineAssumption, group.stage = "synced"
  PROVE  \A k \in DOMAIN Poses(group) :
           LET pose == Poses(group)[k]
           IN  /\ Right(pose.head, pose.t, PassedThen, FirstStampThen, group.imu[k])
               /\ Right(pose.tail, pose.t + pose.dt, PassedThen, FirstStampThen, group.imu[k])
<1> DEFINE m == Len(group.imu)
           P == Poses(group)
<1>1. /\ DOMAIN P = 1..m
      /\ \A k \in 1..m :
           /\ P[k].t = HeadSample(group, k).t /\ P[k].head = HeadSample(group, k).v
           /\ P[k].tail = TailSample(group, k).v
           /\ P[k].t + P[k].dt = TailSample(group, k).t
  BY PosesFacts
<1> HIDE DEF P
<1> SUFFICES ASSUME NEW k \in 1..m
             PROVE  /\ Right(P[k].head, P[k].t, PassedThen, FirstStampThen, group.imu[k])
                    /\ Right(P[k].tail, P[k].t + P[k].dt, PassedThen, FirstStampThen, group.imu[k])
  BY <1>1 DEF P
<1>2. AccScale * FirstStampThen = FirstReading /\ FirstReading \in Int
  BY FirstReadingFacts DEF FirstStampThen, FirstReading, Reading
<1>3. /\ m \in Nat /\ k \in Nat /\ 1 <= k /\ k <= m
      /\ group.imu[1] \in Int /\ integrated <= group.imu[1] /\ 0 <= group.imu[1] + startTime
      /\ group.imu[k] \in Int /\ group.imu[1] <= group.imu[k] /\ integrated <= group.imu[k]
      /\ group.t \in Int /\ integrated \in Int /\ startTime \in Int /\ integrated <= group.t
      /\ k < m => group.imu[k] < group.t
      /\ Reading(group.imu[k]) \in Int
  <2>1. /\ k \in 1..Len(group.imu) /\ group.imu[k] \in Int /\ startTime \in Int
    BY SyncedSample
  <2>2. Reading(group.imu[k]) \in Int
    BY <2>1, ReadingFacts
  <2> QED  BY <2>1, <2>2, SyncedSample DEF m
<1>4. /\ passed \in Int
      /\ passed # NoTime => passed <= integrated + startTime
  BY DEF IInv, HeadOK
<1>5. passed = NoTime /\ headSeeded => integrated < group.imu[1]
  <2> HAVE passed = NoTime /\ headSeeded
  <2>1. Ahead(group.imu) /\ Held
    BY DEF IInv, GroupOK, SyncedOK, Held
  <2>2. 1 \in DOMAIN group.imu
    <3>1. 1 \in 1..m /\ DOMAIN group.imu = 1..m
      BY SyncedFacts
    <3> QED  BY <3>1
  <2> QED  BY <1>3, <2>1, <2>2 DEF Ahead
<1>6. Right(P[k].head, P[k].t, PassedThen, FirstStampThen, group.imu[k])
  <2> DEFINE h == HeadSample(group, k)
  <2>1. /\ h.t = IF k = 1 THEN integrated ELSE group.imu[k - 1]
        /\ h.v \in Int /\ h.v <= Reading(group.imu[k])
        /\ k > 1 \/ passed # NoTime => h.v = Reading(h.t)
        /\ k = 1 /\ passed = NoTime => FirstReading <= h.v
        /\ k = 1 /\ ~headSeeded => h.v = Reading(group.imu[1])
        /\ k > 1 => group.imu[1] <= group.imu[k - 1] /\ group.imu[1] < group.t
    BY HeadSampleFacts
  <2>2. P[k].head = h.v /\ P[k].t = h.t
    BY <1>1
  <2> HIDE DEF h, m
  <2>3. CASE k = 1 /\ passed = NoTime
    <3>1. h.t = integrated /\ FirstReading <= h.v /\ h.v <= Reading(group.imu[k])
      BY <2>1, <2>3
    <3>2. ASSUME PassedThen # NoTime, h.t + startTime >= PassedThen PROVE h.v = Reading(h.t)
      <4>1. PassedThen = group.imu[1] + startTime
        BY <2>3, <3>2 DEF PassedThen
      <4>2. group.imu[1] <= integrated
        BY <1>3, <3>1, <3>2, <4>1
      <4>3. ~headSeeded /\ group.imu[1] = integrated
        BY <1>3, <1>5, <2>3, <4>2
      <4> QED  BY <2>1, <2>3, <3>1, <4>3
    <3>3. h.v \in FirstReading..Reading(group.imu[k])
      BY <1>2, <1>3, <2>1, <3>1
    <3> QED  BY <1>2, <2>2, <3>2, <3>3 DEF Right
  <2>4. CASE k > 1 \/ passed # NoTime
    <3>1. h.v = Reading(h.t)
      BY <2>1, <2>4
    <3>2. PassedThen # NoTime /\ h.t + startTime >= PassedThen
      <4>1. CASE passed # NoTime
        <5>1. PassedThen = passed
          BY <4>1 DEF PassedThen
        <5>2. h.t \in Int /\ h.t >= integrated
          <6>1. CASE k = 1
            BY <1>3, <2>1, <6>1
          <6>2. CASE k > 1
            <7>1. h.t = group.imu[k - 1] /\ k - 1 \in 1..m
              BY <1>3, <2>1, <6>2
            <7> QED  BY <7>1, SyncedFacts DEF m
          <6> QED  BY <1>3, <6>1, <6>2
        <5> QED  BY <1>3, <1>4, <4>1, <5>1, <5>2
      <4>2. CASE k > 1 /\ passed = NoTime
        <5>1. PassedThen = group.imu[1] + startTime
          BY <1>3, <2>1, <4>2 DEF PassedThen
        <5>2. h.t = group.imu[k - 1] /\ k - 1 \in 1..m
          BY <1>3, <2>1, <4>2
        <5>3. group.imu[k - 1] \in Int
          BY <5>2, SyncedFacts DEF m
        <5>4. group.imu[1] <= group.imu[k - 1]
          BY <2>1, <4>2
        <5> QED  BY <1>3, <5>1, <5>2, <5>3, <5>4 DEF NoTime
      <4> QED  BY <2>4, <4>1, <4>2
    <3> QED  BY <2>2, <3>1, <3>2 DEF Right
  <2> QED  BY <1>3, <2>3, <2>4
<1>7. Right(P[k].tail, P[k].t + P[k].dt, PassedThen, FirstStampThen, group.imu[k])
  <2> DEFINE s == TailSample(group, k)
  <2>1. /\ s.t = IF k = m THEN group.t ELSE group.imu[k]
        /\ s.v \in Int /\ s.v <= Reading(group.imu[k])
        /\ k > 1 \/ passed # NoTime \/ group.imu[1] <= group.t => s.v = Reading(s.t)
        /\ k = 1 /\ passed = NoTime => FirstReading <= s.v
    BY TailSampleFacts
  <2>2. P[k].tail = s.v /\ P[k].t + P[k].dt = s.t
    BY <1>1
  <2>3. k > 1 => group.imu[1] < group.t
    BY HeadSampleFacts
  <2> HIDE DEF s, m
  <2>4. s.t \in Int /\ s.t >= integrated /\ (s.t >= group.imu[1] \/ group.imu[1] > group.t)
    BY <1>3, <2>1
  <2>5. CASE passed # NoTime
    <3>1. PassedThen = passed /\ s.v = Reading(s.t)
      BY <2>1, <2>5 DEF PassedThen
    <3>2. s.t + startTime >= PassedThen
      BY <1>3, <1>4, <2>4, <2>5, <3>1
    <3> QED  BY <2>2, <2>5, <3>1, <3>2 DEF Right
  <2>6. CASE passed = NoTime /\ group.imu[1] <= group.t
    <3>1. PassedThen = group.imu[1] + startTime /\ s.v = Reading(s.t)
      BY <2>1, <2>6 DEF PassedThen
    <3>2. PassedThen # NoTime /\ s.t + startTime >= PassedThen
      BY <1>3, <2>4, <2>6, <3>1 DEF NoTime
    <3> QED  BY <2>2, <3>1, <3>2 DEF Right
  <2>7. CASE passed = NoTime /\ ~(group.imu[1] <= group.t)
    <3>1. PassedThen = NoTime
      BY <2>7 DEF PassedThen
    <3>2. k = 1
      BY <1>3, <2>3, <2>7
    <3>3. FirstReading <= s.v /\ s.v <= Reading(group.imu[k])
      BY <2>1, <2>7, <3>2
    <3>4. s.v \in FirstReading..Reading(group.imu[k])
      BY <1>2, <1>3, <2>1, <3>3
    <3> QED  BY <1>2, <2>2, <3>1, <3>4 DEF Right
  <2> QED  BY <2>5, <2>6, <2>7
<1> QED  BY <1>6, <1>7

-----------------------------------------------------------------------------
(***************************************************************************)
(* The steps.                                                              *)
(***************************************************************************)
LEMMA InitIInv == Init => IInv
<1> SUFFICES ASSUME Init PROVE IInv
  OBVIOUS
<1> USE DEF Init, DataQueuesInit
<1>1. StreamsOK
  <2>1. ImagesBetween(imageQ, startTime, 0, latestImage)
    BY EmptySeq DEF ImagesBetween
  <2>2. ScansBetween(lidarQ, startTime, 0, latestLidar)
    BY EmptySeq DEF ScansBetween, ScansInOrder
  <2>3. SamplesBetween(imuQ, startTime, 0, latestImu)
    BY EmptySeq DEF SamplesBetween
  <2>4. popped + startTime = 0
    OBVIOUS
  <2> QED  BY <2>1, <2>2, <2>3, <2>4 DEF StreamsOK, StreamsBetween
<1>2. PointsOK
  <2>1. DOMAIN lidarQ = {}
    BY EmptySeq
  <2> QED  BY <2>1 DEF PointsOK
<1>7. StartOK
  <2>1. calibrated = FALSE /\ headSeeded = FALSE
    OBVIOUS
  <2>2. popped = 0 /\ integrated = 0 /\ startTime = 0 /\ nImages = 0 /\ group = NoGroup
    OBVIOUS
  <2>3. calibrated \in BOOLEAN /\ ~headSeeded
    BY <2>1
  <2> QED  BY <2>2, <2>3 DEF StartOK
<1>3. HeadOK
  <2>1. headSeeded = FALSE
    OBVIOUS
  <2>2. ~headSeeded /\ headSeeded \in BOOLEAN
    BY <2>1
  <2>3. lastSample = [t |-> 0, v |-> 0] /\ integrated = 0 /\ firstStamp = NoTime /\ passed = NoTime
    OBVIOUS
  <2>4. lastSample = [t |-> integrated, v |-> lastSample.v] /\ lastSample.v \in Int
    BY <2>3
  <2>5. firstStamp \in Int /\ passed \in Int
    BY <2>3 DEF NoTime
  <2>6. ~Held /\ Ahead(imuQ)
    BY <2>2 DEF Held, Ahead
  <2> QED  BY <2>2, <2>3, <2>4, <2>5, <2>6 DEF HeadOK
<1>4. group.stage = "none"
  BY DEF NoGroup
<1>5. GroupOK /\ ReadingsBelong /\ DeskewedOK
  BY <1>4 DEF GroupOK, SyncedOK, PropagatedOK, ReadingsBelong, DeskewedOK, EveryPointDeskewed
<1>6. BudgetOK
  BY <1>4 DEF BudgetOK
<1> QED  BY <1>1, <1>2, <1>7, <1>3, <1>5, <1>6 DEF IInv

(* Without a group in work there is nothing to say of it.                  *)
LEMMA NoGroupKeeps ==
  ASSUME group' = NoGroup
  PROVE  GroupOK' /\ ReadingsBelong' /\ DeskewedOK'
<1>1. group'.stage = "none"
  BY DEF NoGroup
<1> QED  BY <1>1 DEF GroupOK, SyncedOK, PropagatedOK, ReadingsBelong, DeskewedOK, EveryPointDeskewed

LEMMA BudgetUnchanged ==
  ASSUME BudgetOK, UNCHANGED <<group, budget>>
  PROVE  BudgetOK'
  BY DEF BudgetOK

LEMMA HeadUnchanged ==
  ASSUME HeadOK, UNCHANGED <<lastSample, headSeeded, integrated, firstStamp, passed, startTime>>,
         UNCHANGED <<imuQ, latestImu>>
  PROVE  HeadOK'
  BY DEF HeadOK, Held, Ahead, Reading

LEMMA ImuCallbackKeeps ==
  ASSUME IInv, PipelineAssumption, NEW t \in Stamps, ImuCallback(t)
  PROVE  IInv'
<1> USE DEF ImuCallback
<1>1. /\ group = NoGroup
      /\ UNCHANGED <<nImages, calibrated, popped, group, lastSample, headSeeded,
                     integrated, firstStamp, passed, budget>>
      /\ UNCHANGED <<imageQ, lidarQ, latestImage, latestLidar, startTime>>
      /\ t < latestImu => UNCHANGED <<latestImu, imuQ>>
      /\ ~(t < latestImu) => latestImu' = t /\ imuQ' = Append(imuQ, t - startTime)
  BY DEF CanReceive, PushImu
<1>2. /\ t \in Nat /\ startTime \in Nat /\ popped + startTime \in Nat /\ latestImu \in Nat
      /\ popped + startTime <= latestImu /\ popped \in Int /\ integrated \in Int
      /\ SamplesBetween(imuQ, startTime, popped + startTime, latestImu)
  BY DEF IInv, StreamsOK, StreamsBetween, StartOK, Stamps, PipelineAssumption
<1> HIDE DEF ImuCallback
<1>3. StreamsOK'
  <2>1. CASE t < latestImu
    BY <1>1, <2>1 DEF IInv, StreamsOK
  <2>2. CASE ~(t < latestImu)
    <3>1. t >= latestImu /\ popped + startTime <= t
      BY <1>2, <2>2
    <3>2. SamplesBetween(Append(imuQ, t - startTime), startTime, popped + startTime, t)
      <4> DEFINE first == popped + startTime
      <4>1. first \in Nat /\ first <= latestImu /\ SamplesBetween(imuQ, startTime, first, latestImu)
        BY <1>2
      <4> HIDE DEF first
      <4>2. SamplesBetween(Append(imuQ, t - startTime), startTime, first, t)
        BY <1>2, <3>1, <4>1, SamplePushed
      <4> QED  BY <4>2 DEF first
    <3> QED  BY <1>1, <1>2, <2>2, <3>1, <3>2 DEF IInv, StreamsOK, StreamsBetween
  <2> QED  BY <2>1, <2>2
<1>4. PointsOK' /\ StartOK'
  BY <1>1 DEF IInv, PointsOK, StartOK
<1>5. HeadOK'
  <2>1. CASE t < latestImu
    BY <1>1, <2>1, HeadUnchanged DEF IInv
  <2>2. CASE ~(t < latestImu)
    <3>1. Held' <=> Held
      BY <1>1 DEF Held
    <3>2. HeadOK /\ imuQ \in Seq(Int)
      BY <1>2 DEF IInv, SamplesBetween
    <3>3. ASSUME Held
          PROVE  /\ t > integrated + startTime /\ t - startTime > integrated
                 /\ lastSample.v <= AccScale * t
    <4>1. /\ latestImu > integrated + startTime /\ lastSample.v \in Int
            /\ lastSample.v <= AccScale * latestImu
        BY <3>2, <3>3 DEF HeadOK
      <4>2. /\ AccScale * latestImu \in Int /\ AccScale * t \in Int
            /\ AccScale * latestImu <= AccScale * t
        BY <1>2, <2>2, ScaleFacts
      <4>3. t > integrated + startTime /\ t - startTime > integrated
        BY <1>2, <2>2, <4>1
      <4> QED  BY <4>1, <4>2, <4>3
    <3>4. Reading(t - startTime) = AccScale * t
      <4>1. (t - startTime) + startTime = t
        BY <1>2
      <4> QED  BY <4>1 DEF Reading
    <3>5. \A x : Reading(x)' = Reading(x)
      BY <1>1 DEF Reading
    <3>6. Ahead(imuQ)'
      <4> SUFFICES ASSUME Held, NEW k \in DOMAIN imuQ'
                   PROVE  imuQ'[k] > integrated /\ lastSample.v <= Reading(imuQ'[k])
        BY <1>1, <3>1, <3>5 DEF Ahead, Reading
      <4>1. /\ DOMAIN imuQ' = 1..(Len(imuQ) + 1) /\ Len(imuQ) \in Nat
            /\ DOMAIN imuQ = 1..Len(imuQ)
            /\ \A j \in DOMAIN imuQ : imuQ'[j] = imuQ[j]
            /\ imuQ'[Len(imuQ) + 1] = t - startTime
        <5>1. PICK e \in Int : e = t - startTime
          BY <1>2
        <5>2. imuQ \in Seq(Int) /\ imuQ' = Append(imuQ, e)
          BY <1>1, <2>2, <3>2, <5>1
        <5>3. DOMAIN imuQ = 1..Len(imuQ) /\ Len(imuQ) \in Nat
          BY <5>2, SeqFacts
        <5>4. /\ DOMAIN Append(imuQ, e) = 1..(Len(imuQ) + 1)
              /\ \A j \in DOMAIN imuQ : Append(imuQ, e)[j] = imuQ[j]
              /\ Append(imuQ, e)[Len(imuQ) + 1] = e
          BY <5>2, AppendFacts, SMTT(20)
        <5> QED  BY <5>1, <5>2, <5>3, <5>4
      <4>2. CASE k \in DOMAIN imuQ
        BY <3>2, <4>1, <4>2 DEF HeadOK, Ahead
      <4>3. CASE k = Len(imuQ) + 1
        BY <3>3, <3>4, <4>1, <4>3
      <4> QED  BY <4>1, <4>2, <4>3
    <3>7. latestImu' = t
      BY <1>1, <2>2
    <3> QED  BY <1>1, <3>1, <3>2, <3>3, <3>5, <3>6, <3>7 DEF HeadOK
  <2> QED  BY <2>1, <2>2
<1>6. GroupOK' /\ ReadingsBelong' /\ DeskewedOK'
  BY <1>1, NoGroupKeeps
<1>7. BudgetOK'
  BY <1>1, BudgetUnchanged DEF IInv
<1> QED  BY <1>3, <1>4, <1>5, <1>6, <1>7 DEF IInv

LEMMA ImageCallbackKeeps ==
  ASSUME IInv, PipelineAssumption, NEW t \in ImageStamps, ImageCallback(t)
  PROVE  IInv'
<1> USE DEF ImageCallback
<1>1. /\ group = NoGroup
      /\ UNCHANGED <<calibrated, popped, group, lastSample, headSeeded, integrated,
                     firstStamp, passed, budget>>
      /\ UNCHANGED <<lidarQ, imuQ, latestLidar, latestImu, startTime>>
      /\ t > latestImage
      /\ ~(t < latestImage) => /\ latestImage' = t
                               /\ imageQ' = Append(imageQ, [t |-> t - startTime, n |-> nImages + 1])
  BY DEF CanReceive, PushImage
<1>2. /\ t \in Nat /\ t >= 1 /\ startTime \in Nat /\ popped + startTime \in Nat
      /\ latestImage \in Nat /\ popped + startTime <= latestImage
      /\ ImagesBetween(imageQ, startTime, popped + startTime, latestImage)
      /\ nImages \in Nat
  <2>1. ImageStamps \subseteq 1..Horizon /\ Horizon \in Nat
    BY DEF PipelineAssumption
  <2>2. t \in 1..Horizon
    BY <2>1
  <2>3. t \in Nat /\ t >= 1
    BY <2>1, <2>2
  <2> QED  BY <2>3 DEF IInv, StreamsOK, StreamsBetween, StartOK
<1>8. nImages' = nImages + 1
  OBVIOUS
<1> HIDE DEF ImageCallback
<1>3. StreamsOK'
  <2>1. ~(t < latestImage) /\ t >= latestImage /\ popped + startTime <= t
    BY <1>1, <1>2, SMTT(20)
  <2>2. ImagesBetween(Append(imageQ, [t |-> t - startTime, n |-> nImages + 1]), startTime,
                      popped + startTime, t)
    <3> DEFINE first == popped + startTime
    <3>1. first \in Nat /\ first <= latestImage /\ ImagesBetween(imageQ, startTime, first, latestImage)
      BY <1>2
    <3> HIDE DEF first
    <3>2. nImages + 1 \in Nat
      BY <1>2
    <3>3. ImagesBetween(Append(imageQ, [t |-> t - startTime, n |-> nImages + 1]), startTime,
                        first, t)
      BY <1>2, <2>1, <3>1, <3>2, ImagePushed
    <3> QED  BY <3>3 DEF first
  <2> QED  BY <1>1, <1>2, <2>1, <2>2 DEF IInv, StreamsOK, StreamsBetween
<1>4. PointsOK' /\ StartOK'
  BY <1>1, <1>2, <1>8 DEF IInv, PointsOK, StartOK
<1>5. HeadOK'
  BY <1>1, HeadUnchanged DEF IInv
<1>6. GroupOK' /\ ReadingsBelong' /\ DeskewedOK'
  BY <1>1, NoGroupKeeps
<1>7. BudgetOK'
  BY <1>1, BudgetUnchanged DEF IInv
<1> QED  BY <1>3, <1>4, <1>5, <1>6, <1>7 DEF IInv

LEMMA LidarCallbackKeeps ==
  ASSUME IInv, PipelineAssumption, NEW scan, scan \subseteq Nat, HasEnds(scan), LidarCallback(scan)
  PROVE  IInv'
<1> USE DEF LidarCallback
<1>1. /\ group = NoGroup
      /\ UNCHANGED <<nImages, calibrated, popped, group, lastSample, headSeeded,
                     integrated, firstStamp, passed, budget>>
      /\ UNCHANGED <<imageQ, imuQ, latestImage, latestImu, startTime>>
      /\ SplitPulses \/ Earliest(scan) # latestLidar
      /\ Earliest(scan) < latestLidar => UNCHANGED <<latestLidar, lidarQ>>
      /\ ~(Earliest(scan) < latestLidar) => /\ latestLidar' = Latest(scan)
                                            /\ lidarQ' = Append(lidarQ, Shift(scan, startTime))
  BY DEF CanReceive, PushLidar, Overlaps
<1>2. /\ startTime \in Nat /\ popped + startTime \in Nat /\ popped \in Int
      /\ latestLidar \in Nat /\ popped + startTime <= latestLidar
      /\ ScansBetween(lidarQ, startTime, popped + startTime, latestLidar)
  BY DEF IInv, StreamsOK, StreamsBetween, StartOK
<1>3. /\ Earliest(scan) \in Nat /\ Latest(scan) \in Nat /\ Earliest(scan) <= Latest(scan)
      /\ \A p \in scan : Earliest(scan) <= p
  <2>1. scan \subseteq Int
    OBVIOUS
  <2>2. /\ Earliest(scan) \in scan /\ \A p \in scan : Earliest(scan) <= p
        /\ Latest(scan) \in scan
    BY <2>1, EndsFacts
  <2> QED  BY <2>2
<1> HIDE DEF LidarCallback
<1>4. CASE Earliest(scan) < latestLidar
  <2>1. StreamsOK' /\ PointsOK'
    BY <1>1, <1>4 DEF IInv, StreamsOK, PointsOK
  <2> QED  BY <1>1, <2>1, HeadUnchanged, NoGroupKeeps, BudgetUnchanged DEF IInv, StartOK
<1>5. CASE ~(Earliest(scan) < latestLidar)
  <2>1. Earliest(scan) >= latestLidar /\ popped + startTime <= Latest(scan)
    BY <1>2, <1>3, <1>5
  <2>2. ScansBetween(Append(lidarQ, Shift(scan, startTime)), startTime, popped + startTime,
                     Latest(scan))
    <3> DEFINE first == popped + startTime
    <3>1. first \in Nat /\ first <= latestLidar /\ ScansBetween(lidarQ, startTime, first, latestLidar)
      BY <1>2
    <3> HIDE DEF first
    <3>2. ScansBetween(Append(lidarQ, Shift(scan, startTime)), startTime, first, Latest(scan))
      BY <1>2, <2>1, <3>1, ScanPushed
    <3> QED  BY <3>2 DEF first
  <2>3. StreamsOK'
    BY <1>1, <1>2, <1>3, <1>5, <2>1, <2>2 DEF IInv, StreamsOK, StreamsBetween
  <2>4. PointsOK'
    <3> SUFFICES ASSUME ~SplitPulses, NEW k \in DOMAIN lidarQ', NEW p \in lidarQ'[k]
                 PROVE  p > popped
      BY <1>1 DEF PointsOK
    <3>0. lidarQ \in Seq(SUBSET Int) /\ Shift(scan, startTime) \in SUBSET Int
      <4>1. scan \subseteq Int /\ startTime \in Int
        BY <1>2
      <4> QED  BY <1>2, <4>1, ShiftFacts DEF ScansBetween, ScansInOrder
    <3>1. /\ DOMAIN lidarQ' = 1..(Len(lidarQ) + 1) /\ Len(lidarQ) \in Nat
          /\ DOMAIN lidarQ = 1..Len(lidarQ)
          /\ \A j \in DOMAIN lidarQ : lidarQ'[j] = lidarQ[j]
          /\ lidarQ'[Len(lidarQ) + 1] = Shift(scan, startTime)
      BY <1>1, <1>5, <3>0, AppendFacts, SeqFacts
    <3>2. CASE k \in DOMAIN lidarQ
      BY <3>1, <3>2 DEF IInv, PointsOK
    <3>3. CASE k = Len(lidarQ) + 1
      <4>1. PICK o \in scan : p = o - startTime
        BY <3>1, <3>3 DEF Shift
      <4>2. o \in Int /\ o > latestLidar
        BY <1>1, <1>2, <1>3, <2>1
      <4> QED  BY <1>2, <4>1, <4>2
    <3> QED  BY <3>1, <3>2, <3>3
  <2> QED  BY <1>1, <2>3, <2>4, HeadUnchanged, NoGroupKeeps, BudgetUnchanged DEF IInv, StartOK
<1> QED  BY <1>4, <1>5

(* The image that completes the calibration becomes time zero.             *)
LEMMA CalibrateKeeps ==
  ASSUME IInv, MarginAssumption, PipelineAssumption, Calibrate
  PROVE  IInv'
<1> DEFINE max == Head(imageQ).t
           images == Tail(imageQ)
           scans == LidarLeft(max)
           samples == ImuLeft(max)
<1>1. /\ ~calibrated /\ Ready /\ calibrated' = TRUE /\ popped' = 0
      /\ startTime' = max
      /\ imageQ' = [k \in DOMAIN images |-> [images[k] EXCEPT !.t = @ - max]]
      /\ lidarQ' = [k \in DOMAIN scans |-> Shift(scans[k], max)]
      /\ imuQ' = [k \in DOMAIN samples |-> samples[k] - max]
      /\ UNCHANGED <<latestImage, latestLidar, latestImu, nImages, group, lastSample>>
      /\ UNCHANGED <<headSeeded, integrated, firstStamp, passed, budget>>
  BY DEF Calibrate, SetStartTime
<1>2. StreamsBetween(imageQ, lidarQ, imuQ, startTime, popped + startTime,
                     latestImage, latestLidar, latestImu)
      /\ startTime = 0 /\ popped = 0 /\ group = NoGroup /\ ~headSeeded /\ integrated = 0
      /\ passed = NoTime /\ nImages \in Nat
  BY <1>1 DEF IInv, StreamsOK, StartOK, HeadOK
<1>3. /\ max \in Int /\ max + startTime >= 1
      /\ StreamsBetween(images, scans, samples, startTime, max + startTime,
                        latestImage, latestLidar, latestImu)
  <2>1. Ready /\ StreamsBetween(imageQ, lidarQ, imuQ, startTime, popped + startTime,
                                latestImage, latestLidar, latestImu)
    BY <1>1, <1>2
  <2> QED  BY <2>1, ReadyStreams, PoppedStreams
<1>4. ScansInOrder(lidarQ) /\ \A k \in DOMAIN scans : \A p \in scans[k] : p \in Int /\ p > max
  <2>1. ScansInOrder(lidarQ)
    BY <1>2 DEF StreamsBetween, ScansBetween
  <2>2. ScansInOrder(scans) /\ \A k \in DOMAIN scans : \A p \in scans[k] : p > max
    BY <1>3, <2>1, LidarLeftFacts
  <2> HIDE DEF scans
  <2> QED  BY <2>1, <2>2 DEF ScansInOrder
<1> HIDE DEF max, images, scans, samples
<1>5. max \in Nat /\ StreamsBetween(images, scans, samples, 0, max, latestImage, latestLidar, latestImu)
  <2>1. max + startTime = max /\ max \in Nat
    BY <1>2, <1>3
  <2> QED  BY <1>2, <1>3, <2>1
<1>6. StreamsOK'
  <2>1. StreamsBetween(imageQ', lidarQ', imuQ', max, max, latestImage, latestLidar, latestImu)
    BY <1>1, <1>5, ShiftStreams
  <2>2. popped' + startTime' = max
    BY <1>1, <1>3
  <2> QED  BY <1>1, <2>1, <2>2 DEF StreamsOK
<1>7. PointsOK'
  <2> SUFFICES ASSUME NEW k \in DOMAIN lidarQ', NEW p \in lidarQ'[k] PROVE p > popped'
    BY DEF PointsOK
  <2>1. PICK o \in scans[k] : p = o - max
    BY <1>1 DEF Shift
  <2>2. k \in DOMAIN scans
    BY <1>1
  <2>3. o \in Int /\ o > max
    BY <1>4, <2>1, <2>2
  <2> QED  BY <1>1, <1>3, <2>1, <2>3
<1>8. StartOK'
  <2>1. calibrated' \in BOOLEAN /\ calibrated'
    BY <1>1
  <2> QED  BY <1>1, <1>2, <2>1 DEF StartOK
<1>9. HeadOK'
  <2>1. ~headSeeded' /\ passed' = NoTime
    BY <1>1, <1>2
  <2>2. ~Held' /\ Ahead(imuQ)'
    BY <2>1 DEF Held, Ahead
  <2> QED  BY <1>1, <1>2, <2>1, <2>2 DEF IInv, HeadOK
<1>10. GroupOK' /\ ReadingsBelong' /\ DeskewedOK'
  BY <1>1, <1>2, NoGroupKeeps
<1>11. BudgetOK'
  BY <1>1, BudgetUnchanged DEF IInv
<1> QED  BY <1>6, <1>7, <1>8, <1>9, <1>10, <1>11 DEF IInv

(* What syncMeasures() hands out: points and samples since propagation     *)
(* stopped, in time order, the last sample alone at or past the image and  *)
(* still the first one queued.                                             *)
LEMMA PoppedGroupFacts ==
  ASSUME IInv, MarginAssumption, Ready
  PROVE  LET max == Head(imageQ).t
             S   == PoppedImu(max)
             m   == Len(S)
         IN  /\ max \in Int /\ popped <= max
             /\ S \in Seq(Int) /\ S # <<>> /\ m \in Nat /\ m >= 1
             /\ \A j \in 1..(m - 1) : S[j] < max
             /\ S[m] >= max
             /\ \A i, j \in DOMAIN S : i < j => S[i] <= S[j]
             /\ \A j \in DOMAIN S : popped <= S[j] /\ 0 <= S[j] + startTime
             /\ Ahead(S)
             /\ ImuLeft(max) # <<>>
             /\ \A k \in DOMAIN ImuLeft(max) : S[m] <= ImuLeft(max)[k]
             /\ Ahead(ImuLeft(max))
<1> DEFINE max == Head(imageQ).t
           S == PoppedImu(max)
           L == ImuLeft(max)
           b == BeforeMax(max)
<1>1. /\ StreamsBetween(imageQ, lidarQ, imuQ, startTime, popped + startTime,
                        latestImage, latestLidar, latestImu)
      /\ popped \in Int /\ startTime \in Nat /\ popped + startTime \in Nat
      /\ SamplesBetween(imuQ, startTime, popped + startTime, latestImu)
      /\ ImagesBetween(imageQ, startTime, popped + startTime, latestImage)
      /\ Ahead(imuQ)
  BY DEF IInv, StreamsOK, StartOK, StreamsBetween, HeadOK
<1>2. /\ imageQ # <<>> /\ Head(imageQ) = imageQ[1] /\ 1 \in DOMAIN imageQ
      /\ max \in Int /\ b \in 0..(Len(imuQ) - 1) /\ imuQ[b + 1] >= max
  BY <1>1, ReadyStreams
<1>3. popped <= max
  BY <1>1, <1>2 DEF ImagesBetween
<1>4. imuQ \in Seq(Int) /\ Len(imuQ) \in Nat /\ DOMAIN imuQ = 1..Len(imuQ)
      /\ \A k \in DOMAIN imuQ : imuQ[k] \in Int
  <2>1. imuQ \in Seq(Int)
    BY <1>1 DEF SamplesBetween
  <2> QED  BY <2>1, SeqFacts
<1>5. \A j \in 1..b : imuQ[j] < max
  BY <1>2, <1>4, BeforeMaxFacts
<1>6. /\ S \in Seq(Int) /\ Len(S) = b + 1
      /\ \A j \in 1..(b + 1) : S[j] = imuQ[j]
  <2>1. b < Len(imuQ)
    BY <1>2, <1>4
  <2>2. /\ S \in Seq(Int)
        /\ Len(S) = IF b < Len(imuQ) THEN b + 1 ELSE Len(imuQ)
        /\ \A j \in 1..Len(S) : S[j] = imuQ[j]
    BY <1>2, <1>4, PoppedImuFacts
  <2> HIDE DEF b, S
  <2> QED  BY <2>1, <2>2
<1>7. /\ L \in Seq(Int) /\ Len(L) = Len(imuQ) - b
      /\ \A j \in 1..Len(L) : L[j] = imuQ[b + j]
  BY <1>2, <1>4, ImuLeftFacts
<1> HIDE DEF max, S, L, b
<1>8. /\ S # <<>> /\ Len(S) \in Nat /\ Len(S) >= 1 /\ DOMAIN S = 1..(b + 1)
      /\ b \in Nat /\ b + 1 \in DOMAIN imuQ
  <2>1. b \in Nat /\ b + 1 \in 1..Len(imuQ)
    BY <1>2, <1>4
  <2>2. Len(S) \in Nat /\ Len(S) >= 1
    BY <1>6, <2>1
  <2>3. S # <<>> /\ DOMAIN S = 1..Len(S)
    BY <1>6, <2>2, SeqFacts
  <2> QED  BY <1>4, <1>6, <2>1, <2>2, <2>3
<1>9. \A j \in 1..(b + 1) : S[j] = imuQ[j] /\ j \in DOMAIN imuQ
  <2> TAKE j \in 1..(b + 1)
  <2>1. j \in 1..Len(imuQ)
    BY <1>4, <1>8
  <2> QED  BY <1>4, <1>6, <2>1
<1>10. \A j \in 1..(Len(S) - 1) : S[j] < max
  <2> TAKE j \in 1..(Len(S) - 1)
  <2>1. j \in 1..b /\ j \in 1..(b + 1)
    BY <1>6, <1>8
  <2> QED  BY <1>5, <1>9, <2>1
<1>11. S[Len(S)] >= max /\ S[Len(S)] = imuQ[b + 1]
  <2>1. b + 1 \in 1..(b + 1)
    BY <1>8
  <2> QED  BY <1>2, <1>6, <2>1
<1>12. \A i, j \in DOMAIN S : i < j => S[i] <= S[j]
  BY <1>1, <1>8, <1>9 DEF SamplesBetween
<1>13. \A j \in DOMAIN S : popped <= S[j] /\ 0 <= S[j] + startTime
  <2> TAKE j \in DOMAIN S
  <2>1. S[j] = imuQ[j] /\ j \in DOMAIN imuQ /\ imuQ[j] \in Int
    BY <1>4, <1>8, <1>9
  <2>2. popped + startTime <= imuQ[j] + startTime
    BY <1>1, <2>1 DEF SamplesBetween
  <2> QED  BY <1>1, <2>1, <2>2
<1>14. Ahead(S)
  BY <1>1, <1>8, <1>9 DEF Ahead
<1>15. \A k \in 1..Len(L) : L[k] = imuQ[b + k] /\ b + k \in DOMAIN imuQ /\ (k = 1 \/ b + 1 < b + k)
  <2> TAKE k \in 1..Len(L)
  <2>1. b + k \in 1..Len(imuQ) /\ (k = 1 \/ b + 1 < b + k)
    BY <1>4, <1>7, <1>8
  <2> QED  BY <1>4, <1>7, <2>1
<1>16. L # <<>> /\ DOMAIN L = 1..Len(L)
  <2>1. Len(L) >= 1
    BY <1>2, <1>4, <1>7
  <2> QED  BY <1>7, <2>1, SeqFacts
<1>17. \A k \in DOMAIN L : S[Len(S)] <= L[k]
  <2> TAKE k \in DOMAIN L
  <2>1. L[k] = imuQ[b + k] /\ b + k \in DOMAIN imuQ /\ (k = 1 \/ b + 1 < b + k)
    BY <1>15, <1>16
  <2>2. CASE k = 1
    <3>1. L[k] = imuQ[b + 1] /\ imuQ[b + 1] \in Int
      BY <1>4, <1>8, <2>1, <2>2
    <3> QED  BY <1>11, <3>1
  <2>3. CASE b + 1 < b + k
    BY <1>1, <1>8, <1>11, <2>1, <2>3 DEF SamplesBetween
  <2> QED  BY <2>1, <2>2, <2>3
<1>18. Ahead(L)
  BY <1>1, <1>15, <1>16 DEF Ahead
<1> QED
  BY <1>2, <1>3, <1>6, <1>8, <1>10, <1>11, <1>12, <1>13, <1>14, <1>16, <1>17, <1>18
  DEF max, S, L

(* The points of a group lie in the window it was popped for.              *)
LEMMA PoppedWindowFacts ==
  ASSUME IInv, NEW max \in Int
  PROVE  /\ PoppedPoints(max) \subseteq Int /\ \A p \in PoppedPoints(max) : p <= max
         /\ ~SplitPulses => \A p \in PoppedPoints(max) : p > popped
<1>1. ScansInOrder(lidarQ)
  BY DEF IInv, StreamsOK, StreamsBetween, ScansBetween
<1>2. \A p \in PoppedPoints(max) : p \in Int /\ p <= max /\ \E k \in DOMAIN lidarQ : p \in lidarQ[k]
  BY <1>1, PoppedPointsFacts
<1> QED  BY <1>2 DEF IInv, PointsOK

LEMMA SyncMeasuresKeeps ==
  ASSUME IInv, MarginAssumption, PipelineAssumption, SyncMeasures
  PROVE  IInv'
<1> DEFINE img == Head(imageQ)
           max == img.t
           points == PoppedPoints(max)
           samples == PoppedImu(max)
           new == [stage |-> "synced", frame |-> img.n, t |-> max, points |-> points,
                   imu |-> samples, poses |-> <<>>, cloud |-> {}]
<1>1. /\ calibrated /\ group = NoGroup /\ Ready /\ popped' = max
      /\ imageQ' = Tail(imageQ) /\ lidarQ' = LidarLeft(max) /\ imuQ' = ImuLeft(max)
      /\ group' = IF points # {} /\ samples # <<>> THEN new ELSE NoGroup
      /\ UNCHANGED <<latestImage, latestLidar, latestImu, startTime, nImages, calibrated, lastSample>>
      /\ UNCHANGED <<headSeeded, integrated, firstStamp, passed, budget>>
  BY DEF SyncMeasures, PopFront
<1>2. StreamsBetween(imageQ, lidarQ, imuQ, startTime, popped + startTime,
                     latestImage, latestLidar, latestImu)
      /\ integrated \in Int /\ popped \in Int /\ integrated <= popped /\ startTime \in Nat
      /\ nImages \in Nat /\ calibrated \in BOOLEAN
  BY DEF IInv, StreamsOK, StartOK, StreamsBetween
<1>3. StreamsBetween(Tail(imageQ), LidarLeft(max), ImuLeft(max), startTime, max + startTime,
                     latestImage, latestLidar, latestImu)
  BY <1>1, <1>2, PoppedStreams
<1>4. LET m == Len(samples)
      IN  /\ max \in Int /\ popped <= max
          /\ samples \in Seq(Int) /\ samples # <<>> /\ m \in Nat /\ m >= 1
          /\ \A j \in 1..(m - 1) : samples[j] < max
          /\ samples[m] >= max
          /\ \A i, j \in DOMAIN samples : i < j => samples[i] <= samples[j]
          /\ \A j \in DOMAIN samples : popped <= samples[j] /\ 0 <= samples[j] + startTime
          /\ Ahead(samples)
          /\ ImuLeft(max) # <<>>
          /\ \A k \in DOMAIN ImuLeft(max) : samples[m] <= ImuLeft(max)[k]
          /\ Ahead(ImuLeft(max))
  BY <1>1, PoppedGroupFacts
<1>5. /\ points \subseteq Int /\ \A p \in points : p <= max
      /\ ~SplitPulses => \A p \in points : p > popped
  BY <1>4, PoppedWindowFacts
<1>6. \A k \in DOMAIN LidarLeft(max) : \A p \in LidarLeft(max)[k] : p > max
  <2>1. ScansInOrder(lidarQ)
    BY <1>2 DEF StreamsBetween, ScansBetween
  <2> QED  BY <1>4, <2>1, LidarLeftFacts
<1> HIDE DEF points, samples, max, img
<1>7. StreamsOK' /\ PointsOK'
  BY <1>1, <1>3, <1>6 DEF StreamsOK, PointsOK
<1>8. StartOK'
  <2>1. integrated <= max
    BY <1>2, <1>4
  <2> QED  BY <1>1, <1>2, <1>4, <2>1 DEF StartOK
<1>9. HeadOK'
  <2>1. Held' = Held
    BY <1>1 DEF Held
  <2>2. Ahead(imuQ)'
    BY <1>1, <1>4, <2>1 DEF Ahead, Reading
  <2> QED  BY <1>1, <2>1, <2>2 DEF IInv, HeadOK, Reading
<1>10. CASE group' = NoGroup
  <2>1. BudgetOK'
    BY <1>1, <1>10, BudgetUnchanged DEF IInv
  <2> QED  BY <1>7, <1>8, <1>9, <1>10, <2>1, NoGroupKeeps DEF IInv
<1>11. CASE group' = new
  <2> DEFINE g == new
  <2>0. /\ g.stage = "synced" /\ g.t = max /\ g.points = points /\ g.imu = samples
        /\ g.poses = <<>> /\ g.frame = img.n /\ g.cloud = {}
        /\ g = [stage |-> g.stage, frame |-> g.frame, t |-> g.t, points |-> g.points,
                imu |-> g.imu, poses |-> g.poses, cloud |-> g.cloud]
    OBVIOUS
  <2> HIDE DEF g
  <2>1. group' = g
    BY <1>11 DEF g
  <2> HIDE DEF new
  <2>2. GroupShape(g)
    BY <1>4, <1>5, <2>0 DEF GroupShape
  <2>3. EndsAtImage(g)
    BY <1>4, <2>0 DEF EndsAtImage
  <2>4. integrated <= max
    BY <1>2, <1>4
  <2>5. \A j \in DOMAIN samples : integrated <= samples[j] /\ 0 <= samples[j] + startTime
    <3> TAKE j \in DOMAIN samples
    <3>1. samples[j] \in Int /\ popped <= samples[j] /\ 0 <= samples[j] + startTime
      BY <1>4, SeqFacts
    <3> QED  BY <1>2, <3>1
  <2>6. ~SplitPulses => \A p \in points : p > integrated
    BY <1>2, <1>5
  <2>7. GroupOK'
    <3>1. GroupShape(group')
      BY <2>1, <2>2
    <3>2. EndsAtImage(group)'
      BY <2>1, <2>3 DEF EndsAtImage
    <3>3. Ahead(group.imu)'
      BY <1>1, <1>4, <2>0, <2>1 DEF Ahead, Held, Reading
    <3>4. SyncedOK'
      BY <1>1, <1>4, <2>0, <2>1, <2>4, <2>5, <2>6, <3>2, <3>3 DEF SyncedOK
    <3>5. PropagatedOK'
      BY <2>0, <2>1 DEF PropagatedOK
    <3> QED  BY <3>1, <3>4, <3>5 DEF GroupOK, GroupShape
  <2>8. ReadingsBelong'
    <3>1. DOMAIN group'.poses = {}
      BY <2>0, <2>1, EmptySeq
    <3> QED  BY <3>1 DEF ReadingsBelong
  <2>9. DeskewedOK'
    BY <2>0, <2>1 DEF DeskewedOK, EveryPointDeskewed
  <2>10. BudgetOK'
    <3>1. group.stage = "none"
      BY <1>1 DEF NoGroup
    <3> QED  BY <1>1, <2>0, <2>1, <3>1 DEF IInv, BudgetOK
  <2> QED  BY <1>7, <1>8, <1>9, <2>7, <2>8, <2>9, <2>10 DEF IInv
<1> QED  BY <1>1, <1>10, <1>11

(* After propagate() the head sample stands at the image, exact as soon as *)
(* an interval has ended at a sample.                                      *)
LEMMA HeadAfterPropagation ==
  ASSUME IInv, PipelineAssumption, ProcessIMU
  PROVE  HeadOK'
<1> DEFINE m == Len(group.imu)
           s == TailSample(group, m)
<1>1. /\ group.stage = "synced" /\ headSeeded' = TRUE /\ integrated' = group.t
      /\ lastSample' = TailSample(group, TailCount(group))
      /\ firstStamp' = FirstStampThen /\ passed' = PassedThen
      /\ UNCHANGED <<imuQ, latestImu, startTime>>
  BY DEF ProcessIMU, LastTail, FirstStampThen, PassedThen, dqVars
<1>2. /\ m \in Nat /\ m >= 1 /\ TailCount(group) = m /\ group.t \in Int /\ startTime \in Nat
      /\ integrated \in Int /\ integrated <= group.t /\ 1 \in 1..m /\ m \in 1..m
  <2>1. m \in Nat /\ m >= 1
    BY <1>1, SyncedFacts
  <2>2. 1 \in 1..m /\ m \in 1..m
    BY <2>1
  <2> QED  BY <1>1, <2>1, <2>2, SyncedFacts
<1>3. \A j \in 1..m : group.imu[j] \in Int
  BY <1>1, SyncedFacts
<1>4. /\ s.t = group.t /\ s.v \in Int /\ s.v <= Reading(group.imu[m])
      /\ m > 1 \/ passed # NoTime \/ group.imu[1] <= group.t => s.v = Reading(group.t)
      /\ m = 1 /\ passed = NoTime => FirstReading <= s.v
  BY <1>1, <1>2, TailSampleFacts
<1>5. m > 1 => group.imu[1] < group.t
  <2> HAVE m > 1
  <2>1. 1 \in 1..(m - 1)
    BY <1>2
  <2> QED  BY <1>1, <2>1, SyncedFacts
<1>6. group.imu[1] + startTime >= 0 /\ group.imu[1] \in Int
  BY <1>1, <1>2, SyncedFacts
<1>7. /\ imuQ # <<>> /\ \A k \in DOMAIN imuQ : group.imu[m] <= imuQ[k]
  BY <1>1 DEF IInv, GroupOK, SyncedOK
<1>8. SamplesBetween(imuQ, startTime, popped + startTime, latestImu)
  BY DEF IInv, StreamsOK, StreamsBetween
<1>9. /\ imuQ \in Seq(Int) /\ Len(imuQ) \in DOMAIN imuQ
      /\ \A k \in DOMAIN imuQ : imuQ[k] \in Int
      /\ imuQ[Len(imuQ)] + startTime = latestImu /\ latestImu \in Int
  <2>1. imuQ \in Seq(Int) /\ imuQ[Len(imuQ)] + startTime = latestImu
    BY <1>7, <1>8 DEF SamplesBetween
  <2>2. Len(imuQ) \in DOMAIN imuQ /\ \A k \in DOMAIN imuQ : imuQ[k] \in Int
    BY <1>7, <2>1, SeqFacts
  <2> QED  BY <1>2, <2>1, <2>2
<1>10. /\ firstStamp \in Int /\ passed \in Int
       /\ passed # NoTime => passed <= integrated + startTime
  BY DEF IInv, HeadOK
<1> HIDE DEF s, m
<1>11. lastSample' = s /\ lastSample' = [t |-> group.t, v |-> s.v]
  <2>1. lastSample' = s
    BY <1>1, <1>2 DEF s
  <2>2. TailSample(group, m) = [t |-> TailSample(group, m).t, v |-> TailSample(group, m).v]
    BY DEF TailSample, Scaled, Interpolated
  <2> QED  BY <1>4, <2>1, <2>2 DEF s
<1>12. firstStamp' \in Int /\ passed' \in Int
  BY <1>1, <1>2, <1>6, <1>10 DEF FirstStampThen, PassedThen
<1>13. ASSUME passed' # NoTime
       PROVE  passed' <= group.t + startTime /\ s.v = Reading(group.t)
  <2>1. CASE passed # NoTime
    <3>1. passed' = passed
      BY <1>1, <2>1 DEF PassedThen
    <3> QED  BY <1>2, <1>4, <1>10, <2>1, <3>1
  <2>2. CASE passed = NoTime
    <3>1. group.imu[1] <= group.t /\ passed' = group.imu[1] + startTime
      BY <1>1, <1>13, <2>2 DEF PassedThen
    <3> QED  BY <1>2, <1>4, <1>6, <3>1
  <2> QED  BY <2>1, <2>2
<1>14. ASSUME passed' = NoTime
       PROVE  /\ passed = NoTime /\ m = 1 /\ group.imu[1] > group.t
              /\ AccScale * firstStamp' <= s.v
  <2>1. passed = NoTime
    BY <1>1, <1>14 DEF PassedThen
  <2>2. ~(group.imu[1] <= group.t)
    <3>1. group.imu[1] <= group.t => passed' = group.imu[1] + startTime
      BY <1>1, <2>1 DEF PassedThen
    <3> QED  BY <1>2, <1>6, <1>14, <3>1 DEF NoTime
  <2>3. m = 1 /\ group.imu[1] > group.t
    BY <1>2, <1>5, <1>6, <2>2
  <2>4. AccScale * firstStamp' = FirstReading
    BY <1>1 DEF FirstStampThen, FirstReading, Reading
  <2> QED  BY <1>4, <2>1, <2>3, <2>4
<1>15. ASSUME passed' = NoTime, NEW k \in DOMAIN imuQ
       PROVE  imuQ[k] > group.t /\ s.v <= Reading(imuQ[k])
  <2>1. group.imu[1] <= imuQ[k] /\ group.imu[1] > group.t /\ imuQ[k] \in Int /\ m = 1
    BY <1>7, <1>9, <1>14, <1>15 DEF m
  <2>2. /\ Reading(group.imu[1]) \in Int /\ Reading(imuQ[k]) \in Int
        /\ Reading(group.imu[1]) <= Reading(imuQ[k])
    BY <1>2, <1>6, <2>1, ReadingFacts
  <2> QED  BY <1>2, <1>4, <1>6, <2>1, <2>2
<1>16. ASSUME passed' = NoTime
       PROVE  latestImu > group.t + startTime /\ s.v <= AccScale * latestImu
  <2>1. imuQ[Len(imuQ)] > group.t /\ s.v <= Reading(imuQ[Len(imuQ)])
    BY <1>9, <1>15, <1>16
  <2>2. Reading(imuQ[Len(imuQ)]) = AccScale * latestImu
    BY <1>9 DEF Reading
  <2>3. PICK x \in Int : x = imuQ[Len(imuQ)]
    BY <1>9
  <2>4. x > group.t /\ x + startTime = latestImu
    BY <1>9, <2>1, <2>3
  <2>5. latestImu > group.t + startTime
    <3>1. group.t \in Int /\ startTime \in Int
      BY <1>2
    <3> QED  BY <2>4, <3>1
  <2>6. s.v <= AccScale * latestImu
    BY <2>1, <2>2
  <2> QED  BY <2>5, <2>6
<1>17. Ahead(imuQ)'
  <2> SUFFICES ASSUME passed' = NoTime, NEW k \in DOMAIN imuQ
               PROVE  imuQ[k] > integrated' /\ lastSample'.v <= Reading(imuQ[k])
    BY <1>1 DEF Ahead, Held, Reading
  <2> QED  BY <1>1, <1>11, <1>15
<1>18. headSeeded' \in BOOLEAN /\ headSeeded'
  BY <1>1
<1>19. passed' # NoTime => lastSample'.v = Reading(integrated)'
  BY <1>1, <1>11, <1>13 DEF Reading
<1>20. Held' => passed' = NoTime
  BY DEF Held
<1> QED
  BY <1>1, <1>4, <1>11, <1>12, <1>13, <1>14, <1>16, <1>17, <1>18, <1>19, <1>20 DEF HeadOK

LEMMA ProcessIMUKeeps ==
  ASSUME IInv, PipelineAssumption, ProcessIMU
  PROVE  IInv'
<1> DEFINE P == Poses(group)
           m == Len(group.imu)
<1>1. /\ group.stage = "synced"
      /\ group' = [group EXCEPT !.stage = "propagated", !.poses = P]
      /\ integrated' = group.t /\ firstStamp' = FirstStampThen /\ passed' = PassedThen
      /\ budget' = Accumulated(group)
      /\ headSeeded' = TRUE
      /\ UNCHANGED <<imageQ, lidarQ, imuQ, startTime, latestImage, latestLidar, latestImu>>
      /\ UNCHANGED <<nImages, calibrated, popped>>
  BY DEF ProcessIMU, FirstStampThen, PassedThen, dqVars
<1>2. GroupShape(group) /\ group # NoGroup /\ SyncedOK /\ group.t = popped
  BY <1>1, SyncedFacts DEF IInv, GroupOK, SyncedOK, NoGroup
<1>3. /\ Tiles(P, integrated, group.t) /\ DOMAIN P = 1..m
  BY <1>1, PosesFacts
<1>4. \A k \in DOMAIN P :
        /\ Right(P[k].head, P[k].t, passed', firstStamp', group.imu[k])
        /\ Right(P[k].tail, P[k].t + P[k].dt, passed', firstStamp', group.imu[k])
  BY <1>1, ReadingsThen
<1> HIDE DEF P, m
<1>5. /\ group'.stage = "propagated" /\ group'.frame = group.frame /\ group'.t = group.t
      /\ group'.points = group.points /\ group'.imu = group.imu /\ group'.poses = P
      /\ group'.cloud = group.cloud
      /\ group' = [stage |-> group'.stage, frame |-> group'.frame, t |-> group'.t,
                   points |-> group'.points, imu |-> group'.imu, poses |-> group'.poses,
                   cloud |-> group'.cloud]
  BY <1>1, <1>2 DEF GroupShape
<1>6. StreamsOK' /\ PointsOK'
  BY <1>1 DEF IInv, StreamsOK, PointsOK
<1>7. StartOK'
  BY <1>1, <1>2 DEF IInv, StartOK
<1>8. GroupOK'
  <2>1. GroupShape(group)'
    BY <1>2, <1>5 DEF GroupShape
  <2>2. SyncedOK'
    BY <1>5 DEF SyncedOK
  <2>3. P[1].t = integrated
    BY <1>3 DEF Tiles
  <2>4. Tiles(P, P[1].t, group.t)
    BY <1>3, <2>3
  <2>5. ~SplitPulses => \A p \in group.points : p > P[1].t
    BY <1>1, <1>2, <2>3 DEF SyncedOK
  <2>6. Tiles(group.poses, group.poses[1].t, group.t)'
    BY <1>5, <2>4 DEF Tiles
  <2>7. PropagatedOK'
    BY <1>1, <1>2, <1>5, <2>5, <2>6 DEF PropagatedOK
  <2> QED  BY <2>1, <2>2, <2>7 DEF GroupOK
<1>9. ReadingsBelong'
  BY <1>1, <1>4, <1>5 DEF ReadingsBelong, Right, Reading, Scaled
<1>10. BudgetOK'
  <2> SUFFICES ASSUME ~Combined PROVE BudgetOK'
    BY DEF BudgetOK
  <2>1. budget.frames = {}
    BY <1>1 DEF IInv, BudgetOK
  <2>2. budget' = [frames |-> {group.frame}, before |-> group.frame, primed |-> TRUE]
    <3>1. {} \cup {group.frame} = {group.frame}
      OBVIOUS
    <3> QED  BY <1>1, <2>1, <3>1 DEF Accumulated
  <2> QED  BY <1>5, <2>2 DEF BudgetOK
<1>11. DeskewedOK'
  BY <1>5 DEF DeskewedOK, EveryPointDeskewed
<1> QED
  BY <1>6, <1>7, <1>8, <1>9, <1>10, <1>11, HeadAfterPropagation DEF IInv

(* A point after the first pose and no later than the image belongs to the *)
(* one pose whose interval it lies in.                                     *)
LEMMA BracketFacts ==
  ASSUME NEW g, NEW to \in Int, Tiles(g.poses, g.poses[1].t, to),
         NEW p \in Int, g.poses[1].t < p, p <= to
  PROVE  \E k \in DOMAIN g.poses :
           /\ Bracket(g, p) = {k}
           /\ g.poses[k].t < p /\ p <= g.poses[k].t + g.poses[k].dt
<1> DEFINE P == g.poses
           m == Len(P)
           K == {k \in DOMAIN P : P[k].t < p}
           D == {m - k : k \in K}
<1>1. /\ P \in Seq(PoseRecords) /\ m \in Nat /\ m >= 1 /\ DOMAIN P = 1..m
      /\ \A k \in 1..m : P[k].t \in Int /\ P[k].dt \in Int
  <2>1. P \in Seq(PoseRecords) /\ m >= 1
    BY DEF Tiles, PoseRecords
  <2>2. m \in Nat /\ DOMAIN P = 1..m /\ \A k \in DOMAIN P : P[k] \in PoseRecords
    BY <2>1, SeqFacts
  <2> QED  BY <2>1, <2>2 DEF PoseRecords
<1>2. D \subseteq Nat /\ D # {}
  <2>1. 1 \in K
    BY <1>1
  <2>2. \A k \in K : m - k \in Nat
    BY <1>1
  <2> QED  BY <2>1, <2>2
<1>3. PICK d \in D : \A e \in D : d <= e
  <2> HIDE DEF D
  <2> QED  BY <1>2, LeastNat
<1>4. PICK k \in K : d = m - k
  OBVIOUS
<1>5. \A j \in K : j <= k
  <2> TAKE j \in K
  <2>1. m - k <= m - j
    BY <1>3, <1>4
  <2> QED  BY <1>1, <2>1
<1> HIDE DEF D
<1>6. Bracket(g, p) = {k}
  <2>1. k \in Bracket(g, p)
    BY <1>5 DEF Bracket
  <2>2. ASSUME NEW j \in Bracket(g, p) PROVE j = k
    <3>1. j \in K /\ k <= j
      BY DEF Bracket
    <3>2. j <= k /\ j \in Int /\ k \in Int
      BY <1>1, <1>5, <3>1
    <3> QED  BY <3>1, <3>2
  <2> QED  BY <2>1, <2>2
<1>7. p <= P[k].t + P[k].dt
  <2>1. CASE k = m
    BY <2>1 DEF Tiles
  <2>2. CASE k # m
    <3>1. k \in 1..(m - 1) /\ k + 1 \in 1..m /\ ~(k + 1 <= k)
      BY <1>1, <2>2
    <3>2. ~(P[k + 1].t < p)
      BY <1>1, <1>5, <3>1
    <3>3. P[k].t + P[k].dt = P[k + 1].t /\ P[k + 1].t \in Int
      BY <1>1, <3>1 DEF Tiles
    <3> QED  BY <3>2, <3>3
  <2> QED  BY <2>1, <2>2
<1> QED  BY <1>1, <1>6, <1>7

LEMMA DeskewKeeps ==
  ASSUME IInv, DeskewAndDownsample
  PROVE  IInv'
<1> DEFINE C == UNION {{[p |-> p, pose |-> group.poses[k]] : k \in Bracket(group, p)} :
                         p \in group.points}
<1>1. /\ group.stage = "propagated"
      /\ group' = [group EXCEPT
           !.stage = IF Unmatched(group) = {} THEN "deskewed" ELSE "aborted", !.cloud = C]
      /\ UNCHANGED <<dqVars, nImages, calibrated, popped, lastSample, headSeeded>>
      /\ UNCHANGED <<integrated, firstStamp, passed, budget>>
  BY DEF DeskewAndDownsample
<1>2. group # NoGroup /\ GroupShape(group) /\ PropagatedOK
  BY <1>1 DEF IInv, GroupOK, NoGroup
<1> DEFINE now == IF Unmatched(group) = {} THEN "deskewed" ELSE "aborted"
<1> HIDE DEF C
<1>3. /\ group'.stage = now /\ group'.frame = group.frame /\ group'.t = group.t
      /\ group'.points = group.points /\ group'.imu = group.imu /\ group'.poses = group.poses
      /\ group'.cloud = C
      /\ group' = [stage |-> group'.stage, frame |-> group'.frame, t |-> group'.t,
                   points |-> group'.points, imu |-> group'.imu, poses |-> group'.poses,
                   cloud |-> group'.cloud]
  BY <1>1, <1>2 DEF GroupShape
<1>4. now \in {"deskewed", "aborted"}
  OBVIOUS
<1>5. /\ UNCHANGED <<imageQ, lidarQ, imuQ, startTime, latestImage, latestLidar, latestImu>>
      /\ UNCHANGED <<nImages, calibrated, popped>>
      /\ UNCHANGED <<lastSample, headSeeded, integrated, firstStamp, passed, budget>>
  BY <1>1 DEF dqVars
<1>6. StreamsOK' /\ PointsOK'
  BY <1>5 DEF IInv, StreamsOK, PointsOK
<1>7. StartOK'
  BY <1>2, <1>5 DEF IInv, StartOK
<1>8. HeadOK'
  BY <1>5, HeadUnchanged DEF IInv
<1>9. DeskewedOK'
  <2> SUFFICES ASSUME ~SplitPulses PROVE EveryPointDeskewed'
    BY DEF DeskewedOK
  <2>1. ASSUME NEW p \in group.points
        PROVE  \E k \in DOMAIN group.poses :
                 /\ Bracket(group, p) = {k}
                 /\ group.poses[k].t < p /\ p <= group.poses[k].t + group.poses[k].dt
    <3>1. /\ group.t \in Int /\ p \in Int /\ p <= group.t
          /\ Tiles(group.poses, group.poses[1].t, group.t) /\ p > group.poses[1].t
      BY <1>1, <1>2 DEF GroupShape, PropagatedOK
    <3>2. group.poses[1].t < p
      <4>1. group.poses[1].t \in Int
        <5>1. /\ group.poses \in Seq([t : Int, head : Int, tail : Int, dt : Int])
              /\ Len(group.poses) >= 1
          BY <3>1 DEF Tiles
        <5>2. /\ 1 \in DOMAIN group.poses
              /\ group.poses[1] \in [t : Int, head : Int, tail : Int, dt : Int]
          <6> DEFINE R == [t : Int, head : Int, tail : Int, dt : Int]
          <6> HIDE DEF R
          <6>1. group.poses \in Seq(R) /\ Len(group.poses) >= 1
            BY <5>1 DEF R
          <6>2. 1 \in DOMAIN group.poses /\ group.poses[1] \in R
            BY <6>1, SeqFacts
          <6> QED  BY <6>2 DEF R
        <5> QED  BY <5>2
      <4> QED  BY <3>1, <4>1
    <3> QED  BY <3>1, <3>2, BracketFacts
  <2>2. now = "deskewed"
    <3>1. Unmatched(group) = {}
      BY <2>1 DEF Unmatched
    <3> QED  BY <3>1
  <2>3. ASSUME NEW p \in group.points
        PROVE  \E c \in C : /\ c.p = p
                            /\ c.pose.t < p /\ p <= c.pose.t + c.pose.dt
                            /\ \A d \in C : d.p = p => d = c
    <3>1. PICK k \in DOMAIN group.poses :
            /\ Bracket(group, p) = {k}
            /\ group.poses[k].t < p /\ p <= group.poses[k].t + group.poses[k].dt
      BY <2>1
    <3> DEFINE c == [p |-> p, pose |-> group.poses[k]]
    <3>2. c \in C
      BY <3>1 DEF C
    <3>3. ASSUME NEW d \in C, d.p = p PROVE d = c
      <4>0. PICK q \in group.points : \E j \in Bracket(group, q) :
              d = [p |-> q, pose |-> group.poses[j]]
        BY DEF C
      <4>1. PICK j \in Bracket(group, q) : d = [p |-> q, pose |-> group.poses[j]]
        BY <4>0
      <4>2. q = p
        BY <3>3, <4>1
      <4>3. j = k
        BY <3>1, <4>1, <4>2
      <4> QED  BY <4>1, <4>2, <4>3
    <3>4. c.p = p /\ c.pose = group.poses[k]
      OBVIOUS
    <3> HIDE DEF c
    <3> QED  BY <3>1, <3>2, <3>3, <3>4
  <2> HIDE DEF now
  <2> QED  BY <1>3, <2>2, <2>3 DEF EveryPointDeskewed
<1>10. GroupOK'
  <2> HIDE DEF now
  <2>1. GroupShape(group)'
    BY <1>2, <1>3, <1>4 DEF GroupShape
  <2>2. SyncedOK'
    BY <1>3, <1>4 DEF SyncedOK
  <2>3. Tiles(group.poses, group.poses[1].t, group.t)'
    BY <1>1, <1>2, <1>3 DEF PropagatedOK, Tiles
  <2>4. PropagatedOK'
    BY <1>1, <1>2, <1>3, <1>5, <2>3 DEF PropagatedOK
  <2> QED  BY <2>1, <2>2, <2>4 DEF GroupOK
<1>11. ReadingsBelong'
  <2> HIDE DEF now
  <2> QED  BY <1>2, <1>3, <1>5 DEF IInv, ReadingsBelong, Scaled
<1>12. BudgetOK'
  <2> HIDE DEF now
  <2> QED  BY <1>1, <1>3, <1>4, <1>5 DEF IInv, BudgetOK
<1> QED  BY <1>6, <1>7, <1>8, <1>9, <1>10, <1>11, <1>12 DEF IInv

LEMMA EstimateKeeps ==
  ASSUME IInv, Estimate
  PROVE  IInv'
<1>1. /\ group.stage = "deskewed" /\ group' = NoGroup
      /\ UNCHANGED <<imageQ, lidarQ, imuQ, startTime, latestImage, latestLidar, latestImu>>
      /\ UNCHANGED <<nImages, calibrated, popped>>
      /\ UNCHANGED <<lastSample, headSeeded, integrated, firstStamp, passed>>
  BY DEF Estimate, dqVars
<1>2. StreamsOK' /\ PointsOK' /\ StartOK'
  BY <1>1 DEF IInv, StreamsOK, PointsOK, StartOK
<1>3. HeadOK'
  BY <1>1, HeadUnchanged DEF IInv
<1>4. BudgetOK'
  <2> SUFFICES ASSUME ~Combined PROVE BudgetOK'
    BY DEF BudgetOK
  <2>1. /\ budget.primed = TRUE
        /\ budget = [frames |-> budget.frames, before |-> budget.before, primed |-> budget.primed]
    BY <1>1 DEF IInv, BudgetOK
  <2>2. budget' = BudgetRead
    BY <2>1 DEF Estimate
  <2>3. budget' = [frames |-> {}, before |-> budget.before, primed |-> FALSE]
    BY <2>1, <2>2 DEF BudgetRead
  <2>4. group'.stage = "none"
    BY <1>1 DEF NoGroup
  <2> QED  BY <2>3, <2>4 DEF BudgetOK
<1> QED  BY <1>1, <1>2, <1>3, <1>4, NoGroupKeeps DEF IInv

LEMMA StutterKeeps ==
  ASSUME IInv, UNCHANGED vars
  PROVE  IInv'
<1>1. /\ UNCHANGED <<imageQ, lidarQ, imuQ, startTime, latestImage, latestLidar, latestImu>>
      /\ UNCHANGED <<nImages, calibrated, popped>>
      /\ UNCHANGED <<group, budget>>
      /\ UNCHANGED <<lastSample, headSeeded, integrated, firstStamp, passed>>
  BY DEF vars, dqVars, pipelineVars
<1>2. StreamsOK' /\ PointsOK' /\ StartOK'
  BY <1>1 DEF IInv, StreamsOK, PointsOK, StartOK
<1>3. HeadOK' /\ BudgetOK'
  BY <1>1, HeadUnchanged, BudgetUnchanged DEF IInv
<1>4. GroupOK'
  BY <1>1 DEF IInv, GroupOK, GroupShape, SyncedOK, EndsAtImage, Ahead, Held, Reading,
              PropagatedOK, Tiles
<1>5. ReadingsBelong' /\ DeskewedOK'
  BY <1>1 DEF IInv, ReadingsBelong, Scaled, DeskewedOK, EveryPointDeskewed
<1> QED  BY <1>2, <1>3, <1>4, <1>5 DEF IInv

-----------------------------------------------------------------------------
(***************************************************************************)
(* The theorems.                                                           *)
(***************************************************************************)

\* The invariant holds throughout: one step per action.
THEOREM PipelineInvariant == Spec => []IInv
<1>1. Init => IInv
  BY InitIInv
<1>2. IInv /\ [Next]_vars => IInv'
  <2> SUFFICES ASSUME IInv, [Next]_vars PROVE IInv'
    OBVIOUS
  <2>0. MarginAssumption /\ PipelineAssumption
    BY MarginAssumption, PipelineAssumption
  <2>1. ASSUME NEW t \in Stamps, ImuCallback(t) PROVE IInv'
    BY <2>0, <2>1, ImuCallbackKeeps
  <2>2. ASSUME NEW t \in ImageStamps, ImageCallback(t) PROVE IInv'
    BY <2>0, <2>2, ImageCallbackKeeps
  <2>3. ASSUME NEW a \in Stamps, NEW b \in Stamps, b - a \in 0..ScanLength, LidarCallback({a, b})
        PROVE  IInv'
    <3>1. Horizon \in Nat /\ ScanLength \in Nat
      BY <2>0 DEF PipelineAssumption
    <3>2. a \in Nat /\ b \in Nat /\ a <= b
      BY <2>3, <3>1 DEF Stamps
    <3>3. {a, b} \subseteq Nat /\ HasEnds({a, b})
      BY <3>2 DEF HasEnds
    <3> QED  BY <2>0, <2>3, <3>3, LidarCallbackKeeps
  <2>4. CASE Calibrate
    BY <2>0, <2>4, CalibrateKeeps
  <2>5. CASE SyncMeasures
    BY <2>0, <2>5, SyncMeasuresKeeps
  <2>6. CASE ProcessIMU
    BY <2>0, <2>6, ProcessIMUKeeps
  <2>7. CASE DeskewAndDownsample
    BY <2>7, DeskewKeeps
  <2>8. CASE Estimate
    BY <2>8, EstimateKeeps
  <2>9. CASE UNCHANGED vars
    BY <2>9, StutterKeeps
  <2> QED  BY <2>1, <2>2, <2>3, <2>4, <2>5, <2>6, <2>7, <2>8, <2>9 DEF Next
<1> QED  BY <1>1, <1>2, PTL DEF Spec

\* Every reading integrated is the one of its own instant (propagate()).
THEOREM ReadingsCorrect == Spec => []ReadingsBelong
<1>1. IInv => ReadingsBelong
  BY DEF IInv
<1> QED  BY <1>1, PipelineInvariant, PTL

\* What propagation integrates and accounts for in a frame is that frame's own, where
\* LIO runs in every frame.
THEOREM FrameLocalCorrect ==
  ASSUME ~Combined
  PROVE  Spec => []FrameLocal
<1>1. IInv => FrameLocal
  BY DEF IInv, BudgetOK, FrameLocal, BudgetOfOneFrame
<1> QED  BY <1>1, PipelineInvariant, PTL

\* deskewPoints() finds for every point the one pose whose interval it was measured
\* in, when no scan begins at the instant the one before it ended.
THEOREM PointsDeskewed ==
  ASSUME ~SplitPulses
  PROVE  Spec => []EveryPointDeskewed
<1>1. IInv => EveryPointDeskewed
  BY DEF IInv, DeskewedOK
<1> QED  BY <1>1, PipelineInvariant, PTL

\* The intervals integrated tile the time since the calibration.
THEOREM PosesTileCorrect == Spec => PosesTile
<1> DEFINE Tile == group'.stage = "propagated" /\ group.stage = "synced" =>
                     LET P == group'.poses
                         m == Len(P)
                     IN  /\ P[1].t = integrated
                         /\ \A k \in 1..(m - 1) : P[k].t + P[k].dt = P[k + 1].t
                         /\ \A k \in 1..m : P[k].dt >= 0
                         /\ P[m].t + P[m].dt = group.t
<1>1. ASSUME IInv, [Next]_vars PROVE [Tile]_vars
  <2> SUFFICES ASSUME Next, group'.stage = "propagated", group.stage = "synced" PROVE Tile
    BY <1>1
  <2>1. group # NoGroup /\ group' # group
    BY DEF NoGroup
  <2>2. ProcessIMU
    <3>1. ASSUME NEW t, ImuCallback(t) PROVE FALSE
      BY <2>1, <3>1 DEF ImuCallback, CanReceive
    <3>2. ASSUME NEW t, ImageCallback(t) PROVE FALSE
      BY <2>1, <3>2 DEF ImageCallback, CanReceive
    <3>3. ASSUME NEW scan, LidarCallback(scan) PROVE FALSE
      BY <2>1, <3>3 DEF LidarCallback, CanReceive
    <3>4. ~Calibrate
      BY <2>1 DEF Calibrate
    <3>5. ~SyncMeasures
      BY <2>1 DEF SyncMeasures
    <3>6. ~DeskewAndDownsample /\ ~Estimate
      BY DEF DeskewAndDownsample, Estimate
    <3> QED  BY <3>1, <3>2, <3>3, <3>4, <3>5, <3>6 DEF Next
  <2>3. Tiles(Poses(group), integrated, group.t)
    BY <1>1, PipelineAssumption, PosesFacts
  <2>4. group'.poses = Poses(group)
    <3>1. GroupShape(group)
      BY <1>1, <2>1 DEF IInv, GroupOK
    <3> QED  BY <2>2, <3>1 DEF ProcessIMU, GroupShape
  <2> QED  BY <2>3, <2>4 DEF Tiles
<1>2. IInv /\ [Next]_vars => [Tile]_vars
  BY <1>1
<1>3. Spec => [][Tile]_vars
  <2> HIDE DEF Tile
  <2> QED  BY <1>2, PipelineInvariant, PTL DEF Spec
<1> QED  BY <1>3 DEF PosesTile

-----------------------------------------------------------------------------
(***************************************************************************)
(* The canceller's clock.                                                  *)
(***************************************************************************)

\* The clock of a fit counts at most two periods of every one its stamps cover.
ClockOK ==
  /\ n \in Nat
  /\ freq \in [Lines -> Int] /\ freq = Locked(freq)
  /\ prevT = NoSample => n = 0
  /\ prevT # NoSample => /\ prevT \in Nat /\ fitSince \in Nat
                         /\ n * SamplePeriod <= 2 * (prevT - fitSince)

LEMMA LockedFacts ==
  ASSUME NEW f \in [Lines -> Int], CancellerAssumption
  PROVE  Locked(f) \in [Lines -> Int] /\ Locked(Locked(f)) = Locked(f)
<1>1. SidebandHz \in Int
  BY DEF CancellerAssumption
<1>2. Locked(f) = [l \in Lines |-> CASE l = "lower"  -> f["main"] - SidebandHz
                                     [] l = "upper"  -> f["main"] + SidebandHz
                                     [] l = "double" -> 2 * f["main"]
                                     [] OTHER        -> f[l]]
  BY DEF Locked, Lines
<1>3. f["main"] \in Int /\ \A l \in Lines : f[l] \in Int
  BY DEF Lines
<1>4. Locked(f) \in [Lines -> Int]
  BY <1>1, <1>2, <1>3
<1>5. /\ Locked(f)["main"] = f["main"]
      /\ Locked(f)["lower"] = f["main"] - SidebandHz
      /\ Locked(f)["upper"] = f["main"] + SidebandHz
      /\ Locked(f)["double"] = 2 * f["main"]
  BY <1>2 DEF Lines
<1>6. PICK g \in [Lines -> Int] : g = Locked(f)
  BY <1>4
<1>7. Locked(g) = g
  <2>1. /\ g["lower"] = g["main"] - SidebandHz /\ g["upper"] = g["main"] + SidebandHz
        /\ g["double"] = 2 * g["main"]
    BY <1>5, <1>6
  <2> QED  BY <2>1 DEF Locked, Lines
<1> QED  BY <1>4, <1>6, <1>7

(* lround(dt * fs) periods, but at least one, span at most twice dt when a *)
(* tick is at least half a period.                                         *)
LEMMA StepsFacts ==
  ASSUME NEW t \in Nat, prevT \in Nat, ~ClockBroken(t), SamplePeriod <= 2, CancellerAssumption
  PROVE  Steps(t) \in Nat /\ Steps(t) * SamplePeriod <= 2 * (t - prevT)
<1>1. SamplePeriod \in {1, 2} /\ prevT # NoSample
  BY DEF CancellerAssumption, NoSample
<1>2. PICK dt \in Nat : dt = t - prevT /\ dt >= 1
  BY <1>1 DEF ClockBroken
<1>3. PICK r : r = Rounded(dt)
  OBVIOUS
<1>4. r \in Int /\ r * SamplePeriod <= 2 * dt
  <2>1. CASE SamplePeriod = 1
    <3>1. r = (2 * dt + 1) \div 2
      BY <1>3, <2>1 DEF Rounded
    <3> QED  BY <2>1, <3>1
  <2>2. CASE SamplePeriod = 2
    <3>1. r = (2 * dt + 2) \div 4
      BY <1>3, <2>2 DEF Rounded
    <3> QED  BY <1>2, <2>2, <3>1
  <2> QED  BY <1>1, <2>1, <2>2
<1>5. Steps(t) = IF r < 1 THEN 1 ELSE r
  BY <1>1, <1>2, <1>3 DEF Steps
<1>6. CASE r < 1
  BY <1>1, <1>2, <1>5, <1>6
<1>7. CASE ~(r < 1)
  BY <1>2, <1>4, <1>5, <1>7
<1> QED  BY <1>6, <1>7

(* The clock after a sample, and what it says of the fit's history.        *)
LEMMA ClockFacts ==
  ASSUME ClockOK, NEW t \in Nat, SamplePeriod <= 2, CancellerAssumption
  PROVE  LET since == IF prevT = NoSample \/ ClockBroken(t) THEN t ELSE fitSince
         IN  /\ ClockAfter(t) \in Nat /\ since \in Nat
             /\ ClockAfter(t) * SamplePeriod <= 2 * (t - since)
<1>0. SamplePeriod \in Nat
  BY DEF CancellerAssumption
<1>1. CASE prevT = NoSample \/ ClockBroken(t)
  <2>1. Steps(t) = 0 /\ ClockAfter(t) = 0
    <3>1. Steps(t) = 0
      BY <1>1 DEF Steps
    <3>2. (IF ClockBroken(t) THEN 0 ELSE n) = 0
      BY <1>1 DEF ClockOK
    <3> QED  BY <3>1, <3>2 DEF ClockAfter
  <2> QED  BY <1>0, <1>1, <2>1
<1>2. CASE prevT # NoSample /\ ~ClockBroken(t)
  <2>1. prevT \in Nat /\ fitSince \in Nat /\ n \in Nat /\ n * SamplePeriod <= 2 * (prevT - fitSince)
    BY <1>2 DEF ClockOK
  <2>2. PICK s \in Nat : s = Steps(t) /\ s * SamplePeriod <= 2 * (t - prevT)
    BY <1>2, <2>1, StepsFacts
  <2>3. ClockAfter(t) = n + s
    BY <1>2, <2>2 DEF ClockAfter
  <2>4. (n + s) * SamplePeriod = n * SamplePeriod + s * SamplePeriod
        /\ n * SamplePeriod \in Nat /\ s * SamplePeriod \in Nat
    BY <1>0, <2>1
  <2>5. (n + s) * SamplePeriod <= 2 * (t - fitSince)
    BY <2>1, <2>2, <2>4
  <2> QED  BY <1>2, <2>1, <2>2, <2>3, <2>5
<1> QED  BY <1>1, <1>2

LEMMA ProcessFacts ==
  ASSUME ClockOK, NEW t \in Nat, Process(t), SamplePeriod <= 2, CancellerAssumption
  PROVE  /\ ClockOK'
         /\ freq' # freq => /\ fitSince' # NoSample
                            /\ 2 * (prevT' - fitSince') >= FitHistory * SamplePeriod
<1>0. /\ SamplePeriod \in Nat /\ FitHistory \in Nat
      /\ ExtraHz \in Int /\ MaxDev \in Int /\ Drifts \subseteq Int
  BY DEF CancellerAssumption
<1>1. CASE Diverge
  <2>1. prevT' = NoSample /\ n' = 0 /\ freq' = Locked(freq) /\ freq' = freq
    BY <1>1 DEF Diverge, ClockOK
  <2> QED  BY <2>1 DEF ClockOK
<1>2. CASE Fit(t)
  <2>1. PICK c \in Nat, since \in Nat :
          /\ c = ClockAfter(t) /\ c * SamplePeriod <= 2 * (t - since)
          /\ prevT' = t /\ n' = c /\ fitSince' = since
    BY <1>2, ClockFacts DEF Fit
  <2>2. /\ t # NoSample /\ since # NoSample
    BY DEF NoSample
  <2>3. \/ freq' = Locked(freq)
        \/ /\ c > FitHistory
           /\ \E main, extra \in Drifts : freq' = Tracked(main, extra)
    BY <1>2, <2>1 DEF Fit
  <2>4. CASE freq' = Locked(freq)
    <3>1. freq' = freq
      BY <2>4 DEF ClockOK
    <3> QED  BY <2>1, <2>2, <3>1 DEF ClockOK
  <2>5. CASE c > FitHistory /\ \E main, extra \in Drifts : freq' = Tracked(main, extra)
    <3>1. FitHistory * SamplePeriod <= c * SamplePeriod
      <4>1. PICK d \in Nat : c = FitHistory + d
        BY <1>0, <2>5
      <4>2. c * SamplePeriod = FitHistory * SamplePeriod + d * SamplePeriod
            /\ FitHistory * SamplePeriod \in Nat /\ d * SamplePeriod \in Nat
        BY <1>0, <4>1
      <4> QED  BY <4>2
    <3>2. 2 * (t - since) >= FitHistory * SamplePeriod
      <4>1. FitHistory * SamplePeriod \in Int /\ c * SamplePeriod \in Int
        BY <1>0
      <4> QED  BY <2>1, <3>1, <4>1
    <3>3. freq' \in [Lines -> Int] /\ freq' = Locked(freq')
      <4>1. PICK main \in Int, extra \in Int : freq' = Tracked(main, extra)
        BY <1>0, <2>5
      <4>2. freq \in [Lines -> Int]
        BY DEF ClockOK
      <4> DEFINE g == [freq EXCEPT !["main"] = @ + main, !["extra"] = Clamped(@ + extra)]
      <4>3. Clamped(freq["extra"] + extra) \in Int /\ freq["main"] + main \in Int
        BY <1>0, <4>2 DEF Clamped, Lines
      <4>4. g \in [Lines -> Int]
        BY <4>2, <4>3
      <4>5. freq' = Locked(g)
        BY <4>1 DEF Tracked
      <4> HIDE DEF g
      <4>6. Locked(g) \in [Lines -> Int] /\ Locked(Locked(g)) = Locked(g)
        BY <4>4, LockedFacts
      <4> QED  BY <4>5, <4>6
    <3> QED  BY <2>1, <2>2, <3>2, <3>3 DEF ClockOK
  <2> QED  BY <2>3, <2>4, <2>5
<1> QED  BY <1>1, <1>2 DEF Process

\* A frequency moves only on a fit that ran without a break for the history its time
\* constant asks for (VibrationCanceller::process()), where no two samples are nearer
\* than half a period.
THEOREM HistoryCorrect ==
  ASSUME SamplePeriod <= 2
  PROVE  Spec => TrackedOnHistory
<1> DEFINE OnHistory == freq' # freq => /\ fitSince' # NoSample
                                        /\ 2 * (prevT' - fitSince') >= FitHistory * SamplePeriod
<1>1. Init => ClockOK
  <2> SUFFICES ASSUME Init PROVE ClockOK
    OBVIOUS
  <2>1. n = 0 /\ prevT = NoSample /\ freq = Configured
    BY DEF Init, CancellerInit
  <2>2. [l \in Lines |-> IF l = "extra" THEN ExtraHz ELSE MainHz] \in [Lines -> Int]
    BY CancellerAssumption DEF CancellerAssumption
  <2>3. Configured \in [Lines -> Int] /\ Locked(Configured) = Configured
    BY <2>2, CancellerAssumption, LockedFacts DEF Configured
  <2> QED  BY <2>1, <2>3 DEF ClockOK
<1>2. ASSUME ClockOK, [Next]_vars PROVE ClockOK' /\ OnHistory
  <2>1. CASE UNCHANGED cancellerVars
    BY <1>2, <2>1 DEF cancellerVars, ClockOK, Locked
  <2>2. ASSUME NEW t \in Stamps, ImuCallback(t) PROVE ClockOK' /\ OnHistory
    <3>1. t \in Nat
      BY PipelineAssumption DEF PipelineAssumption, Stamps
    <3>2. Process(t)
      BY <2>2 DEF ImuCallback
    <3> QED  BY <1>2, <3>1, <3>2, CancellerAssumption, ProcessFacts
  <2>3. ASSUME NEW t, ImageCallback(t) PROVE UNCHANGED cancellerVars
    BY <2>3 DEF ImageCallback
  <2>4. ASSUME NEW scan, LidarCallback(scan) PROVE UNCHANGED cancellerVars
    BY <2>4 DEF LidarCallback
  <2>5. Calibrate \/ SyncMeasures \/ ProcessIMU \/ DeskewAndDownsample \/ Estimate
          => UNCHANGED cancellerVars
    BY DEF Calibrate, SyncMeasures, ProcessIMU, DeskewAndDownsample, Estimate
  <2>6. UNCHANGED vars => UNCHANGED cancellerVars
    BY DEF vars
  <2> HIDE DEF OnHistory
  <2> QED  BY <1>2, <2>1, <2>2, <2>3, <2>4, <2>5, <2>6 DEF Next
<1>3. ClockOK /\ [Next]_vars => ClockOK' /\ [OnHistory]_<<freq, fitSince, prevT>>
  BY <1>2
<1>4. Spec => [][OnHistory]_<<freq, fitSince, prevT>>
  <2> HIDE DEF OnHistory
  <2> QED  BY <1>1, <1>3, PTL DEF Spec
<1> QED  BY <1>4 DEF TrackedOnHistory
=============================================================================
