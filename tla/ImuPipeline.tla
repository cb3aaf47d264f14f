----------------------------- MODULE ImuPipeline -----------------------------
(***************************************************************************)
(* The inertial path of a frame, from the IMU callback to the deskewed     *)
(* scan: the vibration canceller and the queue (CbkProc), the measure      *)
(* group, ImuProc::propagate(), the process-noise budget it accumulates,   *)
(* and deskewPoints().                                                     *)
(*                                                                         *)
(* What a sample measures is abstracted to a signal that grows with time:  *)
(* the value of the sample stamped t is t, so a value says when it was     *)
(* measured, and an interpolated one must say the time it stands for.      *)
(* Positions, rotations and covariances are left out.                      *)
(*                                                                         *)
(* The queues and the settled test are those of DataQueues, as in          *)
(* MeasureSync; the canceller is LineCanceller.  Messages arrive while no  *)
(* image is ready, as runOffline() delivers them.                          *)
(***************************************************************************)
EXTENDS DataQueues, LineCanceller

CONSTANTS
  Horizon,      \* bound: stamps are 1..Horizon
  ImageStamps,  \* bound: the stamps images may have
  ScanLength,   \* bound: the longest scan
  MaxImages, MaxScans, MaxImu,   \* bounds: messages per stream
  Jitter,       \* bound: how far behind the newest message an IMU sample may be
  SplitPulses,  \* a scan may begin exactly where the one before it ended
  AccScale,     \* accScale(), set by the calibration
  Combined      \* combined/enable: LIO runs only as the fallback

ASSUME PipelineAssumption ==
  /\ {Horizon, ScanLength, MaxImages, MaxScans, MaxImu, Jitter} \subseteq Nat
  /\ ImageStamps \subseteq 1..Horizon
  /\ AccScale \in Nat \ {0}
  /\ {SplitPulses, Combined} \subseteq BOOLEAN

VARIABLES
  nImages, nScans, nImu,  \* messages received
  calibrated,             \* calib_done
  popped,                 \* time of the image consumed last
  group,                  \* the measure group in work, or NoGroup
  lastSample,             \* last_imu_sample_: time and scaled value
  headSeeded,             \* head_seeded_
  integrated,             \* time the propagated state stands for (history)
  firstStamp,             \* absolute stamp of the first sample integrated (history)
  passed,                 \* and of the first one an interval ended at (history)
  budget                  \* g_qhat_*: frames accumulated, frame of p_before

pipelineVars == <<nImages, nScans, nImu, calibrated, popped, group, lastSample,
                  headSeeded, integrated, firstStamp, passed, budget>>
vars == <<dqVars, cancellerVars, pipelineVars>>

NoGroup == [stage |-> "none"]
NoTime  == -1

Init ==
  /\ DataQueuesInit
  /\ CancellerInit
  /\ nImages = 0 /\ nScans = 0 /\ nImu = 0
  /\ calibrated = FALSE
  /\ popped = 0
  /\ group = NoGroup
  /\ lastSample = [t |-> 0, v |-> 0]
  /\ headSeeded = FALSE
  /\ integrated = 0
  /\ firstStamp = NoTime
  /\ passed = NoTime
  /\ budget = [frames |-> {}, before |-> 0, primed |-> FALSE]

-----------------------------------------------------------------------------
(* Arrivals.                                                               *)

CanReceive(t, late) == group = NoGroup /\ ~Ready /\ t + late >= latestFed

IsValid(t) == ~calibrated \/ t >= popped    \* Measures::isValid()

\* imuCallback(): the canceller sees every valid sample, also one that pushImu()
\* then refuses as old.
ImuCallback(t) ==
  /\ nImu < MaxImu
  /\ CanReceive(t, Jitter)
  /\ IsValid(t)
  /\ nImu' = nImu + 1
  /\ Process(t)
  /\ PushImu(t)
  /\ UNCHANGED <<nImages, nScans, calibrated, popped, group, lastSample, headSeeded,
                 integrated, firstStamp, passed, budget>>

LidarCallback(scan) ==
  /\ nScans < MaxScans
  /\ CanReceive(Latest(scan), 0)
  /\ SplitPulses \/ Earliest(scan) # latestLidar
  /\ nScans' = nScans + 1
  /\ PushLidar(scan)
  /\ UNCHANGED cancellerVars
  /\ UNCHANGED <<nImages, nImu, calibrated, popped, group, lastSample, headSeeded,
                 integrated, firstStamp, passed, budget>>

ImageCallback(t) ==
  /\ nImages < MaxImages
  /\ CanReceive(t, 0)
  /\ t > latestImage
  /\ nImages' = nImages + 1
  /\ PushImage(t, nImages + 1)
  /\ UNCHANGED cancellerVars
  /\ UNCHANGED <<nScans, nImu, calibrated, popped, group, lastSample, headSeeded,
                 integrated, firstStamp, passed, budget>>

-----------------------------------------------------------------------------
(* Consumption.                                                            *)

\* The image that completes the calibration becomes time zero.
Calibrate ==
  LET img == Head(imageQ)
  IN  /\ ~calibrated
      /\ Ready
      /\ calibrated' = TRUE
      /\ SetStartTime(img.t, Tail(imageQ), LidarLeft(img.t), ImuLeft(img.t))
      /\ popped' = 0
      /\ UNCHANGED cancellerVars
      /\ UNCHANGED <<latestImage, latestLidar, latestImu, latestFed, quiet, offlineMode>>
      /\ UNCHANGED <<nImages, nScans, nImu, group, lastSample, headSeeded,
                     integrated, firstStamp, passed, budget>>

\* syncMeasures(): what was popped is lost when points or samples are missing.
SyncMeasures ==
  LET img == Head(imageQ)
      points == PoppedPoints(img.t)
      samples == PoppedImu(img.t)
  IN  /\ calibrated /\ group = NoGroup
      /\ Ready
      /\ PopFront(img.t)
      /\ popped' = img.t
      /\ group' = IF points # {} /\ samples # <<>>
                  THEN [stage |-> "synced", frame |-> img.n, t |-> img.t,
                        points |-> points, imu |-> samples,
                        poses |-> <<>>, cloud |-> {}]
                  ELSE NoGroup
      /\ UNCHANGED cancellerVars
      /\ UNCHANGED <<latestImage, latestLidar, latestImu, latestFed, quiet, startTime, offlineMode>>
      /\ UNCHANGED <<nImages, nScans, nImu, calibrated, lastSample, headSeeded,
                     integrated, firstStamp, passed, budget>>

-----------------------------------------------------------------------------
(* ImuProc::propagate().                                                   *)

\* The group's own copy is scaled; the boundary sample stays raw in the queue.
Scaled(sample) == [t |-> sample, v |-> AccScale * (sample + startTime)]

\* The samples that end an interval: up to the first one past the image.
TailCount(g) ==
  Cardinality({k \in 1..Len(g.imu) : \A j \in 1..(k - 1) : g.imu[j] <= g.t})

InterpolatedBackwards(h, s, t) ==  \* deviation: the two weights exchanged
  [t |-> t, v |-> s.v - ((t - h.t) * (s.v - h.v)) \div (s.t - h.t)]
\* The sample past the image is replaced by the value at the image.
Interpolated(h, s, t) ==
  [t |-> t, v |-> h.v + ((t - h.t) * (s.v - h.v)) \div (s.t - h.t)]

\* The very first interval begins with the first sample's value.
FirstHead(g) ==
  IF headSeeded THEN lastSample ELSE [lastSample EXCEPT !.v = Scaled(g.imu[1]).v]

TailSample(g, k) ==
  LET s == Scaled(g.imu[k])
      h == IF k = 1 THEN FirstHead(g) ELSE Scaled(g.imu[k - 1])
  IN  IF s.t > g.t THEN Interpolated(h, s, g.t) ELSE s

HeadSample(g, k) == IF k = 1 THEN FirstHead(g) ELSE TailSample(g, k - 1)

\* One pose per interval, stamped with its head: the state there, the readings at
\* both ends and the length.
Poses(g) ==
  [k \in 1..TailCount(g) |->
     [t |-> HeadSample(g, k).t, head |-> HeadSample(g, k).v,
      tail |-> TailSample(g, k).v, dt |-> TailSample(g, k).t - HeadSample(g, k).t]]

LastRaw(g) == Scaled(g.imu[TailCount(g)])   \* deviation: the sample, not its value at the image
LastTail(g) == TailSample(g, TailCount(g))

\* p_before is overwritten by every frame, the accumulator is only zeroed by a read.
Accumulated(g) ==
  [frames |-> budget.frames \cup {g.frame}, before |-> g.frame, primed |-> TRUE]

ProcessIMU ==
  /\ group.stage = "synced"
  /\ group' = [group EXCEPT !.stage = "propagated", !.poses = Poses(group)]
  /\ lastSample' = LastTail(group)
  /\ headSeeded' = TRUE
  /\ integrated' = group.t
  /\ firstStamp' = IF headSeeded THEN firstStamp ELSE group.imu[1] + startTime
  /\ passed' = IF passed = NoTime /\ group.imu[1] <= group.t
               THEN group.imu[1] + startTime ELSE passed
  /\ budget' = Accumulated(group)
  /\ UNCHANGED <<dqVars, cancellerVars>>
  /\ UNCHANGED <<nImages, nScans, nImu, calibrated, popped>>

-----------------------------------------------------------------------------
(* deskewPoints().                                                         *)

FirstBracket(g, p) ==      \* deviation: walked from the front
  {k \in DOMAIN g.poses : g.poses[k].t < p /\ \A j \in DOMAIN g.poses : g.poses[j].t < p => k <= j}
\* Poses and points are walked from the back: a point belongs to the last pose that
\* is strictly earlier.
Bracket(g, p) ==
  {k \in DOMAIN g.poses : g.poses[k].t < p /\ \A j \in DOMAIN g.poses : g.poses[j].t < p => j <= k}

\* A point no pose is earlier than is unmatched, and the process aborts.
Unmatched(g) == {p \in g.points : Bracket(g, p) = {}}

DeskewAndDownsample ==
  /\ group.stage = "propagated"
  /\ group' = [group EXCEPT
       !.stage = IF Unmatched(group) = {} THEN "deskewed" ELSE "aborted",
       !.cloud = UNION {{[p |-> p, pose |-> group.poses[k]] : k \in Bracket(group, p)} :
                          p \in group.points}]
  /\ UNCHANGED <<dqVars, cancellerVars>>
  /\ UNCHANGED <<nImages, nScans, nImu, calibrated, popped, lastSample, headSeeded,
                 integrated, firstStamp, passed, budget>>

BudgetRead == [budget EXCEPT !.frames = {}, !.primed = FALSE]

\* The rest of the frame: LIO reads the budget where it writes the posterior.  With
\* the joint filter LIO runs only when the joint correction was rejected.
Estimate ==
  /\ group.stage = "deskewed"
  /\ group' = NoGroup
  /\ \E lio \in IF Combined THEN BOOLEAN ELSE {TRUE} :
       budget' = IF lio /\ budget.primed THEN BudgetRead ELSE budget
  /\ UNCHANGED <<dqVars, cancellerVars>>
  /\ UNCHANGED <<nImages, nScans, nImu, calibrated, popped, lastSample, headSeeded,
                 integrated, firstStamp, passed>>

-----------------------------------------------------------------------------
Stamps == 1..Horizon

Next ==
  \/ \E t \in Stamps : ImuCallback(t)
  \/ \E t \in ImageStamps : ImageCallback(t)
  \/ \E a, b \in Stamps : b - a \in 0..ScanLength /\ LidarCallback({a, b})
  \/ Calibrate
  \/ SyncMeasures
  \/ ProcessIMU
  \/ DeskewAndDownsample
  \/ Estimate

Spec == Init /\ [][Next]_vars

-----------------------------------------------------------------------------
(* Properties.                                                             *)

\* The poses of successive groups tile the time since calibration, without a gap or
\* an overlap, also over images whose group was lost: each group's first interval
\* begins where the last one integrated ended, and its last one ends at the image.
PosesTile ==
  [][group'.stage = "propagated" /\ group.stage = "synced" =>
       LET P == group'.poses
           m == Len(P)
       IN  /\ P[1].t = integrated
           /\ \A k \in 1..(m - 1) : P[k].t + P[k].dt = P[k + 1].t
           /\ \A k \in 1..m : P[k].dt >= 0
           /\ P[m].t + P[m].dt = group.t]_vars

\* Every reading integrated is the one of its own instant, scaled once, although the
\* boundary sample is used by two groups and its value at the image by both.  Until
\* propagation has gone past a sample, the first one's reading stands in; as its group
\* may be followed by lost ones, what is interpolated from there is only known to lie
\* between that reading and the next one.
ReadingsBelong ==
  group # NoGroup =>
    \A k \in DOMAIN group.poses :
      LET pose == group.poses[k]
          right(v, t) ==
            IF passed # NoTime /\ t + startTime >= passed
            THEN v = AccScale * (t + startTime)
            ELSE v \in (AccScale * firstStamp)..Scaled(group.imu[k]).v
      IN  right(pose.head, pose.t) /\ right(pose.tail, pose.t + pose.dt)

\* deskewPoints() never meets a point it cannot match (the process would abort),
\* and moves every point by the one pose whose interval it was measured in.
EveryPointDeskewed ==
  group # NoGroup =>
    /\ group.stage # "aborted"
    /\ group.stage = "deskewed" =>
         \A p \in group.points :
           \E c \in group.cloud :
             /\ c.p = p
             /\ c.pose.t < p /\ p <= c.pose.t + c.pose.dt
             /\ \A d \in group.cloud : d.p = p => d = c

\* What the budget attributes to a frame was accumulated in that frame alone
\* ("A <- F A F^T + cov_w, over one frame").
BudgetOfOneFrame ==
  group.stage \in {"propagated", "deskewed"} =>
    budget.frames = {group.frame} /\ budget.before = group.frame

\* What propagation integrates and accounts for in a frame is that frame's own.
FrameLocal == ReadingsBelong /\ BudgetOfOneFrame

\* "Every point must be matched by construction (poses spans the whole scan window)":
\* not so for a point at the very stamp of the image before, which the assumption of
\* the runs excludes; in no run (README, "Observations").
NeverAborts == group.stage # "aborted"
=============================================================================
