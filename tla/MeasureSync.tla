----------------------------- MODULE MeasureSync ----------------------------
(***************************************************************************)
(* The main thread from the sensor callbacks to the estimator's entry:     *)
(* CbkProc's callbacks, the stationary calibration that eats the first     *)
(* images (CalibProc), syncMeasures() that forms measure groups, and the   *)
(* part of estimateState() that pairs a group with the pose its tracked    *)
(* points are anchored at.  Everything here runs on one thread (spinOnce   *)
(* and the run loop), so a handler is one step; the only concurrent step   *)
(* is Answer, the background tracker, taken from TrackingPipe.             *)
(***************************************************************************)
EXTENDS DataQueues, TrackingPipe

CONSTANTS
  FrameCounts,  \* the values of calib/stationary/num_frames
  MaxTime,      \* bound: stamps are 1..MaxTime
  Jitter,       \* bound: how far a stamp lags the newest stamp fed
  MaxImages, MaxScans, MaxImu,  \* bounds: messages per stream
  MaxMessages   \* bound: messages of all streams together

ASSUME SyncAssumption ==
  /\ FrameCounts \subseteq Nat \ {0}   \* loadParameters() refuses anything else
  /\ MaxTime \in Nat /\ Jitter \in Nat
  /\ MaxImages \in Nat /\ MaxScans \in Nat /\ MaxImu \in Nat /\ MaxMessages \in Nat

VARIABLES
  mode,         \* "calib": the calibration loop, "run": the main loop
  calibDone,    \* Measures::calib_done
  framesToGo,   \* num_frames less calib_frame_stop_.groups_qualifying
  calibImu,     \* calib_imu_samples
  currTime,     \* Measures::curr_time
  groups,       \* Measures::measure_groups
  history,      \* Tracker::anchor_pose_history_: [n, pose] in record order
  nScans, nImu, \* messages received so far (bounds the environment)
  bagDone,      \* runOffline(): feedNextMessage() has returned false
  (* History variables: they are read by properties only. *)
  acceptedImu,  \* samples accepted by pushImu while calibrating
  lastPop,      \* absolute stamp of the image popped last
  skipped,      \* images that never became a group: fed, no result consumed
  lookup        \* outcome of the last resolveAnchorPose()

syncVars == <<mode, calibDone, framesToGo, calibImu, currTime, groups, history,
              nScans, nImu, bagDone, acceptedImu, lastPop, skipped, lookup>>
vars == <<dqVars, pipeVars, syncVars>>

NoLookup == [want |-> NoFrame, hit |-> TRUE, pose |-> NoFrame]
NoResult == [n |-> NoFrame, prev |-> NoFrame]

Stamps == 1..MaxTime
Scans  == {{a, b} : a \in Stamps, b \in Stamps}   \* one point or two

Init ==
  /\ DataQueuesInit
  /\ PipeInit
  /\ mode = "calib"
  /\ calibDone = FALSE
  /\ framesToGo \in FrameCounts
  /\ calibImu = <<>>
  /\ currTime = 0
  /\ groups = <<>>
  /\ history = <<>>
  /\ nScans = 0
  /\ nImu = 0
  /\ bagDone = FALSE
  /\ acceptedImu = <<>>
  /\ lastPop = 0
  /\ skipped = {}
  /\ lookup = NoLookup

-----------------------------------------------------------------------------
(* Sensor callbacks.                                                       *)

\* Measures::isValid(): the absolute stamp against the relative curr_time.
IsValid(t) == ~calibDone \/ t >= currTime

\* Offline, collectSamples() has consumed every ready image before the next read.
CalibrationCaughtUp == offlineMode /\ mode = "calib" => ~Ready

\* A message can be delivered between two turns of the loop: drainOnce() has left no
\* group behind, and the bag (offline) still has a message.
CanReceive(t) ==
  /\ ~bagDone
  /\ groups = <<>>
  /\ CalibrationCaughtUp
  /\ nFed + nScans + nImu < MaxMessages
  /\ t + Jitter >= latestFed

ImageCallback(t) ==
  /\ nFed < MaxImages
  /\ CanReceive(t)
  /\ IsValid(t)
  /\ Feed
  /\ PushImage(t, nFed + 1)
  /\ skipped' = IF t < latestImage THEN skipped \cup {nFed + 1} ELSE skipped
  /\ UNCHANGED <<mode, calibDone, framesToGo, calibImu, currTime, groups,
                 history, nScans, nImu, bagDone, acceptedImu, lastPop, lookup>>

ReceiveScan(points) ==
  /\ points # {}
  /\ CanReceive(Latest(points))
  /\ nScans' = nScans + 1
  /\ PushLidar(points)
  /\ UNCHANGED pipeVars
  /\ UNCHANGED <<mode, calibDone, framesToGo, calibImu, currTime, groups,
                 history, nImu, bagDone, acceptedImu, lastPop, skipped, lookup>>

\* Livox: the end of the scan is checked, then each point.
LidarCallbackMsg(scan) ==
  /\ nScans < MaxScans
  /\ IsValid(Latest(scan))
  /\ ReceiveScan({p \in scan : IsValid(p)})

\* PointCloud2: the header stamp (the start of the scan) is checked first.
LidarCallbackPcl(scan) ==
  /\ nScans < MaxScans
  /\ IsValid(Earliest(scan))
  /\ ReceiveScan({p \in scan : IsValid(p)})

ImuCallback(t) ==
  /\ nImu < MaxImu
  /\ CanReceive(t)
  /\ nImu' = nImu + 1
  /\ IsValid(t)
  /\ PushImu(t)
  /\ acceptedImu' = IF t < latestImu \/ calibDone THEN acceptedImu
                    ELSE Append(acceptedImu, t)
  /\ UNCHANGED pipeVars
  /\ UNCHANGED <<mode, calibDone, framesToGo, calibImu, currTime, groups,
                 history, nScans, bagDone, lastPop, skipped, lookup>>

StreamGoesQuiet(s) ==
  /\ QuietElapses(s)
  /\ UNCHANGED <<pipeVars, syncVars>>

\* runOffline() reaches the end of the bag.
BagEnds ==
  /\ offlineMode
  /\ CanReceive(latestFed)
  /\ bagDone' = TRUE
  /\ UNCHANGED <<dqVars, pipeVars>>
  /\ UNCHANGED <<mode, calibDone, framesToGo, calibImu, currTime, groups,
                 history, nScans, nImu, acceptedImu, lastPop, skipped, lookup>>

TrackerAnswers ==
  /\ Answer
  /\ UNCHANGED <<dqVars, syncVars>>

-----------------------------------------------------------------------------
(* Calibration.                                                            *)

Untrimmed(samples) == samples    \* deviation: the boundary sample is kept

\* What one image adds to the calibration window: every sample up to the
\* boundary sample, which the next group will hand out again.
Trimmed(samples) == SubSeq(samples, 1, Len(samples) - 1)

\* calibFrameStopConsumeGroup()
Qualifies(samples) == Len(samples) >= 2

StillCalibrating == mode = "calib" /\ ~calibDone

\* estimateFromBuffer() with the window complete: the image that completed it becomes
\* time zero.
FinishCalibration(img) ==
  /\ SetStartTime(img.t, Tail(imageQ), LidarLeft(img.t), ImuLeft(img.t))
  /\ currTime' = 0
  /\ calibImu' = <<>>
  /\ acceptedImu' = <<>>

\* One image of collectSamples(); the image that completes the window also
\* runs the rest of estimateFromBuffer().
CalibrateOnImage ==
  LET img      == Head(imageQ)
      samples  == PoppedImu(img.t)
      left     == IF Qualifies(samples) THEN framesToGo - 1 ELSE framesToGo
      complete == left <= 0
  IN  /\ StillCalibrating
      /\ Ready
      /\ framesToGo' = left
      /\ calibDone' = complete
      /\ IF complete
         THEN FinishCalibration(img)
         ELSE /\ PopFront(img.t)
              /\ calibImu' = IF Qualifies(samples)
                             THEN calibImu \o Trimmed(samples) ELSE calibImu
              /\ UNCHANGED <<startTime, currTime, acceptedImu>>
      /\ lastPop' = img.t
      /\ skipped' = skipped \cup {img.n}
      /\ UNCHANGED <<latestImage, latestLidar, latestImu, latestFed, quiet, offlineMode>>
      /\ UNCHANGED pipeVars
      /\ UNCHANGED <<mode, groups, history, nScans, nImu, bagDone, lookup>>

\* run() leaves its calibration loop when calibration is done; runOffline()
\* also when the bag is exhausted.
CalibrationOver == calibDone \/ bagDone

EnterMainLoop ==
  /\ mode = "calib"
  /\ CalibrationOver
  /\ mode' = "run"
  /\ UNCHANGED <<dqVars, pipeVars>>
  /\ UNCHANGED <<calibDone, framesToGo, calibImu, currTime, groups, history,
                 nScans, nImu, bagDone, acceptedImu, lastPop, skipped, lookup>>

-----------------------------------------------------------------------------
(* Main loop: drainOnce().                                                 *)

\* Deviation: the gate is not skipped without a tracker.
GateWithoutTracker == ResultReady

\* The tracker gate: waitReadyFor(0ms), skipped when the pipe never started.
TrackerGate == active => ResultReady

SyncMeasures ==
  LET img     == Head(imageQ)
      points  == PoppedPoints(img.t)
      samples == PoppedImu(img.t)
      success == points # {} /\ samples # <<>>
  IN  /\ mode = "run"
      /\ Ready
      /\ TrackerGate
      /\ PopFront(img.t)
      /\ currTime' = img.t
      /\ IF success
         THEN /\ groups' = Append(groups,
                   [n |-> img.n, t |-> img.t, points |-> points, imu |-> samples,
                    frame |-> IF active THEN Head(results) ELSE NoResult])
              /\ IF active THEN Consume ELSE UNCHANGED pipeVars
              /\ UNCHANGED skipped
         ELSE /\ UNCHANGED <<groups, pipeVars>>
              /\ skipped' = skipped \cup {img.n}
      /\ lastPop' = img.t + startTime
      /\ UNCHANGED <<latestImage, latestLidar, latestImu, latestFed, quiet,
                     startTime, offlineMode>>
      /\ UNCHANGED <<mode, calibDone, framesToGo, calibImu, history, nScans,
                     nImu, bagDone, acceptedImu, lookup>>

\* resolveAnchorPose(): only the front entry is looked at.
AnchorHit(frame) == history # <<>> /\ Head(history).n = frame.prev

\* What is recorded for the next lookup: this group's pose, under the stamp of
\* its tracked frame.
GroupStamped(group) == [n |-> group.n, pose |-> group.n]   \* deviation
PoseRecord(group)   == [n |-> group.frame.n, pose |-> group.n]

\* estimateState() of one popped group: the anchor lookup first, the state
\* of this group's image recorded under the frame's stamp last.
EstimateState ==
  LET group == Head(groups)
      frame == group.frame
      left  == IF AnchorHit(frame) THEN Tail(history) ELSE history
  IN  /\ mode = "run"
      /\ groups # <<>>
      /\ groups' = Tail(groups)
      /\ IF active
         THEN /\ history' = Append(left, PoseRecord(group))
              /\ lookup' = [want |-> frame.prev, hit |-> AnchorHit(frame),
                            pose |-> IF AnchorHit(frame)
                                     THEN Head(history).pose ELSE NoFrame]
         ELSE UNCHANGED <<history, lookup>>
      /\ UNCHANGED <<dqVars, pipeVars>>
      /\ UNCHANGED <<mode, calibDone, framesToGo, calibImu, currTime, nScans,
                     nImu, bagDone, acceptedImu, lastPop, skipped>>

Next ==
  \/ \E t \in Stamps : ImageCallback(t)
  \/ \E scan \in Scans : LidarCallbackMsg(scan) \/ LidarCallbackPcl(scan)
  \/ \E t \in Stamps : ImuCallback(t)
  \/ \E s \in Streams : StreamGoesQuiet(s)
  \/ BagEnds
  \/ TrackerAnswers
  \/ CalibrateOnImage
  \/ EnterMainLoop
  \/ SyncMeasures
  \/ EstimateState

Spec == Init /\ [][Next]_vars

\* The background thread and the run loop both keep going: the thread is only
\* ever blocked while pend is empty, and the loop body is retried for ever.
FairSpec ==
  /\ Spec
  /\ WF_vars(TrackerAnswers)
  /\ WF_vars(CalibrateOnImage)
  /\ WF_vars(EnterMainLoop)
  /\ WF_vars(SyncMeasures)
  /\ WF_vars(EstimateState)

-----------------------------------------------------------------------------
(* Properties.                                                             *)

\* Types, and the ranges the queues' times live in.
TypeOK ==
  /\ imageQ \in Seq([t : Int, n : Nat])
  /\ lidarQ \in Seq(SUBSET Int)
  /\ imuQ \in Seq(Int)
  /\ {latestImage, latestLidar, latestImu, latestFed, startTime} \subseteq Nat
  /\ quiet \in [Streams -> BOOLEAN]
  /\ pend \in Seq(Nat)
  /\ results \in Seq([n : Nat, prev : Nat])
  /\ nFed \in Nat /\ prevChain \in Nat /\ active \in BOOLEAN
  /\ mode \in {"calib", "run"} /\ calibDone \in BOOLEAN /\ bagDone \in BOOLEAN
  /\ framesToGo \in Nat
  /\ calibImu \in Seq(Int) /\ acceptedImu \in Seq(Int)
  /\ currTime \in Int /\ lastPop \in Int
  /\ groups \in Seq([n : Nat, t : Int, points : SUBSET Int, imu : Seq(Int),
                      frame : [n : Nat, prev : Nat]])
  /\ history \in Seq([n : Nat, pose : Nat])
  /\ skipped \subseteq Nat
  /\ lookup \in [want : Nat, hit : BOOLEAN, pose : Nat]

\* Nothing older than the image consumed last is ever queued, on any stream:
\* the settled test, the drop rules of push*() and the start-time shift
\* together make isValid()'s (mis-scaled) check redundant.
NothingStaleQueued ==
  /\ \A k \in DOMAIN imageQ : imageQ[k].t + startTime >= lastPop
  /\ \A k \in DOMAIN lidarQ : \A p \in lidarQ[k] : p + startTime >= lastPop
  /\ \A k \in DOMAIN imuQ : imuQ[k] + startTime >= lastPop

\* A group's IMU samples end with the one sample at or after its image: the
\* integration never stops short of the image, so popImu() cannot come back
\* empty and a failed sync is always LiDAR's fault.
ImuBracketsImage ==
  \A k \in DOMAIN groups :
    LET g == groups[k]
        m == Len(g.imu)
    IN  /\ m > 0
        /\ g.imu[m] >= g.t
        /\ \A j \in 1..(m - 1) : g.imu[j] < g.t

\* Images cut the streams: what is queued comes after the last one consumed, and what
\* a group was given ends with its own.  (All variables have their types.)
QueuesCutAtImages == TypeOK /\ NothingStaleQueued /\ ImuBracketsImage

\* The points of a new group were measured after the image consumed before it
\* and no later than its own image.
LidarWindow ==
  [][Len(groups') > Len(groups) =>
       LET g == groups'[Len(groups')]
       IN  \A p \in g.points : lastPop <= p + startTime /\ p <= g.t]_vars

\* Calibration counts every accepted IMU sample exactly once, although each
\* image hands the boundary sample out again to the next one.
CalibSamplesOnce == ~calibDone => calibImu \o imuQ = acceptedImu

\* No group is estimated before calibration has set the start state, although
\* runOffline() enters the main loop at the end of an uncalibrated bag.
EstimateNeedsCalibration == groups # <<>> => calibDone

\* Calibration comes first, and is fed every sample once.
CalibrationWhole == CalibSamplesOnce /\ EstimateNeedsCalibration

\* Every queued image has its result in the pipe or on the way, so the
\* tracker gate in syncMeasures() can never stay closed for ever.
ImagesHaveResults == active => Len(imageQ) <= Len(pend) + Len(results)

\* How far a group's tracked frame trails its image: exactly one frame per
\* earlier image that was dropped by pushImage(), eaten by calibration or
\* lost to a failed sync.
LagIsExactlySkipped ==
  \A k \in DOMAIN groups :
    active => groups[k].frame.n =
                groups[k].n - Cardinality({i \in skipped : i < groups[k].n})

\* The pipe of tracking results keeps pace with the queue of images: none is
\* missing, and each group's lags by what was skipped before it.
ResultsKeepPace == ImagesHaveResults /\ LagIsExactlySkipped

\* resolveAnchorPose() finds the pose of every frame's predecessor.
AnchorAlwaysFound == lookup.hit \/ lookup.want = NoFrame

\* A ready image does not wait for ever: as the images are bounded, one that did would
\* keep its queue ready from some step on.
ReadyImageTaken == []<>~Ready

\* What the comments of tracked_frame.h and measures.h say: the result on a
\* measure group is the one of the group's own image.  Not so after calibration,
\* and in no run (README, "Observations").
TrackedFrameIsGroups ==
  \A k \in DOMAIN groups : active => groups[k].frame.n = groups[k].n
=============================================================================
