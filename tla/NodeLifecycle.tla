---------------------------- MODULE NodeLifecycle ----------------------------
(***************************************************************************)
(* A whole run: src/livo_recon_node.cpp, live (run) or from a bag          *)
(* (runOffline), from calibration to finishRun.                            *)
(*                                                                         *)
(* MeasureSync says how messages become measure groups; here a message     *)
(* that completes a group is all there is, and the tracker holds a group   *)
(* back until it has answered.  Time is not measured: "quiet" may come to  *)
(* mean that auto_terminate_idle_secs have passed since the last pop.      *)
(***************************************************************************)
EXTENDS ExportWriter

CONSTANT MaxGroups   \* bound: groups the bag holds, or the sensors send

ASSUME LifecycleAssumption == MaxGroups \in Nat

VARIABLES
  mode,            \* offline_bag_path_ set, auto_terminate_on_idle_, the tracker, insert_map_after_lio_
  at,              \* where the main thread is
  rosOk,           \* ros::ok()
  calibDone,       \* measures->calib_done
  toCome,          \* groups not yet received
  tracking,        \* groups whose image the tracker still works on
  ready,           \* groups popMeasureGroup() can return
  hand,            \* the group being processed
  popped,          \* groups popped so far; the name of the last one
  frameIdx,        \* voxel_map_->frame_idx_
  insertedAs,      \* history variable: group -> frame index it was inserted under
  quiet            \* idle for auto_terminate_idle_secs_

runVars == <<mode, at, rosOk, calibDone, toCome, tracking, ready, hand, popped, frameIdx, insertedAs, quiet>>
vars    == <<runVars, exportVars>>

Modes ==
  {m \in [offline : BOOLEAN, autoTerminate : BOOLEAN, tracker : BOOLEAN, insertAfterLio : BOOLEAN] :
     m.offline => m.autoTerminate}

None == 0

Init ==
  /\ ExportInit
  /\ mode \in Modes
  /\ at = "calib" /\ rosOk = TRUE /\ calibDone = FALSE
  /\ toCome = MaxGroups /\ tracking = 0 /\ ready = 0
  /\ hand = None /\ popped = 0 /\ frameIdx = 0 /\ insertedAs = <<>> /\ quiet = FALSE

------------------------------------------------------------------------------
(* The CALIB loop.  Offline it reads one message a turn and gives up when  *)
(* there are none left; live it turns until calibration is done.           *)
Calibrate ==
  /\ at = "calib" /\ rosOk /\ ~calibDone
  /\ toCome > 0 /\ toCome' = toCome - 1
  /\ calibDone' \in BOOLEAN
  /\ UNCHANGED <<mode, at, rosOk, tracking, ready, hand, popped, frameIdx, insertedAs, quiet, exportVars>>

CalibrationOver == calibDone \/ ~rosOk \/ (mode.offline /\ toCome = 0)

(* completeCalibrationAndBootstrap: the first frame index goes to the map  *)
(* calibration seeds.                                                      *)
LeaveCalibration ==
  /\ at = "calib" /\ CalibrationOver
  /\ at' = "loop"
  /\ frameIdx' = IF calibDone THEN frameIdx + 1 ELSE frameIdx
  /\ UNCHANGED <<mode, rosOk, calibDone, toCome, tracking, ready, hand, popped, insertedAs, quiet, exportVars>>

------------------------------------------------------------------------------
(* The main loop: receive, drainOnce, and the idle test.                   *)
Receive ==
  /\ at = "loop" /\ rosOk /\ toCome > 0
  /\ toCome' = toCome - 1
  /\ IF ~calibDone THEN UNCHANGED <<tracking, ready>>
     ELSE IF mode.tracker THEN tracking' = tracking + 1 /\ UNCHANGED ready
     ELSE ready' = ready + 1 /\ UNCHANGED tracking
  /\ at' = "drain"
  /\ UNCHANGED <<mode, rosOk, calibDone, hand, popped, frameIdx, insertedAs, quiet, exportVars>>

ReceiveNothing ==
  /\ at = "loop" /\ rosOk
  /\ mode.offline => toCome = 0
  /\ at' = "drain"
  /\ UNCHANGED <<mode, rosOk, calibDone, toCome, tracking, ready, hand, popped, frameIdx, insertedAs, quiet, exportVars>>

TrackerAnswers ==
  /\ tracking > 0 /\ at \notin {"lost", "export", "join", "close", "done", "killed"}
  /\ tracking' = tracking - 1 /\ ready' = ready + 1
  /\ UNCHANGED <<mode, at, rosOk, calibDone, toCome, hand, popped, frameIdx, insertedAs, quiet, exportVars>>

(* updateMap, from estimateState() or from updateMaps().                   *)
Insert(group) ==
  /\ insertedAs' = [g \in DOMAIN insertedAs \cup {group} |->
                      IF g = group THEN frameIdx ELSE insertedAs[g]]
  /\ frameIdx' = frameIdx + 1

(* popMeasureGroup and estimateState.                                      *)
Estimate ==
  /\ at = "drain" /\ ready > 0
  /\ ready' = ready - 1
  /\ popped' = popped + 1 /\ hand' = popped'
  /\ IF mode.insertAfterLio THEN Insert(popped') ELSE UNCHANGED <<frameIdx, insertedAs>>
  /\ at' = "map" /\ quiet' = FALSE
  /\ UNCHANGED <<mode, rosOk, calibDone, toCome, tracking, exportVars>>

NeedsInsert == hand \notin DOMAIN insertedAs      \* !mg.map_inserted

UpdateMaps ==
  /\ at = "map"
  /\ IF NeedsInsert THEN Insert(hand) ELSE UNCHANGED <<frameIdx, insertedAs>>
  /\ at' = "publish"
  /\ UNCHANGED <<mode, rosOk, calibDone, toCome, tracking, ready, hand, popped, quiet, exportVars>>

Publish ==
  /\ at = "publish"
  /\ PublishResults(hand, frameIdx)
  /\ hand' = None /\ at' = "drain"
  /\ UNCHANGED <<mode, rosOk, calibDone, toCome, tracking, ready, popped, frameIdx, insertedAs, quiet>>

TimePasses ==
  /\ at \in {"loop", "drain"} /\ hand = None
  /\ quiet' = TRUE
  /\ UNCHANGED <<mode, at, rosOk, calibDone, toCome, tracking, ready, hand, popped, frameIdx, insertedAs, exportVars>>

(* drainOnce() has returned: another turn, or the end.                     *)
Turn ==
  /\ at = "drain" /\ ready = 0
  /\ at' = IF quiet /\ mode.autoTerminate THEN "finish" ELSE "loop"
  /\ UNCHANGED <<mode, rosOk, calibDone, toCome, tracking, ready, hand, popped, frameIdx, insertedAs, quiet, exportVars>>

RosStops ==
  /\ rosOk /\ at \in {"calib", "loop", "drain"}
  /\ rosOk' = FALSE
  /\ UNCHANGED <<mode, at, calibDone, toCome, tracking, ready, hand, popped, frameIdx, insertedAs, quiet, exportVars>>

LeaveLoop ==
  /\ at = "loop" /\ ~rosOk
  /\ at' = "finish"
  /\ UNCHANGED <<mode, rosOk, calibDone, toCome, tracking, ready, hand, popped, frameIdx, insertedAs, quiet, exportVars>>

------------------------------------------------------------------------------
(* finishRun: the tracker first, then the export.  stopAsyncTracking()     *)
(* notifies a thread that may be on its way to sleep with nothing to do,   *)
(* and then never hears of it (AsyncTracker, StopReturns): the join does   *)
(* not return.                                                             *)
StopTracking ==
  /\ at = "finish"
  /\ at' \in IF ~mode.tracker THEN {"export"}
            ELSE IF tracking = 0 THEN {"stopping", "lost"} ELSE {"stopping"}
  /\ UNCHANGED <<mode, rosOk, calibDone, toCome, tracking, ready, hand, popped, frameIdx, insertedAs, quiet, exportVars>>

(* A thread that was told answers what it still holds and leaves.          *)
JoinTracking ==
  /\ at = "stopping" /\ tracking = 0
  /\ at' = "export"
  /\ UNCHANGED <<mode, rosOk, calibDone, toCome, tracking, ready, hand, popped, frameIdx, insertedAs, quiet, exportVars>>

ExportColmap ==
  /\ at = "export" /\ at' = "join"
  /\ StopWorker
  /\ UNCHANGED <<mode, rosOk, calibDone, toCome, tracking, ready, hand, popped, frameIdx, insertedAs, quiet>>

JoinAndCloseImages ==
  /\ at = "join" /\ at' = "close"
  /\ CloseImages
  /\ UNCHANGED <<mode, rosOk, calibDone, toCome, tracking, ready, hand, popped, frameIdx, insertedAs, quiet>>

FinishRun ==
  /\ at = "close" /\ at' = "done"
  /\ ClosePoints
  /\ UNCHANGED <<mode, rosOk, calibDone, toCome, tracking, ready, hand, popped, frameIdx, insertedAs, quiet>>

Kill ==
  /\ at \notin {"done", "killed"}
  /\ at' = "killed"
  /\ Killed
  /\ UNCHANGED <<mode, rosOk, calibDone, toCome, tracking, ready, hand, popped, frameIdx, insertedAs, quiet>>

WorkerStep == at \notin {"done", "killed"} /\ Worker /\ UNCHANGED runVars

MainStep ==
  \/ Calibrate \/ LeaveCalibration
  \/ Receive \/ ReceiveNothing \/ Estimate \/ UpdateMaps \/ Publish \/ Turn \/ LeaveLoop
  \/ StopTracking \/ JoinTracking \/ ExportColmap \/ JoinAndCloseImages \/ FinishRun

Next == MainStep \/ WorkerStep \/ TrackerAnswers \/ TimePasses \/ RosStops \/ Kill

Spec == Init /\ [][Next]_vars

(* The main loop, the tracker and the worker run while they can; time does *)
(* not stop.  The loop's own choice between a message and none is not made *)
(* for it, nor whether the tracker hears that it is to stop.               *)
FairSpec ==
  /\ Spec
  /\ WF_vars(MainStep) /\ WF_vars(TrackerAnswers) /\ WF_vars(WorkerStep) /\ WF_vars(TimePasses)

------------------------------------------------------------------------------
(* A run that reached its end left on disk every point and every image     *)
(* that was handed to the worker, in the order of the frames, and headers  *)
(* that count them: the worker drains its queue before it leaves, and the  *)
(* counters are read only once it has (exportColmap).                      *)
ExportComplete ==
  at = "done" /\ opts.path =>
    /\ opts.pcd    => file["points3D"].records = asked.points3D /\ file["points3D"].header = Len(asked.points3D)
    /\ opts.images => file["images"].records = asked.images /\ file["images"].header = Len(asked.images)

(* Whenever the process dies, even between the two headers, the count at   *)
(* the head of a COLMAP file is either the placeholder or the number of    *)
(* records that follow it: a reader that finds a count never runs off the  *)
(* end of a file (one killed early may be empty, without a count).         *)
HeadersTruthful ==
  \A f \in {"points3D", "images"} : file[f].header \in {0, Len(file[f].records)}

(* Each row of pose_pair.csv carries the index under which that frame's    *)
(* points went into the map, whether they were inserted after LIO or at    *)
(* the end, so it joins with the other per-scan logs (the comment in       *)
(* publishOdometry tells of the off-by-one this once had).                 *)
PosePairsJoin ==
  \A i \in DOMAIN file["pose_pair"].records :
    LET row == file["pose_pair"].records[i]
    IN row[1] \in DOMAIN insertedAs /\ row[2] = insertedAs[row[1]]

(* A run from a bag comes to its end: calibration gives up at the end of   *)
(* the bag, the idle test ends the loop, the tracker answers what it was   *)
(* fed, and the worker lets itself be joined.  Without a tracker that is   *)
(* so; with one, unless the wakeup of its stop is lost, and then the run   *)
(* hangs before the export and has to be killed.                           *)
Ended == at \in {"done", "killed"}
OfflineRunEnds ==
  /\ mode.offline /\ ~mode.tracker ~> Ended
  /\ mode.offline ~> Ended \/ at = "lost"

(* What livo_recon_node.h says of the idle test: when it fires, everything *)
(* published so far has been processed.  Not so, and in no run (README,    *)
(* "Observations").                                                        *)
IdleMeansFinished == at = "finish" /\ rosOk => tracking = 0
=============================================================================
