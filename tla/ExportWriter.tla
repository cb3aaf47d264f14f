----------------------------- MODULE ExportWriter -----------------------------
(***************************************************************************)
(* What a run leaves on disk: src/processing/pub_processing.cpp.           *)
(*                                                                         *)
(* The main thread appends a row per frame to the odometry files and puts  *)
(* the frame's points and image on a queue; a worker thread takes the      *)
(* tasks and appends COLMAP records.  Both COLMAP files start with a count *)
(* of zero, which exportColmap() overwrites at the end of the run.  A      *)
(* record is the name of its frame; a point record is one visible point.   *)
(* The process may be killed: a file then keeps what had been flushed.     *)
(***************************************************************************)
EXTENDS Integers, SequencesExt

CONSTANTS
  ImageInterval,   \* outputs/image/interval
  MaxVisible       \* bound: points of a frame that fall into its image

ASSUME ExportAssumption == ImageInterval \in Nat \ {0} /\ MaxVisible \in Nat

VARIABLES
  opts,            \* PubProcOptions, as loadParameters() leaves them
  file,            \* odom_file_, pose_pair_file_, points3d_file_, images_file_
  points3dCount,   \* points3d_count_
  imagesCount,     \* images_count_
  frameCount,      \* frame_count_
  writeQueue,      \* write_queue_
  writeStop,       \* write_stop_
  worker,          \* write_thread_: where it is, and its task
  asked            \* history variable: what the main thread has handed over

exportVars == <<opts, file, points3dCount, imagesCount, frameCount, writeQueue, writeStop, worker, asked>>

Files  == {"odometry", "pose_pair", "points3D", "images"}
Faults == Files \cup {"dirs", "cameras"}

Opened(yes) == [open |-> yes, header |-> 0, records |-> <<>>]

(* PubProc::loadParameters: each thing that cannot be created switches off *)
(* what depends on it; a bad directory switches off all COLMAP output.     *)
LoadedOptions(want, faults) ==
  LET exporting == want.path /\ (want.pcd \/ want.images)
      usable    == exporting => "dirs" \notin faults
      path      == want.path /\ usable
      lost(fs)  == path /\ faults \cap fs # {}
  IN [path   |-> path,
      pcd    |-> want.pcd /\ usable /\ ~lost({"points3D"}),
      images |-> want.images /\ usable /\ ~lost({"cameras", "images"})]

LoadedFiles(want, faults, o) ==
  LET odom   == want.odom /\ want.path
      opened == [odometry  |-> odom /\ "odometry" \notin faults,
                 pose_pair |-> odom /\ want.posePair /\ "pose_pair" \notin faults,
                 points3D  |-> o.path /\ o.pcd,
                 images    |-> o.path /\ o.images]
  IN [f \in Files |-> Opened(opened[f])]

Wants == [path : BOOLEAN, pcd : BOOLEAN, images : BOOLEAN, odom : BOOLEAN, posePair : BOOLEAN]

ExportInit ==
  /\ \E want \in Wants, faults \in SUBSET Faults :
       /\ opts = LoadedOptions(want, faults)
       /\ file = LoadedFiles(want, faults, opts)
  /\ points3dCount = 0 /\ imagesCount = 0 /\ frameCount = 0
  /\ writeQueue = <<>> /\ writeStop = FALSE
  /\ worker = [at |-> IF opts.pcd \/ opts.images THEN "waiting" ELSE "none", task |-> <<>>]
  /\ asked = [points3D |-> <<>>, images |-> <<>>]

------------------------------------------------------------------------------
(* The worker thread, writeWorker().                                       *)

(* Deviation: the worker leaves as soon as it is told to.                  *)
WorkerMayExitAtOnce == writeStop

(* Deviation: only a task wakes the worker.                                *)
WorkerMayExitNever == FALSE

WorkerMayExit == writeStop /\ writeQueue = <<>>

WorkerExits ==
  /\ worker.at = "waiting" /\ WorkerMayExit
  /\ worker' = [worker EXCEPT !.at = "exited"]
  /\ UNCHANGED <<opts, file, points3dCount, imagesCount, frameCount, writeQueue, writeStop, asked>>

WorkerTakes ==
  /\ worker.at = "waiting" /\ writeQueue # <<>>
  /\ worker' = [at |-> "points", task |-> Head(writeQueue)]
  /\ writeQueue' = Tail(writeQueue)
  /\ UNCHANGED <<opts, file, points3dCount, imagesCount, frameCount, writeStop, asked>>

Appended(name, recs) == [file EXCEPT ![name].records = @ \o recs]

(* Deviation: tasks are counted, not points.                               *)
CountedTask(task) == 1

Counted(task) == Len(task.points)

WorkerWritesPoints ==
  /\ worker.at = "points"
  /\ worker' = [worker EXCEPT !.at = "image"]
  /\ IF opts.pcd /\ file["points3D"].open
     THEN /\ points3dCount' = points3dCount + Counted(worker.task)
          /\ file' = Appended("points3D", worker.task.points)
     ELSE UNCHANGED <<points3dCount, file>>
  /\ UNCHANGED <<opts, imagesCount, frameCount, writeQueue, writeStop, asked>>

WorkerWritesImage ==
  /\ worker.at = "image"
  /\ worker' = [at |-> "waiting", task |-> <<>>]
  /\ IF worker.task.image # <<>> /\ file["images"].open
     THEN /\ imagesCount' = imagesCount + 1
          /\ file' = Appended("images", worker.task.image)
     ELSE UNCHANGED <<imagesCount, file>>
  /\ UNCHANGED <<opts, points3dCount, frameCount, writeQueue, writeStop, asked>>

Worker == WorkerExits \/ WorkerTakes \/ WorkerWritesPoints \/ WorkerWritesImage

------------------------------------------------------------------------------
(* The main thread.                                                        *)

(* Deviation: the row carries the counter as it stands.                    *)
PublishOdometryRaw(frame, frameIdx) ==
  [f \in Files |->
     IF ~file[f].open THEN file[f]
     ELSE CASE f = "odometry"  -> [file[f] EXCEPT !.records = Append(@, frame)]
            [] f = "pose_pair" -> [file[f] EXCEPT !.records = Append(@, <<frame, frameIdx>>)]
            [] OTHER           -> file[f]]

(* publishOdometry: a row in each file; the map index in pose_pair.csv is  *)
(* that of the insertion just made.                                        *)
PublishOdometry(frame, frameIdx) ==
  [f \in Files |->
     IF ~file[f].open THEN file[f]
     ELSE CASE f = "odometry"  -> [file[f] EXCEPT !.records = Append(@, frame)]
            [] f = "pose_pair" -> [file[f] EXCEPT !.records = Append(@, <<frame, frameIdx - 1>>)]
            [] OTHER           -> file[f]]

(* enqueueExport: nothing is queued when neither file takes the frame.     *)
Task(frame, visible) ==
  LET doPcd   == opts.pcd /\ file["points3D"].open
      doImage == opts.images /\ file["images"].open /\ frameCount % ImageInterval = 0
  IN [wanted |-> doPcd \/ doImage,
      points |-> IF doPcd THEN [i \in 1..visible |-> frame] ELSE <<>>,
      image  |-> IF doImage THEN <<frame>> ELSE <<>>]

PublishResults(frame, frameIdx) ==
  /\ file' = PublishOdometry(frame, frameIdx)
  /\ \E visible \in 0..MaxVisible :
       LET task == Task(frame, visible)
       IN /\ writeQueue' = IF task.wanted
                           THEN Append(writeQueue, [points |-> task.points, image |-> task.image])
                           ELSE writeQueue
          /\ asked' = [points3D |-> asked.points3D \o task.points, images |-> asked.images \o task.image]
  /\ frameCount' = frameCount + 1
  /\ UNCHANGED <<opts, points3dCount, imagesCount, writeStop, worker>>

(* exportColmap: stop the worker, wait for it, then touch its files.       *)
StopWorker ==
  /\ writeStop' = (worker.at # "none")
  /\ UNCHANGED <<opts, file, points3dCount, imagesCount, frameCount, writeQueue, worker, asked>>

Joined == worker.at \in {"none", "exited"}

Patched(name, on, count) ==
  IF on /\ file[name].open THEN [file[name] EXCEPT !.header = count, !.open = FALSE] ELSE file[name]

CloseImages ==
  /\ Joined
  /\ file' = [f \in Files |->
       CASE f = "images"   -> Patched(f, opts.path /\ opts.images, imagesCount)
         [] f = "points3D" -> file[f]
         [] OTHER          -> [file[f] EXCEPT !.open = FALSE]]
  /\ UNCHANGED <<opts, points3dCount, imagesCount, frameCount, writeQueue, writeStop, worker, asked>>

ClosePoints ==
  /\ file' = [file EXCEPT !["points3D"] = Patched("points3D", opts.path /\ opts.pcd, points3dCount)]
  /\ UNCHANGED <<opts, points3dCount, imagesCount, frameCount, writeQueue, writeStop, worker, asked>>

(* The process dies: an open COLMAP file keeps a prefix of its records     *)
(* (the odometry files are flushed row by row).  The placeholder may still *)
(* be in the stream's buffer with all of them; such an empty file is taken *)
(* for a header of 0 without records here.                                 *)
Killed ==
  /\ \E kp \in 0..Len(file["points3D"].records), ki \in 0..Len(file["images"].records) :
       file' = [f \in Files |->
         LET keep == IF ~file[f].open THEN Len(file[f].records)
                     ELSE CASE f = "points3D" -> kp [] f = "images" -> ki [] OTHER -> Len(file[f].records)
         IN [open |-> FALSE, header |-> file[f].header, records |-> SubSeq(file[f].records, 1, keep)]]
  /\ worker' = [at |-> "exited", task |-> <<>>]
  /\ UNCHANGED <<opts, points3dCount, imagesCount, frameCount, writeQueue, writeStop, asked>>
=============================================================================
