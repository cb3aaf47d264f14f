------------------------- MODULE NodeLifecycle_proofs -------------------------
(***************************************************************************)
(* Proofs about a whole run, for any number of groups, any image interval  *)
(* and any number of visible points: the rows of pose_pair.csv join with   *)
(* the map, and the headers of the COLMAP files tell the truth whenever    *)
(* the process dies.  The last part is about start-up, for any parameter   *)
(* files: what a run that started was given, and which files it refuses.   *)
(***************************************************************************)
EXTENDS NodeLifecycle, ConfigLoad, SequenceTheorems, TLAPS

(* What the main thread knows of the group in hand: it is the newest one,  *)
(* and if its points are in the map they went in with the last insertion.  *)
InsertedLast(group) == group \in DOMAIN insertedAs => insertedAs[group] = frameIdx - 1

RunInv ==
  /\ popped \in Nat /\ frameIdx \in Nat /\ hand \in Nat
  /\ DOMAIN insertedAs \subseteq 1..popped
  /\ at = "map" => hand = popped /\ popped > 0 /\ InsertedLast(hand)
  /\ at = "publish" => hand \in DOMAIN insertedAs /\ InsertedLast(hand)

(* Groups already inserted keep their index.                               *)
Kept == \A g \in DOMAIN insertedAs : g \in DOMAIN insertedAs' /\ insertedAs'[g] = insertedAs[g]

(* An insertion under the current index, of a group not inserted before.   *)
LEMMA InsertFacts ==
  ASSUME NEW group, Insert(group), frameIdx \in Nat, group \notin DOMAIN insertedAs
  PROVE  /\ DOMAIN insertedAs' = DOMAIN insertedAs \cup {group}
         /\ frameIdx' = frameIdx + 1 /\ frameIdx' \in Nat
         /\ insertedAs'[group] = frameIdx' - 1
         /\ Kept
  BY DEF Insert, Kept

(* Every step of the run keeps the invariant and the indices given out.    *)
LEMMA RunStep == RunInv /\ [Next]_vars => RunInv' /\ Kept
<1> SUFFICES ASSUME RunInv, [Next]_vars PROVE RunInv' /\ Kept
  OBVIOUS
<1>1. CASE Estimate
  <2>1. popped' = popped + 1 /\ hand' = popped' /\ at' = "map" /\ popped' \notin DOMAIN insertedAs
    BY <1>1 DEF Estimate, RunInv
  <2>2. CASE mode.insertAfterLio
    <3>1. Insert(popped')
      BY <1>1, <2>2 DEF Estimate
    <3>2. /\ DOMAIN insertedAs' = DOMAIN insertedAs \cup {popped'} /\ frameIdx' \in Nat
          /\ insertedAs'[popped'] = frameIdx' - 1 /\ Kept
      BY <2>1, <3>1, InsertFacts DEF RunInv
    <3> QED  BY <2>1, <3>2 DEF RunInv, InsertedLast
  <2>3. CASE ~mode.insertAfterLio
    BY <1>1, <2>1, <2>3 DEF Estimate, RunInv, InsertedLast, Kept
  <2> QED  BY <2>2, <2>3
<1>2. CASE UpdateMaps
  <2>1. hand' = hand /\ popped' = popped /\ at' = "publish" /\ at = "map" /\ hand = popped /\ hand \in 1..popped
    BY <1>2 DEF UpdateMaps, RunInv
  <2>2. CASE NeedsInsert
    <3>1. Insert(hand) /\ hand \notin DOMAIN insertedAs
      BY <1>2, <2>2 DEF UpdateMaps, NeedsInsert
    <3>2. /\ DOMAIN insertedAs' = DOMAIN insertedAs \cup {hand} /\ frameIdx' \in Nat
          /\ insertedAs'[hand] = frameIdx' - 1 /\ Kept
      BY <2>1, <3>1, InsertFacts DEF RunInv
    <3> QED  BY <2>1, <3>2 DEF RunInv, InsertedLast
  <2>3. CASE ~NeedsInsert
    BY <1>2, <2>1, <2>3 DEF UpdateMaps, NeedsInsert, RunInv, InsertedLast, Kept
  <2> QED  BY <2>2, <2>3
<1>3. CASE Publish
  BY <1>3 DEF Publish, RunInv, InsertedLast, Kept, None
<1>4. CASE LeaveCalibration
  BY <1>4 DEF LeaveCalibration, RunInv, InsertedLast, Kept
<1>5. CASE Calibrate \/ Receive \/ ReceiveNothing \/ Turn \/ LeaveLoop
  BY <1>5 DEF Calibrate, Receive, ReceiveNothing, Turn, LeaveLoop, RunInv, InsertedLast, Kept
<1>6. CASE StopTracking \/ JoinTracking \/ ExportColmap \/ JoinAndCloseImages \/ FinishRun \/ Kill
  BY <1>6 DEF StopTracking, JoinTracking, ExportColmap, JoinAndCloseImages, FinishRun, Kill, RunInv, InsertedLast, Kept
<1>7. CASE TrackerAnswers \/ TimePasses \/ RosStops
  BY <1>7 DEF TrackerAnswers, TimePasses, RosStops, RunInv, InsertedLast, Kept
<1>8. CASE WorkerStep
  BY <1>8 DEF WorkerStep, runVars, RunInv, InsertedLast, Kept
<1>9. CASE UNCHANGED vars
  BY <1>9 DEF vars, runVars, RunInv, InsertedLast, Kept
<1> QED  BY <1>1, <1>2, <1>3, <1>4, <1>5, <1>6, <1>7, <1>8, <1>9 DEF Next, MainStep
------------------------------------------------------------------------------
(* The files.  An open COLMAP file has the placeholder for a header and as *)
(* many records as its counter says; a closed one has what it was given.   *)
Colmap == {"points3D", "images"}
Images == {<<>>} \cup {<<n>> : n \in Nat}
Tasks  == [points : Seq(Nat), image : Images]

IsHandle(h) == h = [open |-> h.open, header |-> h.header, records |-> h.records]

CountOf(f) == IF f = "points3D" THEN points3dCount ELSE imagesCount

Placeholder(f) == file[f].header = 0 /\ CountOf(f) = Len(file[f].records)
Truthful(f)    == file[f].header \in {0, Len(file[f].records)}

ShapeInv == file = [f \in Files |-> file[f]] /\ \A f \in Files : IsHandle(file[f])

HeaderInv(f) == file[f].records \in Seq(Nat) /\ Truthful(f) /\ (file[f].open => Placeholder(f))

FileInv == ShapeInv /\ \A f \in Colmap : HeaderInv(f)

WorkInv ==
  /\ points3dCount \in Nat /\ imagesCount \in Nat
  /\ writeQueue \in Seq(Tasks)
  /\ worker = [at |-> worker.at, task |-> worker.task]
  /\ worker.at \in {"points", "image"} => worker.task \in Tasks

(* The rows of pose_pair.csv, as the property states them.                 *)
Rows == file["pose_pair"].records

Joins(row) == row[1] \in DOMAIN insertedAs /\ row[2] = insertedAs[row[1]]

RowsInv == Rows \in Seq(Nat \X Int) /\ \A i \in 1..Len(Rows) : Joins(Rows[i])

(* The files as they are opened, or not.                                   *)
LEMMA ExportInitOK == ExportInit => FileInv /\ WorkInv /\ Rows = <<>>
<1> SUFFICES ASSUME ExportInit PROVE FileInv /\ WorkInv /\ Rows = <<>>
  OBVIOUS
<1>1. PICK want \in Wants, faults \in SUBSET Faults : file = LoadedFiles(want, faults, opts)
  BY DEF ExportInit
<1>2. /\ file = [f \in Files |-> file[f]]
      /\ \A f \in Files : IsHandle(file[f]) /\ file[f].header = 0 /\ file[f].records = <<>>
  BY <1>1 DEF LoadedFiles, Opened, IsHandle
<1>3. points3dCount = 0 /\ imagesCount = 0 /\ writeQueue = <<>>
  BY DEF ExportInit
<1>4. worker = [at |-> worker.at, task |-> worker.task] /\ worker.at \notin {"points", "image"}
  BY DEF ExportInit
<1>5. ASSUME NEW f \in Colmap PROVE HeaderInv(f)
  <2>1. file[f].header = 0 /\ file[f].records = <<>> /\ CountOf(f) = 0
    BY <1>2, <1>3 DEF Colmap, Files, CountOf
  <2> QED  BY <2>1 DEF HeaderInv, Truthful, Placeholder
<1>6. ShapeInv
  BY <1>2 DEF ShapeInv
<1>7. WorkInv
  BY <1>3, <1>4 DEF WorkInv
<1> QED  BY <1>2, <1>5, <1>6, <1>7 DEF Rows, Files, FileInv

(* A file a step leaves alone, and whose counter it leaves alone.          *)
LEMMA Untouched ==
  ASSUME NEW f, HeaderInv(f), file'[f] = file[f], CountOf(f)' = CountOf(f)
  PROVE  HeaderInv(f)'
  BY DEF HeaderInv, Truthful, Placeholder

(* Records appended to an open file, and counted.                          *)
LEMMA AppendedFacts ==
  ASSUME NEW f \in Colmap, NEW recs \in Seq(Nat), ShapeInv, HeaderInv(f), file[f].open,
         file' = Appended(f, recs), CountOf(f)' = CountOf(f) + Len(recs)
  PROVE  /\ ShapeInv' /\ HeaderInv(f)'
         /\ \A g \in Files \ {f} : file'[g] = file[g]
<1>1. f \in Files /\ IsHandle(file[f])
  BY DEF Colmap, Files, ShapeInv
<1>2. file' = [file EXCEPT ![f] = [file[f] EXCEPT !.records = file[f].records \o recs]]
  BY DEF Appended
<1>3. file'[f] = [open |-> file[f].open, header |-> file[f].header, records |-> file[f].records \o recs]
  BY <1>1, <1>2 DEF ShapeInv, IsHandle
<1>4. (\A g \in Files \ {f} : file'[g] = file[g]) /\ file' = [g \in Files |-> file'[g]]
  BY <1>1, <1>2 DEF ShapeInv
<1>5. ShapeInv'
  BY <1>3, <1>4 DEF ShapeInv, IsHandle
<1>6. file[f].records \in Seq(Nat) /\ file[f].header = 0 /\ CountOf(f) = Len(file[f].records)
  BY DEF HeaderInv, Placeholder
<1>7. file[f].records \o recs \in Seq(Nat) /\ Len(file[f].records \o recs) = Len(file[f].records) + Len(recs)
  BY <1>6
<1>8. HeaderInv(f)'
  BY <1>3, <1>6, <1>7 DEF HeaderInv, Truthful, Placeholder
<1> QED  BY <1>4, <1>5, <1>8

(* The worker's four steps.                                                *)
LEMMA WorkerKeeps ==
  ASSUME FileInv, WorkInv, Worker
  PROVE  FileInv' /\ WorkInv' /\ Rows' = Rows
<1>1. CASE WorkerExits \/ WorkerTakes
  <2>1. file' = file /\ points3dCount' = points3dCount /\ imagesCount' = imagesCount
    BY <1>1 DEF WorkerExits, WorkerTakes
  <2>2. FileInv'
    BY <2>1 DEF FileInv, ShapeInv, HeaderInv, Truthful, Placeholder, CountOf
  <2>3. ASSUME WorkerExits PROVE WorkInv'
    BY <2>3 DEF WorkerExits, WorkInv
  <2>4. ASSUME WorkerTakes PROVE WorkInv'
    <3>1. Head(writeQueue) \in Tasks /\ Tail(writeQueue) \in Seq(Tasks)
      BY <2>4 DEF WorkerTakes, WorkInv
    <3> QED  BY <2>1, <2>4, <3>1 DEF WorkerTakes, WorkInv
  <2> QED  BY <1>1, <2>1, <2>2, <2>3, <2>4 DEF Rows
<1>2. CASE WorkerWritesPoints
  <2>1. worker.task \in Tasks /\ worker.task.points \in Seq(Nat)
    BY <1>2 DEF WorkerWritesPoints, WorkInv, Tasks
  <2>2. WorkInv'
    <3>1. points3dCount' \in Nat
      BY <1>2, <2>1 DEF WorkerWritesPoints, WorkInv, Counted
    <3>2. worker' = [worker EXCEPT !.at = "image"] /\ imagesCount' = imagesCount /\ writeQueue' = writeQueue
      BY <1>2 DEF WorkerWritesPoints
    <3> QED  BY <2>1, <3>1, <3>2 DEF WorkInv
  <2>3. CASE UNCHANGED <<points3dCount, file>>
    BY <1>2, <2>2, <2>3 DEF WorkerWritesPoints, FileInv, ShapeInv, HeaderInv, Truthful, Placeholder, CountOf, Rows
  <2>4. CASE /\ file["points3D"].open /\ file' = Appended("points3D", worker.task.points)
             /\ points3dCount' = points3dCount + Counted(worker.task)
    <3>1. CountOf("points3D")' = CountOf("points3D") + Len(worker.task.points)
      BY <2>4 DEF CountOf, Counted
    <3>2. ShapeInv' /\ HeaderInv("points3D")' /\ \A g \in Files \ {"points3D"} : file'[g] = file[g]
      BY <2>1, <2>4, <3>1, AppendedFacts DEF FileInv, Colmap
    <3>3. file'["images"] = file["images"] /\ Rows' = Rows
      BY <3>2 DEF Files, Rows
    <3>4. HeaderInv("images")'
      BY <1>2, <3>3, Untouched DEF FileInv, Colmap, CountOf, WorkerWritesPoints
    <3> QED  BY <2>2, <3>2, <3>3, <3>4 DEF FileInv, Colmap
  <2> QED  BY <1>2, <2>3, <2>4 DEF WorkerWritesPoints
<1>3. CASE WorkerWritesImage
  <2>1. worker.task.image \in Images
    BY <1>3 DEF WorkerWritesImage, WorkInv, Tasks
  <2>2. WorkInv'
    BY <1>3 DEF WorkerWritesImage, WorkInv
  <2>3. CASE UNCHANGED <<imagesCount, file>>
    BY <1>3, <2>2, <2>3 DEF WorkerWritesImage, FileInv, ShapeInv, HeaderInv, Truthful, Placeholder, CountOf, Rows
  <2>4. CASE /\ worker.task.image # <<>> /\ file["images"].open
             /\ file' = Appended("images", worker.task.image) /\ imagesCount' = imagesCount + 1
    <3>0. PICK n \in Nat : worker.task.image = <<n>>
      BY <2>1, <2>4 DEF Images
    <3>1. worker.task.image \in Seq(Nat) /\ Len(worker.task.image) = 1
      <4>1. <<n>> \in Seq(Nat) /\ Len(<<n>>) = 1
        OBVIOUS
      <4> QED  BY <3>0, <4>1
    <3>2. CountOf("images")' = CountOf("images") + Len(worker.task.image)
      BY <2>4, <3>1 DEF CountOf
    <3>3. ShapeInv' /\ HeaderInv("images")' /\ \A g \in Files \ {"images"} : file'[g] = file[g]
      BY <2>4, <3>1, <3>2, AppendedFacts DEF FileInv, Colmap
    <3>4. file'["points3D"] = file["points3D"] /\ Rows' = Rows
      BY <3>3 DEF Files, Rows
    <3>5. HeaderInv("points3D")'
      BY <1>3, <3>4, Untouched DEF FileInv, Colmap, CountOf, WorkerWritesImage
    <3> QED  BY <2>2, <3>3, <3>4, <3>5 DEF FileInv, Colmap
  <2> QED  BY <1>3, <2>3, <2>4 DEF WorkerWritesImage
<1> QED  BY <1>1, <1>2, <1>3 DEF Worker

(* Publishing a frame: a row in pose_pair.csv, and perhaps a task.         *)
LEMMA PublishKeeps ==
  ASSUME FileInv, WorkInv, PublishResults(hand, frameIdx), hand \in Nat
  PROVE  /\ FileInv' /\ WorkInv'
         /\ Rows' = Rows \/ Rows' = Append(Rows, <<hand, frameIdx - 1>>)
<1>1. file' = PublishOdometry(hand, frameIdx)
  BY DEF PublishResults
<1>2. \A f \in Colmap : file'[f] = file[f]
  BY <1>1 DEF PublishOdometry, Colmap, Files
<1>3. \A f \in Colmap : CountOf(f)' = CountOf(f) /\ HeaderInv(f)'
  BY <1>2, Untouched DEF PublishResults, CountOf, FileInv
<1>4. ShapeInv'
  <2>1. file' = [f \in Files |-> file'[f]]
    BY <1>1 DEF PublishOdometry
  <2>2. ASSUME NEW f \in Files PROVE IsHandle(file'[f])
    <3>1. IsHandle(file[f])
      BY DEF FileInv, ShapeInv
    <3>2. file'[f] = file[f] \/ \E r : file'[f] = [file[f] EXCEPT !.records = r]
      BY <1>1 DEF PublishOdometry
    <3> QED  BY <3>1, <3>2 DEF IsHandle
  <2> QED  BY <2>1, <2>2 DEF ShapeInv
<1>5. Rows' = Rows \/ Rows' = Append(Rows, <<hand, frameIdx - 1>>)
  <2>1. IsHandle(file["pose_pair"])
    BY DEF FileInv, ShapeInv, Files
  <2>2. \/ file'["pose_pair"] = file["pose_pair"]
        \/ file'["pose_pair"] = [file["pose_pair"] EXCEPT !.records = Append(@, <<hand, frameIdx - 1>>)]
    BY <1>1 DEF PublishOdometry, Files
  <2> QED  BY <2>1, <2>2 DEF IsHandle, Rows
<1>6. WorkInv'
  <2> DEFINE Handed(visible) == [points |-> Task(hand, visible).points, image |-> Task(hand, visible).image]
  <2>1. PICK visible \in 0..MaxVisible :
          writeQueue' = writeQueue \/ writeQueue' = Append(writeQueue, Handed(visible))
    BY DEF PublishResults
  <2>2. Task(hand, visible).image \in Images
    BY DEF Task, Images
  <2>3. [i \in 1..visible |-> hand] \in Seq(Nat)
    BY ExportAssumption
  <2>4. Task(hand, visible).points \in Seq(Nat)
    BY <2>3 DEF Task
  <2>5. Handed(visible) \in Tasks
    BY <2>2, <2>4 DEF Tasks
  <2> HIDE DEF Handed
  <2>6. writeQueue' \in Seq(Tasks)
    BY <2>1, <2>5, SMTT(20) DEF WorkInv
  <2> QED  BY <2>6 DEF WorkInv, PublishResults
<1> QED  BY <1>3, <1>4, <1>5, <1>6 DEF FileInv

(* A header is written, if at all, into an open file, and it is the count. *)
LEMMA PatchedFacts ==
  ASSUME NEW f \in Colmap, NEW on, ShapeInv, HeaderInv(f),
         file'[f] = Patched(f, on, CountOf(f)), CountOf(f)' = CountOf(f)
  PROVE  IsHandle(file'[f]) /\ HeaderInv(f)'
<1>1. IsHandle(file[f])
  BY DEF ShapeInv, Colmap, Files
<1>2. CASE on /\ file[f].open
  <2>1. file'[f] = [open |-> FALSE, header |-> Len(file[f].records), records |-> file[f].records]
    BY <1>1, <1>2 DEF Patched, IsHandle, HeaderInv, Placeholder
  <2> QED  BY <2>1 DEF IsHandle, HeaderInv, Truthful, Placeholder
<1>3. CASE ~(on /\ file[f].open)
  BY <1>1, <1>3, Untouched DEF Patched
<1> QED  BY <1>2, <1>3

(* The three steps of exportColmap.                                        *)
LEMMA ExportKeeps ==
  ASSUME FileInv, WorkInv, StopWorker \/ CloseImages \/ ClosePoints
  PROVE  FileInv' /\ WorkInv' /\ Rows' = Rows
<1>1. WorkInv'
  BY DEF StopWorker, CloseImages, ClosePoints, WorkInv
<1>2. \A f \in Colmap : CountOf(f)' = CountOf(f)
  BY DEF StopWorker, CloseImages, ClosePoints, CountOf
<1>3. CASE StopWorker
  BY <1>1, <1>3 DEF StopWorker, FileInv, ShapeInv, HeaderInv, Truthful, Placeholder, CountOf, Rows
<1>4. CASE CloseImages
  <2>1. /\ file'["images"] = Patched("images", opts.path /\ opts.images, CountOf("images"))
        /\ file'["points3D"] = file["points3D"]
        /\ \A f \in Files \ Colmap : file'[f] = [file[f] EXCEPT !.open = FALSE]
        /\ file' = [f \in Files |-> file'[f]]
    BY <1>4 DEF CloseImages, Files, Colmap, CountOf
  <2>2. IsHandle(file'["images"]) /\ HeaderInv("images")'
    BY <1>2, <2>1, PatchedFacts DEF FileInv, Colmap
  <2>3. IsHandle(file'["points3D"]) /\ HeaderInv("points3D")'
    BY <1>2, <2>1, Untouched DEF FileInv, ShapeInv, Colmap, Files
  <2>4. ASSUME NEW f \in Files \ Colmap
        PROVE  IsHandle(file'[f]) /\ file'[f].records = file[f].records
    BY <2>1 DEF FileInv, ShapeInv, IsHandle
  <2>5. ShapeInv' /\ Rows' = Rows
    BY <2>1, <2>2, <2>3, <2>4 DEF ShapeInv, Rows, Files, Colmap
  <2> QED  BY <1>1, <2>2, <2>3, <2>5 DEF FileInv, Colmap
<1>5. CASE ClosePoints
  <2>1. /\ file'["points3D"] = Patched("points3D", opts.path /\ opts.pcd, CountOf("points3D"))
        /\ \A f \in Files \ {"points3D"} : file'[f] = file[f]
        /\ file' = [f \in Files |-> file'[f]]
    BY <1>5 DEF ClosePoints, Files, CountOf, FileInv, ShapeInv
  <2>2. IsHandle(file'["points3D"]) /\ HeaderInv("points3D")'
    BY <1>2, <2>1, PatchedFacts DEF FileInv, Colmap
  <2>3. HeaderInv("images")' /\ Rows' = Rows
    BY <1>2, <2>1, Untouched DEF FileInv, Colmap, Files, Rows
  <2>4. ShapeInv'
    BY <2>1, <2>2 DEF FileInv, ShapeInv
  <2> QED  BY <1>1, <2>2, <2>3, <2>4 DEF FileInv, Colmap
<1> QED  BY <1>3, <1>4, <1>5

(* The process dies.                                                       *)
LEMMA KillKeeps ==
  ASSUME FileInv, WorkInv, Rows \in Seq(Nat \X Int), Killed
  PROVE  FileInv' /\ WorkInv' /\ Rows' = Rows
<1> DEFINE Left(f, keep) == [open |-> FALSE, header |-> file[f].header, records |-> SubSeq(file[f].records, 1, keep)]
<1>1. PICK kp \in 0..Len(file["points3D"].records), ki \in 0..Len(file["images"].records) :
        file' = [f \in Files |->
          LET keep == IF ~file[f].open THEN Len(file[f].records)
                      ELSE CASE f = "points3D" -> kp [] f = "images" -> ki [] OTHER -> Len(file[f].records)
          IN Left(f, keep)]
  BY DEF Killed
<1>2. /\ \A f \in Files : \E keep : file'[f] = Left(f, keep)
      /\ file' = [f \in Files |-> file'[f]]
      /\ \A f \in Files : ~file[f].open \/ f = "pose_pair" => file'[f] = Left(f, Len(file[f].records))
      /\ file["points3D"].open => file'["points3D"] = Left("points3D", kp)
      /\ file["images"].open => file'["images"] = Left("images", ki)
  BY <1>1 DEF Files
<1>3. ASSUME NEW f \in Files, NEW keep
      PROVE  /\ IsHandle(Left(f, keep)) /\ ~Left(f, keep).open
             /\ Left(f, keep).header = file[f].header
             /\ Left(f, keep).records = SubSeq(file[f].records, 1, keep)
  BY DEF IsHandle
<1> HIDE DEF Left
<1>4. ShapeInv'
  BY <1>2, <1>3 DEF ShapeInv
<1>5. Rows' = Rows
  <2>1. file'["pose_pair"].records = SubSeq(Rows, 1, Len(Rows))
    <3>1. file'["pose_pair"] = Left("pose_pair", Len(file["pose_pair"].records)) /\ "pose_pair" \in Files
      BY <1>2 DEF Files
    <3> QED  BY <1>3, <3>1 DEF Rows
  <2> QED  BY <2>1, SubSeqFull DEF Rows
<1>6. ASSUME NEW f \in Colmap PROVE HeaderInv(f)'
  <2>1. f \in Files /\ file[f].records \in Seq(Nat) /\ Truthful(f)
    BY DEF FileInv, HeaderInv, Colmap, Files
  <2>2. CASE file[f].open
    <3>1. PICK keep \in 0..Len(file[f].records) : file'[f] = Left(f, keep)
      BY <1>2, <2>2 DEF Colmap
    <3>2. file[f].header = 0
      BY <2>2 DEF FileInv, HeaderInv, Placeholder
    <3>3. ~file'[f].open /\ file'[f].header = 0 /\ file'[f].records = SubSeq(file[f].records, 1, keep)
      BY <1>3, <2>1, <3>1, <3>2
    <3>4. SubSeq(file[f].records, 1, keep) \in Seq(Nat)
      <4>1. \A i \in 1..keep : file[f].records[i] \in Nat
        BY <2>1, SMTT(20)
      <4> QED  BY <4>1, SubSeqProperties
    <3> QED  BY <3>3, <3>4 DEF HeaderInv, Truthful
  <2>3. CASE ~file[f].open
    <3>1. ~file'[f].open /\ file'[f].header = file[f].header
          /\ file'[f].records = SubSeq(file[f].records, 1, Len(file[f].records))
      BY <1>2, <1>3, <2>1, <2>3
    <3>2. file'[f].records = file[f].records
      BY <2>1, <3>1, SubSeqFull
    <3> QED  BY <2>1, <3>1, <3>2 DEF HeaderInv, Truthful
  <2> QED  BY <2>2, <2>3
<1>7. WorkInv'
  BY DEF Killed, WorkInv
<1> QED  BY <1>4, <1>5, <1>6, <1>7 DEF FileInv

------------------------------------------------------------------------------
IInv == RunInv /\ FileInv /\ WorkInv /\ RowsInv

LEMMA InitInv == Init => IInv
  BY ExportInitOK DEF Init, IInv, RunInv, RowsInv, InsertedLast, None

(* Rows written before a step still join after it.                         *)
LEMMA RowsStay ==
  ASSUME RowsInv, Kept, Rows' = Rows
  PROVE  RowsInv'
  BY DEF RowsInv, Kept, Joins

(* A new row joins if its frame is in the map under the index it names.    *)
LEMMA RowAdded ==
  ASSUME RowsInv, Kept, NEW CONSTANT group \in Nat, NEW CONSTANT index \in Int,
         group \in DOMAIN insertedAs, insertedAs[group] = index,
         Rows' = Append(Rows, <<group, index>>)
  PROVE  RowsInv'
<1> DEFINE row == <<group, index>>
<1>1. row \in Nat \X Int /\ Joins(row)'
  BY DEF Kept, Joins
<1>2. Rows \in Seq(Nat \X Int)
  BY DEF RowsInv
<1>3. \A i \in 1..Len(Rows) : Rows[i][1] \in DOMAIN insertedAs' /\ Rows[i][2] = insertedAs'[Rows[i][1]]
  BY DEF RowsInv, Kept, Joins
<1> HIDE DEF row
<1>4. /\ Rows' \in Seq(Nat \X Int) /\ Len(Rows') = Len(Rows) + 1
      /\ \A i \in 1..Len(Rows) : Rows'[i] = Rows[i]
      /\ Rows'[Len(Rows) + 1] = row
  BY <1>1, <1>2, AppendProperties DEF row
<1>5. ASSUME NEW i \in 1..Len(Rows') PROVE Joins(Rows[i])'
  <2>1. CASE i <= Len(Rows)
    <3>1. i \in 1..Len(Rows) /\ Rows'[i] = Rows[i]
      BY <1>2, <1>4, <2>1
    <3> QED  BY <1>3, <3>1 DEF Joins
  <2>2. CASE ~(i <= Len(Rows))
    <3>1. i = Len(Rows) + 1
      BY <1>2, <1>4, <2>2
    <3> QED  BY <1>1, <1>4, <3>1
  <2> QED  BY <2>1, <2>2
<1> QED  BY <1>4, <1>5 DEF RowsInv

LEMMA StepInv == IInv /\ [Next]_vars => IInv'
<1> SUFFICES ASSUME IInv, [Next]_vars PROVE IInv'
  OBVIOUS
<1>1. RunInv /\ FileInv /\ WorkInv /\ RowsInv
  BY DEF IInv
<1>2. RunInv' /\ Kept
  BY <1>1, RunStep
<1>3. CASE Publish
  <2>1. /\ PublishResults(hand, frameIdx) /\ hand \in Nat /\ frameIdx \in Nat
        /\ hand \in DOMAIN insertedAs /\ insertedAs[hand] = frameIdx - 1
    BY <1>1, <1>3 DEF Publish, RunInv, InsertedLast
  <2>2. FileInv' /\ WorkInv' /\ (Rows' = Rows \/ Rows' = Append(Rows, <<hand, frameIdx - 1>>))
    BY <1>1, <2>1, PublishKeeps
  <2>3. RowsInv'
    <3>1. CASE Rows' = Append(Rows, <<hand, frameIdx - 1>>)
      <4>1. PICK group \in Nat, index \in Int : group = hand /\ index = frameIdx - 1
        BY <2>1
      <4> QED  BY <1>1, <1>2, <2>1, <3>1, <4>1, RowAdded
    <3> QED  BY <1>1, <1>2, <2>2, <3>1, RowsStay
  <2> QED  BY <1>2, <2>2, <2>3 DEF IInv
<1>4. CASE WorkerStep \/ ExportColmap \/ JoinAndCloseImages \/ FinishRun \/ Kill
  <2>1. Worker \/ StopWorker \/ CloseImages \/ ClosePoints \/ Killed
    BY <1>4 DEF WorkerStep, ExportColmap, JoinAndCloseImages, FinishRun, Kill
  <2>2. FileInv' /\ WorkInv' /\ Rows' = Rows
    BY <1>1, <2>1, WorkerKeeps, ExportKeeps, KillKeeps DEF RowsInv
  <2> QED  BY <1>1, <1>2, <2>2, RowsStay DEF IInv
<1>5. CASE UNCHANGED exportVars
  <2>1. FileInv' /\ WorkInv' /\ Rows' = Rows
    BY <1>1, <1>5
       DEF exportVars, FileInv, ShapeInv, HeaderInv, Truthful, Placeholder, CountOf, WorkInv, Rows
  <2> QED  BY <1>1, <1>2, <2>1, RowsStay DEF IInv
<1>6. UNCHANGED exportVars \/ Publish \/ WorkerStep \/ ExportColmap \/ JoinAndCloseImages \/ FinishRun \/ Kill
  BY DEF Next, MainStep, vars, Calibrate, LeaveCalibration, Receive, ReceiveNothing, Estimate, UpdateMaps,
         Turn, LeaveLoop, StopTracking, JoinTracking, TrackerAnswers, TimePasses, RosStops
<1> QED  BY <1>3, <1>4, <1>5, <1>6

LEMMA RunInvariant == Spec => []IInv
  BY InitInv, StepInv, PTL DEF Spec

(* Whenever the process dies, the header of a COLMAP file is the           *)
(* placeholder or the number of the records that follow it.                *)
THEOREM HeadersCorrect == Spec => []HeadersTruthful
<1>1. IInv => HeadersTruthful
  BY DEF IInv, FileInv, HeaderInv, Truthful, Colmap, HeadersTruthful
<1> QED  BY <1>1, RunInvariant, PTL

(* Each row of pose_pair.csv names the index its frame has in the map.     *)
THEOREM PairsCorrect == Spec => []PosePairsJoin
<1>1. ASSUME IInv PROVE PosePairsJoin
  <2>1. Rows \in Seq(Nat \X Int) /\ \A i \in 1..Len(Rows) : Joins(Rows[i])
    BY <1>1 DEF IInv, RowsInv
  <2>2. DOMAIN Rows = 1..Len(Rows)
    BY <2>1
  <2> QED  BY <2>1, <2>2 DEF PosePairsJoin, Rows, Joins
<1> QED  BY <1>1, RunInvariant, PTL

------------------------------------------------------------------------------
(* What is still on its way to a file.  The tasks in the queue are the     *)
(* rest of what was asked for: rest[i] is what follows the i-th of them.   *)
Part(f, task) == IF f = "points3D" THEN task.points ELSE task.image

Trails(whole, done, q, f) ==
  \E rest \in [0..Len(q) -> Seq(Nat)] :
    /\ whole = done \o rest[0]
    /\ \A i \in 1..Len(q) : rest[i - 1] = Part(f, q[i]) \o rest[i]
    /\ rest[Len(q)] = <<>>

(* What the worker holds and has yet to append to the file.                *)
InHand(f) ==
  IF worker.at \in (IF f = "points3D" THEN {"points"} ELSE {"points", "image"})
  THEN Part(f, worker.task) ELSE <<>>

Wanted(f) == opts.path /\ IF f = "points3D" THEN opts.pcd ELSE opts.images

(* Where the main thread is once it has closed the file.                   *)
Closed(f) == IF f = "points3D" THEN {"done"} ELSE {"close", "done"}

(* A wanted file: everything asked for is in it or on its way, and it is   *)
(* open until its header is written.                                       *)
WantedInv(f) ==
  /\ asked[f] \in Seq(Nat)
  /\ Trails(asked[f], file[f].records \o InHand(f), writeQueue, f)
  /\ at \notin Closed(f) => file[f].open
  /\ at \in Closed(f) => file[f].header = Len(file[f].records)

(* The worker: it is there if a file is wanted, it is told to leave only   *)
(* when the main thread publishes no more, and it leaves an empty queue.   *)
LeaveInv ==
  /\ writeStop => at \in {"join", "close", "done"}
  /\ worker.at \in {"none", "waiting", "points", "image", "exited"}
  /\ worker.at = "none" => ~opts.pcd /\ ~opts.images
  /\ worker.at = "exited" => writeStop /\ writeQueue = <<>>
  /\ at \in {"close", "done"} => Joined

ExportInv ==
  at # "killed" => LeaveInv /\ \A f \in Colmap : Wanted(f) => WantedInv(f)

LEMMA PartFacts ==
  ASSUME NEW f \in Colmap, NEW task \in Tasks
  PROVE  Part(f, task) \in Seq(Nat)
<1>1. task.points \in Seq(Nat) /\ task.image \in Images
  BY DEF Tasks
<1>2. task.image \in Seq(Nat)
  <2>1. CASE task.image = <<>>
    <3>1. <<>> \in Seq(Nat)
      OBVIOUS
    <3> QED  BY <2>1, <3>1
  <2>2. CASE task.image # <<>>
    <3>1. PICK n \in Nat : task.image = <<n>>
      BY <1>1, <2>2 DEF Images
    <3>2. <<n>> \in Seq(Nat)
      OBVIOUS
    <3> QED  BY <3>1, <3>2
  <2> QED  BY <2>1, <2>2
<1> QED  BY <1>1, <1>2 DEF Part

(* Records appended one after the other, or together: the same file.       *)
LEMMA AppendedInTurn ==
  ASSUME NEW s \in Seq(Nat), NEW t \in Seq(Nat), NEW u \in Seq(Nat)
  PROVE  (s \o t) \o u = s \o (t \o u)
BY ConcatAssociative, SMTT(20)

(* Records already in the file, some just appended, nothing more in hand.  *)
LEMMA NothingMore ==
  ASSUME NEW s \in Seq(Nat)
  PROVE  s \o <<>> = s /\ <<>> \o s = s
BY ConcatEmptySeq

(* The worker takes the first task.                                        *)
LEMMA TrailsTake ==
  ASSUME NEW f \in Colmap, NEW whole, NEW done \in Seq(Nat), NEW q \in Seq(Tasks),
         q # <<>>, Trails(whole, done, q, f)
  PROVE  Trails(whole, done \o Part(f, Head(q)), Tail(q), f)
<1>1. PICK rest \in [0..Len(q) -> Seq(Nat)] :
         /\ whole = done \o rest[0]
         /\ \A i \in 1..Len(q) : rest[i - 1] = Part(f, q[i]) \o rest[i]
         /\ rest[Len(q)] = <<>>
  BY DEF Trails
<1>2. /\ Len(q) \in Nat /\ Len(q) > 0 /\ q[1] = Head(q) /\ Head(q) \in Tasks
      /\ Len(Tail(q)) = Len(q) - 1
      /\ \A i \in 1..Len(Tail(q)) : Tail(q)[i] = q[i + 1]
  BY HeadTailProperties, EmptySeq
<1> DEFINE left == [i \in 0..Len(Tail(q)) |-> rest[i + 1]]
<1>3. left \in [0..Len(Tail(q)) -> Seq(Nat)]
  BY <1>2
<1>4. left[Len(Tail(q))] = <<>> /\ left[0] = rest[1]
  BY <1>1, <1>2
<1>5. ASSUME NEW i \in 1..Len(Tail(q)) PROVE left[i - 1] = Part(f, Tail(q)[i]) \o left[i]
  <2>1. i + 1 \in 1..Len(q) /\ (i + 1) - 1 = i /\ (i - 1) + 1 = i
    BY <1>2
  <2>2. left[i - 1] = rest[i] /\ left[i] = rest[i + 1] /\ Tail(q)[i] = q[i + 1]
    BY <1>2, <2>1
  <2> QED  BY <1>1, <2>1, <2>2
<1>6. whole = (done \o Part(f, Head(q))) \o left[0]
  <2>1. rest[0] = Part(f, Head(q)) \o rest[1]
    <3>1. 1 \in 1..Len(q) /\ 1 - 1 = 0
      BY <1>2
    <3> QED  BY <1>1, <1>2, <3>1
  <2>2. Part(f, Head(q)) \in Seq(Nat) /\ rest[1] \in Seq(Nat)
    <3>1. Part(f, Head(q)) \in Seq(Nat)
      BY <1>2, PartFacts
    <3>2. 1 \in 0..Len(q)
      BY <1>2
    <3> QED  BY <3>1, <3>2
  <2>3. (done \o Part(f, Head(q))) \o rest[1] = done \o (Part(f, Head(q)) \o rest[1])
    BY <2>2, AppendedInTurn
  <2> QED  BY <1>1, <1>4, <2>1, <2>3
<1> HIDE DEF left
<1> QED  BY <1>3, <1>4, <1>5, <1>6 DEF Trails

(* The main thread hands over one more.                                    *)
LEMMA TrailsPut ==
  ASSUME NEW f \in Colmap, NEW whole, NEW done \in Seq(Nat), NEW q \in Seq(Tasks),
         NEW task \in Tasks, Trails(whole, done, q, f)
  PROVE  Trails(whole \o Part(f, task), done, Append(q, task), f)
<1>1. PICK rest \in [0..Len(q) -> Seq(Nat)] :
         /\ whole = done \o rest[0]
         /\ \A i \in 1..Len(q) : rest[i - 1] = Part(f, q[i]) \o rest[i]
         /\ rest[Len(q)] = <<>>
  BY DEF Trails
<1> DEFINE new == Part(f, task)
           n == Len(q)
           longer == [i \in 0..(n + 1) |-> IF i = n + 1 THEN <<>> ELSE rest[i] \o new]
<1>2. /\ n \in Nat /\ Len(Append(q, task)) = n + 1
      /\ \A i \in 1..n : Append(q, task)[i] = q[i]
      /\ Append(q, task)[n + 1] = task
  BY AppendProperties
<1>3. new \in Seq(Nat) /\ \A i \in 1..n : Part(f, q[i]) \in Seq(Nat)
  <2>1. \A i \in 1..n : q[i] \in Tasks
    BY ElementOfSeq
  <2> QED  BY <2>1, PartFacts
<1> HIDE DEF new
<1>4. longer \in [0..(n + 1) -> Seq(Nat)]
  <2>1. \A i \in 0..n : rest[i] \o new \in Seq(Nat)
    BY <1>3, ConcatProperties
  <2>2. <<>> \in Seq(Nat)
    OBVIOUS
  <2>3. \A i \in 0..(n + 1) : i = n + 1 \/ i \in 0..n
    BY <1>2
  <2> HIDE DEF n
  <2> QED  BY <2>1, <2>2, <2>3
<1>5. /\ longer[n + 1] = <<>>
      /\ \A i \in 0..n : longer[i] = rest[i] \o new
  BY <1>2
<1>6. whole \o new = done \o longer[0]
  <2>1. longer[0] = rest[0] \o new /\ rest[0] \in Seq(Nat)
    BY <1>2, <1>5
  <2>2. (done \o rest[0]) \o new = done \o (rest[0] \o new)
    BY <1>3, <2>1, AppendedInTurn
  <2> QED  BY <1>1, <2>1, <2>2
<1>7. ASSUME NEW i \in 1..(n + 1) PROVE longer[i - 1] = Part(f, Append(q, task)[i]) \o longer[i]
  <2>1. CASE i = n + 1
    <3>1. longer[n] = rest[n] \o new /\ (n + 1) - 1 = n
      BY <1>2, <1>5
    <3>2. rest[n] \o new = new /\ new \o <<>> = new
      BY <1>1, <1>3
    <3> QED  BY <1>2, <1>5, <2>1, <3>1, <3>2 DEF new
  <2>2. CASE i # n + 1
    <3>1. i \in 1..n /\ i - 1 \in 0..n /\ i \in 0..n
      BY <1>2, <2>2
    <3>2. longer[i - 1] = rest[i - 1] \o new /\ longer[i] = rest[i] \o new
      BY <1>5, <3>1
    <3>3. (Part(f, q[i]) \o rest[i]) \o new = Part(f, q[i]) \o (rest[i] \o new)
      <4>1. /\ Part(f, q[i]) \in Seq(Nat) /\ rest[i] \in Seq(Nat)
            /\ new \in Seq(Nat)
        BY <1>3, <3>1
      <4> HIDE DEF n, longer
      <4> QED  BY <4>1, AppendedInTurn
    <3> QED  BY <1>1, <1>2, <3>1, <3>2, <3>3
  <2> QED  BY <2>1, <2>2
<1> HIDE DEF longer, n
<1> QED  BY <1>2, <1>4, <1>5, <1>6, <1>7 DEF Trails, new

(* With nothing left in the queue, nothing is on its way.                  *)
LEMMA TrailsEnd ==
  ASSUME NEW f, NEW whole, NEW done \in Seq(Nat), Trails(whole, done, <<>>, f)
  PROVE  whole = done
<1>1. PICK rest \in [0..Len(<<>>) -> Seq(Nat)] : whole = done \o rest[0] /\ rest[Len(<<>>)] = <<>>
  BY DEF Trails
<1> QED  BY <1>1, ConcatEmptySeq

LEMMA ExportInvInit == Init => ExportInv
<1> SUFFICES ASSUME Init PROVE ExportInv
  OBVIOUS
<1>1. /\ writeQueue = <<>> /\ writeStop = FALSE /\ at = "calib"
      /\ asked = [points3D |-> <<>>, images |-> <<>>]
      /\ worker.at = IF opts.pcd \/ opts.images THEN "waiting" ELSE "none"
  BY DEF Init, ExportInit
<1>2. LeaveInv
  BY <1>1 DEF LeaveInv
<1>3. ASSUME NEW f \in Colmap, Wanted(f) PROVE WantedInv(f)
  <2>1. PICK want \in Wants, faults \in SUBSET Faults : file = LoadedFiles(want, faults, opts)
    BY DEF Init, ExportInit
  <2>2. file[f].open /\ file[f].records = <<>>
    <3>1. CASE f = "points3D"
      BY <1>3, <2>1, <3>1 DEF LoadedFiles, Opened, Files, Wanted
    <3>2. CASE f = "images"
      BY <1>3, <2>1, <3>2 DEF LoadedFiles, Opened, Files, Wanted
    <3> QED  BY <3>1, <3>2 DEF Colmap
  <2>3. asked[f] = <<>> /\ InHand(f) = <<>>
    BY <1>1 DEF Colmap, InHand
  <2>4. Trails(<<>>, <<>> \o <<>>, <<>>, f)
    <3> DEFINE rest == [i \in 0..0 |-> <<>>]
    <3>1. rest \in [0..0 -> Seq(Nat)] /\ rest[0] = <<>>
      OBVIOUS
    <3>2. <<>> = (<<>> \o <<>>) \o rest[0] /\ Len(<<>>) = 0
      BY <3>1
    <3> HIDE DEF rest
    <3> QED  BY <3>1, <3>2 DEF Trails
  <2>5. <<>> \in Seq(Nat) /\ at \notin Closed(f)
    BY <1>1 DEF Closed
  <2>6. Trails(asked[f], file[f].records \o InHand(f), writeQueue, f)
    BY <1>1, <2>2, <2>3, <2>4
  <2> QED  BY <2>2, <2>3, <2>5, <2>6 DEF WantedInv
<1> QED  BY <1>2, <1>3 DEF ExportInv

(* A file a step has nothing to do with.                                   *)
LEMMA WantedStays ==
  ASSUME NEW CONSTANT f, WantedInv(f), UNCHANGED <<asked, writeQueue>>, file'[f] = file[f],
         InHand(f)' = InHand(f), at' \in Closed(f) <=> at \in Closed(f)
  PROVE  WantedInv(f)'
BY DEF WantedInv, Closed

LEMMA ExportInvWorker ==
  ASSUME IInv, ExportInv, WorkerStep
  PROVE  ExportInv'
<1>1. /\ at' = at /\ at \notin {"done", "killed"} /\ Worker
      /\ UNCHANGED <<opts, writeStop, asked>>
  BY DEF WorkerStep, runVars, Worker, WorkerExits, WorkerTakes, WorkerWritesPoints, WorkerWritesImage
<1>2. LeaveInv /\ \A f \in Colmap : Wanted(f) => WantedInv(f)
  BY <1>1 DEF ExportInv
<1>3. at # "close"
  BY <1>1, <1>2 DEF LeaveInv, Joined, Worker, WorkerExits, WorkerTakes, WorkerWritesPoints,
                    WorkerWritesImage
<1>4. \A f \in Colmap : at \notin Closed(f) /\ (Wanted(f)' <=> Wanted(f))
  BY <1>1, <1>3 DEF Closed, Wanted
<1>5. /\ writeQueue \in Seq(Tasks) /\ worker = [at |-> worker.at, task |-> worker.task]
      /\ worker.at \in {"points", "image"} => worker.task \in Tasks
      /\ \A f \in Colmap : file[f].records \in Seq(Nat)
  BY DEF IInv, WorkInv, FileInv, HeaderInv
<1>6. CASE WorkerExits
  <2>1. LeaveInv'
    BY <1>1, <1>2, <1>3, <1>6 DEF LeaveInv, WorkerExits, WorkerMayExit
  <2>2. ASSUME NEW CONSTANT f \in Colmap, Wanted(f)' PROVE WantedInv(f)'
    <3>1. InHand(f)' = InHand(f) /\ file'[f] = file[f] /\ writeQueue' = writeQueue
      BY <1>5, <1>6 DEF WorkerExits, InHand
    <3> QED  BY <1>1, <1>2, <1>4, <2>2, <3>1, WantedStays
  <2> QED  BY <2>1, <2>2 DEF ExportInv
<1>7. CASE WorkerTakes
  <2>1. LeaveInv'
    BY <1>1, <1>2, <1>3, <1>7 DEF LeaveInv, WorkerTakes
  <2>2. ASSUME NEW CONSTANT f \in Colmap, Wanted(f)' PROVE WantedInv(f)'
    <3>1. /\ InHand(f) = <<>> /\ InHand(f)' = Part(f, Head(writeQueue))
          /\ file'[f] = file[f] /\ writeQueue' = Tail(writeQueue) /\ writeQueue # <<>>
      BY <1>7 DEF WorkerTakes, InHand
    <3>2. Trails(asked[f], file[f].records, writeQueue, f)
      <4>1. file[f].records \o InHand(f) = file[f].records
        BY <1>5, <3>1, NothingMore
      <4>2. Trails(asked[f], file[f].records \o InHand(f), writeQueue, f)
        BY <1>2, <1>4, <2>2 DEF WantedInv
      <4> QED  BY <4>1, <4>2
    <3>3. Trails(asked[f], file[f].records \o Part(f, Head(writeQueue)), Tail(writeQueue), f)
      BY <1>5, <3>1, <3>2, TrailsTake
    <3> QED  BY <1>1, <1>2, <1>4, <2>2, <3>1, <3>3 DEF WantedInv, Closed
  <2> QED  BY <2>1, <2>2 DEF ExportInv
<1>8. CASE WorkerWritesPoints
  <2>1. worker.at = "points" /\ worker' = [worker EXCEPT !.at = "image"] /\ writeQueue' = writeQueue
    BY <1>8 DEF WorkerWritesPoints
  <2>2. worker'.at = "image" /\ worker'.task = worker.task /\ worker.task \in Tasks
    BY <1>5, <2>1
  <2>3. LeaveInv'
    BY <1>1, <1>2, <1>3, <2>1, <2>2 DEF LeaveInv
  <2>4. ASSUME Wanted("images")' PROVE WantedInv("images")'
    <3>1. file'["images"] = file["images"]
      <4>1. CASE file' = file
        BY <4>1
      <4>2. CASE file' # file
        <5>1. PICK recs : file' = Appended("points3D", recs)
          BY <1>8, <4>2 DEF WorkerWritesPoints
        <5>2. file = [f \in Files |-> file[f]]
          BY DEF IInv, FileInv, ShapeInv
        <5> QED  BY <5>1, <5>2 DEF Appended, Files
      <4> QED  BY <4>1, <4>2
    <3>2. InHand("images")' = InHand("images")
      BY <2>1, <2>2 DEF InHand, Part
    <3>3. "images" \in Colmap
      BY DEF Colmap
    <3> QED  BY <1>1, <1>2, <1>4, <2>1, <2>4, <3>1, <3>2, <3>3, WantedStays
  <2>5. ASSUME Wanted("points3D")' PROVE WantedInv("points3D")'
    <3>0. "points3D" \in Colmap
      BY DEF Colmap
    <3> DEFINE recs == file["points3D"].records
               pts  == worker.task.points
    <3>1. WantedInv("points3D") /\ file["points3D"].open /\ opts.pcd
      BY <1>2, <1>4, <2>5, <3>0 DEF Wanted, WantedInv
    <3>2. file' = Appended("points3D", pts)
      BY <1>8, <3>1 DEF WorkerWritesPoints
    <3>3. pts \in Seq(Nat) /\ recs \in Seq(Nat)
      BY <1>5, <2>2, <3>0 DEF Tasks
    <3>4. file'["points3D"].records = recs \o pts /\ file'["points3D"].open
      <4>1. file = [f \in Files |-> file[f]] /\ IsHandle(file["points3D"])
        BY DEF IInv, FileInv, ShapeInv, Files
      <4> QED  BY <3>1, <3>2, <4>1 DEF Appended, IsHandle, Files
    <3>5. InHand("points3D") = pts /\ InHand("points3D")' = <<>>
      BY <2>1, <2>2 DEF InHand, Part
    <3> HIDE DEF recs, pts
    <3>6. file'["points3D"].records \o InHand("points3D")' = recs \o InHand("points3D")
      <4>1. recs \o pts \in Seq(Nat)
        BY <3>3
      <4>2. (recs \o pts) \o <<>> = recs \o pts
        BY ONLY <4>1, NothingMore
      <4> QED  BY <3>4, <3>5, <4>2
    <3>7. Trails(asked["points3D"], file["points3D"].records \o InHand("points3D"), writeQueue, "points3D")'
      BY <1>1, <2>1, <3>1, <3>6 DEF WantedInv, recs
    <3> QED  BY <1>1, <1>4, <3>0, <3>1, <3>4, <3>7 DEF WantedInv, Closed
  <2> QED  BY <2>3, <2>4, <2>5 DEF ExportInv, Colmap
<1>9. CASE WorkerWritesImage
  <2>1. worker.at = "image" /\ worker' = [at |-> "waiting", task |-> <<>>] /\ writeQueue' = writeQueue
    BY <1>9 DEF WorkerWritesImage
  <2>2. worker'.at = "waiting" /\ worker.task \in Tasks
    BY <1>5, <2>1
  <2>3. LeaveInv'
    BY <1>1, <1>2, <1>3, <2>1, <2>2 DEF LeaveInv
  <2>4. ASSUME Wanted("points3D")' PROVE WantedInv("points3D")'
    <3>1. file'["points3D"] = file["points3D"]
      <4>1. CASE file' = file
        BY <4>1
      <4>2. CASE file' # file
        <5>1. PICK recs : file' = Appended("images", recs)
          BY <1>9, <4>2 DEF WorkerWritesImage
        <5>2. file = [f \in Files |-> file[f]]
          BY DEF IInv, FileInv, ShapeInv
        <5> QED  BY <5>1, <5>2 DEF Appended, Files
      <4> QED  BY <4>1, <4>2
    <3>2. InHand("points3D")' = InHand("points3D")
      BY <2>1, <2>2 DEF InHand
    <3>3. "points3D" \in Colmap
      BY DEF Colmap
    <3> QED  BY <1>1, <1>2, <1>4, <2>1, <2>4, <3>1, <3>2, <3>3, WantedStays
  <2>5. ASSUME Wanted("images")' PROVE WantedInv("images")'
    <3>0. "images" \in Colmap
      BY DEF Colmap
    <3> DEFINE recs == file["images"].records
               img  == worker.task.image
    <3>1. WantedInv("images") /\ file["images"].open
      BY <1>2, <1>4, <2>5, <3>0 DEF Wanted, WantedInv
    <3>2. IF img # <<>> THEN file' = Appended("images", img) ELSE file' = file
      BY <1>9, <3>1 DEF WorkerWritesImage
    <3>3. img \in Seq(Nat) /\ recs \in Seq(Nat)
      BY <1>5, <2>2, <3>0, PartFacts DEF Part
    <3>4. file'["images"].records = recs \o img /\ file'["images"].open
      <4>1. file = [f \in Files |-> file[f]] /\ IsHandle(file["images"])
        BY DEF IInv, FileInv, ShapeInv, Files
      <4>2. CASE img # <<>>
        <5>1. file' = Appended("images", img) /\ "images" \in Files
          BY <3>2, <4>2 DEF Files
        <5>2. file'["images"] = [file["images"] EXCEPT !.records = @ \o img]
          BY <4>1, <5>1 DEF Appended
        <5>3. file'["images"].records = file["images"].records \o img
              /\ file'["images"].open = file["images"].open
          BY <4>1, <5>2 DEF IsHandle
        <5> QED  BY <3>1, <5>3
      <4>3. CASE img = <<>>
        BY <3>1, <3>2, <3>3, <4>3, ConcatEmptySeq
      <4> QED  BY <4>2, <4>3
    <3>5. InHand("images") = img /\ InHand("images")' = <<>>
      BY <2>1, <2>2 DEF InHand, Part
    <3> HIDE DEF recs, img
    <3>6. file'["images"].records \o InHand("images")' = recs \o InHand("images")
      <4>1. recs \o img \in Seq(Nat)
        BY <3>3
      <4>2. (recs \o img) \o <<>> = recs \o img
        BY ONLY <4>1, NothingMore
      <4> QED  BY <3>4, <3>5, <4>2
    <3>7. Trails(asked["images"], file["images"].records \o InHand("images"), writeQueue, "images")'
      BY <1>1, <2>1, <3>1, <3>6 DEF WantedInv, recs
    <3> QED  BY <1>1, <1>4, <3>0, <3>1, <3>4, <3>7 DEF WantedInv, Closed
  <2> QED  BY <2>3, <2>4, <2>5 DEF ExportInv, Colmap
<1> QED  BY <1>1, <1>6, <1>7, <1>8, <1>9 DEF Worker

LEMMA ExportInvPublish ==
  ASSUME IInv, ExportInv, Publish
  PROVE  ExportInv'
<1>1. /\ at = "publish" /\ at' = "drain" /\ hand \in Nat
      /\ UNCHANGED <<opts, writeStop, worker>>
  BY DEF Publish, PublishResults, IInv, RunInv
<1>2. LeaveInv /\ \A f \in Colmap : Wanted(f) => WantedInv(f)
  BY <1>1 DEF ExportInv
<1>3. LeaveInv'
  BY <1>1, <1>2 DEF LeaveInv
<1>4. ASSUME NEW CONSTANT f \in Colmap, Wanted(f)' PROVE WantedInv(f)'
  <2>1. WantedInv(f) /\ at \notin Closed(f) /\ at' \notin Closed(f)
    BY <1>1, <1>2, <1>4 DEF Wanted, Closed
  <2>2. file'[f] = file[f]
    BY DEF Publish, PublishResults, PublishOdometry, Colmap, Files
  <2>3. InHand(f)' = InHand(f) /\ file[f].records \o InHand(f) \in Seq(Nat)
    <3>1. InHand(f)' = InHand(f)
      BY <1>1 DEF InHand
    <3>2. file[f].records \in Seq(Nat)
      BY DEF IInv, FileInv, HeaderInv
    <3>3. InHand(f) \in Seq(Nat)
      <4>1. CASE worker.at \in {"points", "image"}
        <5>1. Part(f, worker.task) \in Seq(Nat) /\ <<>> \in Seq(Nat)
          BY <4>1, PartFacts DEF IInv, WorkInv
        <5> QED  BY <5>1 DEF InHand
      <4>2. CASE worker.at \notin {"points", "image"}
        BY <4>2 DEF InHand
      <4> QED  BY <4>1, <4>2
    <3> QED  BY <3>1, <3>2, <3>3
  <2>4. writeQueue \in Seq(Tasks)
    BY DEF IInv, WorkInv
  <2>5. PICK visible \in 0..MaxVisible :
          LET task == Task(hand, visible)
          IN /\ writeQueue' = IF task.wanted
                              THEN Append(writeQueue, [points |-> task.points, image |-> task.image])
                              ELSE writeQueue
             /\ asked' = [points3D |-> asked.points3D \o task.points,
                          images |-> asked.images \o task.image]
    BY DEF Publish, PublishResults
  <2> DEFINE task == Task(hand, visible)
  <2>6. task.points \in Seq(Nat) /\ task.image \in Images
    <3>1. [i \in 1..visible |-> hand] \in Seq(Nat)
      BY <1>1, ExportAssumption
    <3> QED  BY <1>1, <3>1 DEF Task, Images
  <2>7. ~task.wanted => task.points = <<>> /\ task.image = <<>>
    BY DEF Task
  <2> HIDE DEF task
  <2>8. PICK new : new = [points |-> task.points, image |-> task.image]
    OBVIOUS
  <2>9. new \in Tasks /\ new.points = task.points /\ new.image = task.image
    BY <2>6, <2>8 DEF Tasks
  <2>10. /\ Part(f, new) \in Seq(Nat) /\ asked[f] \in Seq(Nat)
         /\ asked'[f] = asked[f] \o Part(f, new)
         /\ ~task.wanted => Part(f, new) = <<>>
    <3>1. asked'[f] = asked[f] \o Part(f, new)
      <4>1. asked' = [points3D |-> asked.points3D \o task.points,
                      images |-> asked.images \o task.image]
        BY <2>5 DEF task
      <4>2. asked'.points3D = asked.points3D \o task.points
            /\ asked'.images = asked.images \o task.image
        BY <4>1
      <4>3. CASE f = "points3D"
        BY <2>9, <4>2, <4>3 DEF Part
      <4>4. CASE f = "images"
        BY <2>9, <4>2, <4>4 DEF Part
      <4> QED  BY <4>3, <4>4 DEF Colmap
    <3> QED  BY <2>1, <2>7, <2>9, <3>1, PartFacts DEF Part, WantedInv
  <2>11. asked'[f] \in Seq(Nat)
    BY <2>10
  <2>12. Trails(asked'[f], file[f].records \o InHand(f), writeQueue', f)
    <3>1. Trails(asked[f], file[f].records \o InHand(f), writeQueue, f)
      BY <2>1 DEF WantedInv
    <3>2. CASE task.wanted
      <4>1. writeQueue' = Append(writeQueue, new)
        BY <2>5, <2>8, <3>2 DEF task
      <4> QED  BY <2>3, <2>4, <2>9, <2>10, <3>1, <4>1, TrailsPut
    <3>3. CASE ~task.wanted
      <4>1. writeQueue' = writeQueue /\ Part(f, new) = <<>>
        BY <2>5, <2>10, <3>3 DEF task
      <4>2. asked[f] \o <<>> = asked[f]
        BY <2>10, NothingMore
      <4>3. asked'[f] = asked[f]
        BY <2>10, <4>1, <4>2
      <4> QED  BY <3>1, <4>1, <4>3
    <3> QED  BY <3>2, <3>3
  <2> QED  BY <2>1, <2>2, <2>3, <2>11, <2>12 DEF WantedInv, Closed
<1> QED  BY <1>3, <1>4 DEF ExportInv

(* A header is written once everything asked for is in the file.           *)
LEMMA WantedClosed ==
  ASSUME NEW CONSTANT f \in Colmap, ShapeInv, HeaderInv(f), WantedInv(f),
         at \notin Closed(f), at' \in Closed(f),
         UNCHANGED <<asked, writeQueue>>, InHand(f)' = InHand(f),
         file'[f] = Patched(f, TRUE, CountOf(f))
  PROVE  WantedInv(f)'
<1>1. file[f].open /\ CountOf(f) = Len(file[f].records) /\ IsHandle(file[f])
  BY DEF WantedInv, HeaderInv, Placeholder, ShapeInv, Colmap, Files
<1>2. file'[f].records = file[f].records /\ file'[f].header = Len(file[f].records)
  BY <1>1 DEF Patched, IsHandle
<1> QED  BY <1>2 DEF WantedInv, Closed

LEMMA ExportInvClose ==
  ASSUME IInv, ExportInv, ExportColmap \/ JoinAndCloseImages \/ FinishRun
  PROVE  ExportInv'
<1>1. /\ at \in {"export", "join", "close"}
      /\ UNCHANGED <<opts, writeQueue, worker, asked>>
  BY DEF ExportColmap, JoinAndCloseImages, FinishRun, StopWorker, CloseImages, ClosePoints
<1>2. LeaveInv /\ \A f \in Colmap : Wanted(f) => WantedInv(f)
  BY <1>1 DEF ExportInv
<1>3. \A f \in Colmap : InHand(f)' = InHand(f) /\ (Wanted(f)' <=> Wanted(f))
  BY <1>1 DEF InHand, Wanted
<1>4. ShapeInv /\ \A f \in Colmap : HeaderInv(f)
  BY DEF IInv, FileInv
<1>5. CASE ExportColmap
  <2>1. at = "export" /\ at' = "join" /\ file' = file /\ writeStop' = (worker.at # "none")
    BY <1>5 DEF ExportColmap, StopWorker
  <2>2. LeaveInv'
    BY <1>1, <1>2, <2>1 DEF LeaveInv
  <2>3. ASSUME NEW CONSTANT f \in Colmap, Wanted(f)' PROVE WantedInv(f)'
    <3>1. at \notin Closed(f) /\ at' \notin Closed(f)
      BY <2>1 DEF Closed
    <3> QED  BY <1>1, <1>2, <1>3, <2>1, <2>3, <3>1, WantedStays
  <2> QED  BY <2>2, <2>3 DEF ExportInv
<1>6. CASE JoinAndCloseImages
  <2>1. at = "join" /\ at' = "close" /\ Joined /\ writeStop' = writeStop
    BY <1>6 DEF JoinAndCloseImages, CloseImages
  <2>2. file'["points3D"] = file["points3D"]
        /\ file'["images"] = Patched("images", opts.path /\ opts.images, imagesCount)
    BY <1>6 DEF JoinAndCloseImages, CloseImages, Files
  <2>3. LeaveInv'
    BY <1>1, <1>2, <2>1 DEF LeaveInv, Joined
  <2>4. ASSUME Wanted("points3D")' PROVE WantedInv("points3D")'
    <3>1. "points3D" \in Colmap /\ at \notin Closed("points3D") /\ at' \notin Closed("points3D")
      BY <2>1 DEF Closed, Colmap
    <3> QED  BY <1>1, <1>2, <1>3, <2>2, <2>4, <3>1, WantedStays
  <2>5. ASSUME Wanted("images")' PROVE WantedInv("images")'
    <3>1. "images" \in Colmap /\ at \notin Closed("images") /\ at' \in Closed("images")
      BY <2>1 DEF Closed, Colmap
    <3>2. file'["images"] = Patched("images", TRUE, CountOf("images"))
      BY <1>3, <2>2, <2>5, <3>1 DEF Wanted, CountOf, Patched
    <3> QED  BY <1>1, <1>2, <1>3, <1>4, <2>5, <3>1, <3>2, WantedClosed
  <2> QED  BY <2>3, <2>4, <2>5 DEF ExportInv, Colmap
<1>7. CASE FinishRun
  <2>1. at = "close" /\ at' = "done" /\ writeStop' = writeStop
    BY <1>7 DEF FinishRun, ClosePoints
  <2>2. file'["images"] = file["images"]
        /\ file'["points3D"] = Patched("points3D", opts.path /\ opts.pcd, points3dCount)
    BY <1>4, <1>7 DEF FinishRun, ClosePoints, ShapeInv, Files
  <2>3. LeaveInv'
    BY <1>1, <1>2, <2>1 DEF LeaveInv, Joined
  <2>4. ASSUME Wanted("images")' PROVE WantedInv("images")'
    <3>1. "images" \in Colmap /\ at \in Closed("images") /\ at' \in Closed("images")
      BY <2>1 DEF Closed, Colmap
    <3> QED  BY <1>1, <1>2, <1>3, <2>2, <2>4, <3>1, WantedStays
  <2>5. ASSUME Wanted("points3D")' PROVE WantedInv("points3D")'
    <3>1. "points3D" \in Colmap /\ at \notin Closed("points3D") /\ at' \in Closed("points3D")
      BY <2>1 DEF Closed, Colmap
    <3>2. file'["points3D"] = Patched("points3D", TRUE, CountOf("points3D"))
      BY <1>3, <2>2, <2>5, <3>1 DEF Wanted, CountOf, Patched
    <3> QED  BY <1>1, <1>2, <1>3, <1>4, <2>5, <3>1, <3>2, WantedClosed
  <2> QED  BY <2>3, <2>4, <2>5 DEF ExportInv, Colmap
<1> QED  BY <1>5, <1>6, <1>7

LEMMA ExportInvStep == IInv /\ ExportInv /\ [Next]_vars => ExportInv'
<1> SUFFICES ASSUME IInv, ExportInv, [Next]_vars PROVE ExportInv'
  OBVIOUS
<1>1. CASE WorkerStep
  BY <1>1, ExportInvWorker
<1>2. CASE Publish
  BY <1>2, ExportInvPublish
<1>3. CASE ExportColmap \/ JoinAndCloseImages \/ FinishRun
  BY <1>3, ExportInvClose
<1>4. CASE Kill
  BY <1>4 DEF Kill, ExportInv
<1>5. CASE UNCHANGED exportVars /\ (at' = at \/ {at, at'} \cap {"join", "close", "done", "killed"} = {})
  <2>1. LeaveInv => LeaveInv'
    BY <1>5 DEF LeaveInv, Joined, exportVars
  <2>2. ASSUME NEW CONSTANT f \in Colmap, WantedInv(f) PROVE WantedInv(f)'
    <3>1. InHand(f)' = InHand(f) /\ (at' \in Closed(f) <=> at \in Closed(f))
      BY <1>5 DEF InHand, Closed, exportVars
    <3> QED  BY <1>5, <2>2, <3>1, WantedStays DEF exportVars
  <2>3. \A f \in Colmap : Wanted(f)' <=> Wanted(f)
    BY <1>5 DEF Wanted, exportVars
  <2>4. at # "killed" <=> at' # "killed"
    BY <1>5
  <2> QED  BY <2>1, <2>2, <2>3, <2>4 DEF ExportInv
<1>6. CASE Calibrate \/ LeaveCalibration \/ Receive \/ ReceiveNothing \/ Estimate \/ UpdateMaps
  BY <1>5, <1>6 DEF Calibrate, LeaveCalibration, Receive, ReceiveNothing, Estimate, UpdateMaps
<1>7. CASE Turn \/ LeaveLoop \/ StopTracking \/ JoinTracking \/ TrackerAnswers \/ TimePasses \/ RosStops
  BY <1>5, <1>7 DEF Turn, LeaveLoop, StopTracking, JoinTracking, TrackerAnswers, TimePasses, RosStops
<1>8. CASE UNCHANGED vars
  BY <1>5, <1>8 DEF vars, runVars
<1> QED  BY <1>1, <1>2, <1>3, <1>4, <1>6, <1>7, <1>8 DEF Next, MainStep

(* A run that reached its end left on disk everything that was handed to   *)
(* the worker, in order, and headers that count it (writeWorker() drains   *)
(* its queue before it leaves; exportColmap() joins before it counts).     *)
THEOREM ExportCorrect == Spec => []ExportComplete
<1>1. IInv /\ ExportInv => ExportComplete
  <2> SUFFICES ASSUME IInv, ExportInv, at = "done", opts.path PROVE ExportComplete
    BY DEF ExportComplete
  <2>1. LeaveInv /\ \A f \in Colmap : Wanted(f) => WantedInv(f)
    BY DEF ExportInv
  <2>2. ASSUME NEW f \in Colmap, Wanted(f)
        PROVE  file[f].records = asked[f] /\ file[f].header = Len(asked[f])
    <3>1. WantedInv(f) /\ at \in Closed(f)
      BY <2>1, <2>2 DEF Closed
    <3>2. worker.at = "exited" /\ writeQueue = <<>>
      BY <2>1, <2>2 DEF LeaveInv, Joined, Wanted
    <3>3. InHand(f) = <<>> /\ file[f].records \in Seq(Nat)
      BY <3>2 DEF InHand, IInv, FileInv, HeaderInv
    <3>4. file[f].records \o InHand(f) = file[f].records
      BY <3>3, NothingMore
    <3>5. Trails(asked[f], file[f].records, <<>>, f)
      BY <3>1, <3>2, <3>4 DEF WantedInv
    <3>6. asked[f] = file[f].records
      BY <3>3, <3>5, TrailsEnd
    <3> QED  BY <3>1, <3>6 DEF WantedInv
  <2>3. "points3D" \in Colmap /\ "images" \in Colmap
    BY DEF Colmap
  <2>4. (opts.pcd => Wanted("points3D")) /\ (opts.images => Wanted("images"))
    BY DEF Wanted
  <2> QED  BY <2>2, <2>3, <2>4 DEF ExportComplete
<1>2. IInv /\ ExportInv /\ [Next]_vars => ExportInv'
  BY ExportInvStep
<1> QED  BY <1>1, <1>2, ExportInvInit, RunInvariant, PTL DEF Spec
-----------------------------------------------------------------------------
(***************************************************************************)
(* Start-up, for any set of parameter files: a node that starts holds      *)
(* every value it was given, and a well-formed file starts.                *)
(***************************************************************************)
StageName(i) == Append(Stages, "done")[i]

\* The keys the i-th loader registers.
Registers(i) ==
  << NodeKeys,
     StateKeys \cup LaterStateKeys \cup {Distortion},
     VoxelPlainKeys \cup LiveKeys(VoxelOptions),
     {VioOn, VioEkf, <<"log", "vio">>},
     {CombinedOn, VioEkf, <<"log", "combined">>},
     IF TrackerWanted THEN TrackerKeys ELSE {<<"tracker">>, UvTracking},
     {<<"viz", "enable">>, <<"outputs", "path">>, <<"log", "pose_pair">>},
     {<<"topics", "lidar">>, LidarType, Perturb, EvoOn, EvoSource, TimeMode, TimeRef}
       \cup CancellerReads(Vibration) \cup CancellerReads(MotionBand)
       \cup CancellerMarks(Vibration) \cup CancellerMarks(MotionBand),
     {NumFrames, DsMode, DsLeaf, RangeErr, NoiseFloor},
     {<<"imu", "second_order">>, NoiseModel, <<"log", "imu">>},
     LioPlainKeys \cup LiveKeys(LioOptions),
     EvoKeys,
     {OfflineBag, <<"common", "insert_map_after_lio">>} >>[i]

\* What a consumed key says of the keys at or below it.
Accounted(p) ==
  \/ \A k \in DOMAIN config : Under(p, k) => k = p /\ k \in taken
  \/ \A k \in DOMAIN config : Under(p, k) => Parked(k)
  \/ p \in LooselyRead

\* The loaders before the stage have run and refused nothing.
LoadedUpTo(i) ==
  /\ \A j \in 1..(i - 1) : j <= 13 /\ (j = 2 => Value(Extrinsics, "short") = "ok") => Registers(j) \subseteq consumed
  /\ i > 3 => Complaints(VoxelOptions) = {}
  /\ i > 11 => Complaints(LioOptions) = {}

ParamInv ==
  /\ config \in Configs
  /\ \E i \in 1..15 : stage = StageName(i) /\ LoadedUpTo(i)
  /\ \A p \in consumed : Accounted(p)
  /\ verdict = "started" => stage = "done" /\ \A k \in DOMAIN config : Consumed(k)
  /\ WellFormed => verdict # "refused"

-----------------------------------------------------------------------------
(* The file does not change while it is loaded.                            *)

LEMMA StageNames ==
  /\ StageName(1) = "node" /\ StageName(2) = "state" /\ StageName(3) = "voxel_map" /\ StageName(4) = "vio"
  /\ StageName(5) = "combined" /\ StageName(6) = "tracker" /\ StageName(7) = "pub" /\ StageName(8) = "cbk"
  /\ StageName(9) = "calib" /\ StageName(10) = "imu" /\ StageName(11) = "lio" /\ StageName(12) = "evo"
  /\ StageName(13) = "common" /\ StageName(14) = "check" /\ StageName(15) = "done"
BY DEF StageName, Stages

LEMMA StagesDiffer ==
  ASSUME NEW i \in 1..15, NEW j \in 1..15, StageName(i) = StageName(j)
  PROVE  i = j
<1>1. \A n \in 1..15 : \/ n = 1 \/ n = 2 \/ n = 3 \/ n = 4 \/ n = 5 \/ n = 6 \/ n = 7 \/ n = 8
                       \/ n = 9 \/ n = 10 \/ n = 11 \/ n = 12 \/ n = 13 \/ n = 14 \/ n = 15
  OBVIOUS
<1> QED  BY <1>1, StageNames

LEMMA NextStage ==
  ASSUME NEW n \in 1..14
  PROVE  After(StageName(n)) = StageName(n + 1)
<1>1. Len(Stages) = 14 /\ \A j \in 1..14 : StageName(j) = Stages[j]
  BY DEF StageName, Stages
<1>2. \A j \in 1..Len(Stages) : Stages[j] = StageName(n) <=> j = n
  BY <1>1, StagesDiffer
<1> DEFINE place == CHOOSE j \in 1..Len(Stages) : Stages[j] = StageName(n)
<1>3. place = n
  BY <1>1, <1>2
<1>4. n = 14 => StageName(n + 1) = "done"
  BY StageNames
<1>5. After(StageName(n)) = IF place = Len(Stages) THEN "done" ELSE Stages[place + 1]
  BY DEF After
<1>6. n # 14 => n + 1 \in 1..14
  OBVIOUS
<1> HIDE DEF place
<1> QED  BY <1>1, <1>3, <1>4, <1>5, <1>6

\* What is said of the file stays.
Frozen ==
  /\ config' = config /\ backendUp' = backendUp
  /\ \A k : Parked(k)' <=> Parked(k)
  /\ (TrackerWanted' <=> TrackerWanted) /\ (WellFormed' <=> WellFormed)
  /\ Value(Extrinsics, "short")' = Value(Extrinsics, "short")
  /\ Complaints(VoxelOptions)' = Complaints(VoxelOptions)
  /\ Complaints(LioOptions)' = Complaints(LioOptions)
  /\ \A i \in 1..13 : Registers(i)' = Registers(i)

LEMMA FileStays == UNCHANGED <<config, backendUp>> => Frozen
<1> SUFFICES ASSUME config' = config, backendUp' = backendUp PROVE Frozen
  OBVIOUS
<1>1. \A k : Given(k)' <=> Given(k)
  BY DEF Given
<1>2. \A k, d : Value(k, d)' = Value(k, d)
  BY <1>1 DEF Value
<1>3. \A k : On(k)' <=> On(k)
  BY <1>2 DEF On
<1>4. \A o : Resolved(o)' = Resolved(o)
  BY <1>2 DEF Resolved, Legal
<1>5. (HardForm' <=> HardForm) /\ LineRule' = LineRule
  BY <1>4 DEF HardForm, LineRule
<1>6. Resolved(LineRule)' = Resolved(LineRule)
  BY <1>2, <1>5 DEF Resolved, Legal
<1>7. RelSigmas' = RelSigmas /\ ShapeRatio' = ShapeRatio
  BY <1>5, <1>6 DEF RelSigmas, ShapeRatio
<1>8. VoxelOptions' = VoxelOptions
  BY <1>3, <1>4, <1>5, <1>7 DEF VoxelOptions
<1>9. Resolved(Binning)' = Resolved(Binning) /\ Resolved(InfoScale)' = Resolved(InfoScale)
  BY <1>4
<1>10. InfoRotation' = InfoRotation /\ Shift' = Shift /\ RotShift' = RotShift
  BY <1>4 DEF InfoRotation, Shift, RotShift
<1>11. LioOptions' = LioOptions
  BY <1>2, <1>4, <1>10 DEF LioOptions, DsOn
<1>12. \A options : Complaints(options)' = Complaints(options) /\ LiveKeys(options)' = LiveKeys(options)
  BY <1>1, <1>2 DEF Complaints, LiveKeys, Legal
<1>13. /\ Complaints(VoxelOptions)' = Complaints(VoxelOptions) /\ LiveKeys(VoxelOptions)' = LiveKeys(VoxelOptions)
       /\ Complaints(LioOptions)' = Complaints(LioOptions) /\ LiveKeys(LioOptions)' = LiveKeys(LioOptions)
  BY <1>1, <1>2, <1>8, <1>11 DEF Complaints, LiveKeys, Legal
<1>14. TrackerWanted' <=> TrackerWanted
  BY <1>2, <1>3 DEF TrackerWanted
<1>15. \A b : Enabled(b)' <=> Enabled(b)
  BY <1>3 DEF Enabled
<1>16. \A b : CancellerReads(b)' = CancellerReads(b) /\ CancellerMarks(b)' = CancellerMarks(b)
  BY <1>15 DEF CancellerReads, CancellerMarks
<1>17. \A k : Parked(k)' <=> Parked(k)
  BY <1>14, <1>15 DEF Parked
<1>18. LaterStateKeys' = LaterStateKeys
  BY <1>3 DEF LaterStateKeys
<1>19. \A i \in 1..13 : Registers(i)' = Registers(i)
  BY <1>13, <1>14, <1>16, <1>18 DEF Registers
<1>20. Options' = Options /\ LiveKeys(Options)' = LiveKeys(Options)
  BY <1>8, <1>11 DEF Options, LiveKeys
<1>21. Documented' = Documented
  BY <1>18, <1>20 DEF Documented
<1>22. \A k, allowed : NotOneOf(k, allowed)' <=> NotOneOf(k, allowed)
  BY <1>1, <1>2 DEF NotOneOf
<1>23. \A keys : AnyGiven(keys)' <=> AnyGiven(keys)
  BY <1>1 DEF AnyGiven
<1>24. VoxelClash' <=> VoxelClash
  BY <1>2, <1>4, <1>5 DEF VoxelClash
<1>25. (LioClash' <=> LioClash) /\ (LioInert' <=> LioInert)
  <2>1. /\ Resolved(InfoRotation)' = Resolved(InfoRotation) /\ Resolved(Shift)' = Resolved(Shift)
        /\ Resolved(RotShift)' = Resolved(RotShift)
    BY <1>2, <1>10 DEF Resolved, Legal
  <2> QED  BY <1>2, <1>9, <1>10, <2>1 DEF LioClash, LioInert
<1>26. \A keys : OutOfRange(keys)' <=> OutOfRange(keys)
  BY <1>2 DEF OutOfRange
<1>27. WellFormed' <=> WellFormed
  BY <1>1, <1>2, <1>3, <1>14, <1>15, <1>20, <1>21, <1>22, <1>23, <1>24, <1>25, <1>26 DEF WellFormed, Legal, FileMode
<1> QED  BY <1>2, <1>13, <1>14, <1>17, <1>19, <1>27 DEF Frozen
-----------------------------------------------------------------------------
(* One loader.                                                             *)

\* A value of the right type is the value of a key that was set itself.
LEMMA ReadAccounted ==
  ASSUME config \in Configs, NEW p, Value(p, "ok") # "mistyped", NEW k \in DOMAIN config, Under(p, k)
  PROVE  k = p
<1>1. Given(p)
  BY DEF Given
<1>2. p \in DOMAIN config
  BY <1>1 DEF Value
<1> QED  BY <1>2, ConfigAssumption

\* Nothing set below a mark is missed.
Excused(m) == m \in LooselyRead \/ \A k \in DOMAIN config : Under(m, k) => Parked(k)

\* The last two conditions are for the loaders that resolve options.
LEMMA LoadStep ==
  ASSUME ParamInv, NEW i \in 1..13, NEW name, name = StageName(i), NEW STATE reads, NEW STATE marks,
         NEW STATE throws, throws \in BOOLEAN,
         Load(name, reads, marks, throws),
         i # 2 \/ Value(Extrinsics, "short") = "ok" => Registers(i) \subseteq reads \cup marks,
         \A m \in marks : Excused(m),
         WellFormed /\ LoadedUpTo(i) =>
           ~throws /\ \A k \in reads \ VectorKeys : Value(k, "ok") # "mistyped",
         i = 3 /\ ~throws => Complaints(VoxelOptions) = {},
         i = 11 /\ ~throws => Complaints(LioOptions) = {}
  PROVE  ParamInv'
<1>1. Frozen
  BY FileStays DEF Load, Refuse, Proceed
<1>2. PICK j \in 1..15 : stage = StageName(j) /\ LoadedUpTo(j)
  BY DEF ParamInv
<1>3. j = i /\ LoadedUpTo(i) /\ stage = name /\ verdict = "loading"
  <2>1. stage = name /\ verdict = "loading"
    BY DEF Load
  <2>2. i \in 1..15 /\ StageName(i) = StageName(j)
    BY <1>2, <2>1
  <2>3. i = j
    BY <2>2, StagesDiffer
  <2> QED  BY <1>2, <2>1, <2>3
<1>4. CASE throws \/ \E k \in reads \ VectorKeys : Value(k, "ok") = "mistyped"
  <2>1. verdict' = "refused" /\ UNCHANGED <<stage, consumed, taken>>
    BY <1>4 DEF Load, Refuse
  <2>2. ~WellFormed
    BY <1>3, <1>4
  <2>3. LoadedUpTo(i)'
    BY <1>1, <1>3, <2>1 DEF LoadedUpTo, Frozen
  <2>4. \A p \in consumed : Accounted(p)'
    BY <1>1, <2>1 DEF ParamInv, Accounted, Frozen
  <2> QED  BY <1>1, <1>3, <2>1, <2>2, <2>3, <2>4 DEF ParamInv, Frozen
<1>5. CASE ~(throws \/ \E k \in reads \ VectorKeys : Value(k, "ok") = "mistyped")
  <2>1. /\ consumed' = consumed \cup reads \cup marks /\ taken' = taken \cup (reads \cap DOMAIN config)
        /\ stage' = After(name) /\ verdict' = "loading"
    BY <1>3, <1>5 DEF Load, Proceed
  <2>2. stage' = StageName(i + 1) /\ i + 1 \in 1..15
    BY <2>1, NextStage
  <2>3. LoadedUpTo(i + 1)'
    <3>1. \A n \in 1..13 : Registers(n)' = Registers(n)
      BY <1>1 DEF Frozen
    <3>2. ASSUME NEW n \in 1..i, n <= 13, n = 2 => Value(Extrinsics, "short") = "ok"
          PROVE  Registers(n) \subseteq consumed'
      <4>1. CASE n = i
        BY <3>2, <4>1, <2>1
      <4>2. CASE n # i
        <5>1. n \in 1..(i - 1)
          BY <4>2
        <5> QED  BY <1>3, <2>1, <3>2, <5>1 DEF LoadedUpTo
      <4> QED  BY <4>1, <4>2
    <3>3. \A n \in 1..((i + 1) - 1) : n \in 1..i /\ n \in 1..13
      OBVIOUS
    <3>4. \A n \in 1..((i + 1) - 1) : n <= 13 /\ (n = 2 => Value(Extrinsics, "short")' = "ok")
                                     => Registers(n)' \subseteq consumed'
      BY <1>1, <3>1, <3>2, <3>3 DEF Frozen
    <3>5. (i + 1 > 3 => Complaints(VoxelOptions) = {}) /\ (i + 1 > 11 => Complaints(LioOptions) = {})
      <4>1. i = 3 => Complaints(VoxelOptions) = {}
        BY <1>5
      <4>2. i = 11 => Complaints(LioOptions) = {}
        BY <1>5
      <4>3. (i > 3 => Complaints(VoxelOptions) = {}) /\ (i > 11 => Complaints(LioOptions) = {})
        BY <1>3 DEF LoadedUpTo
      <4> QED  BY <4>1, <4>2, <4>3
    <3> QED  BY <1>1, <3>4, <3>5 DEF LoadedUpTo, Frozen
  <2>4. ASSUME NEW p \in consumed' PROVE Accounted(p)'
    <3>1. CASE p \in consumed
      BY <1>1, <2>1, <3>1 DEF ParamInv, Accounted, Frozen
    <3>2. CASE p \in marks
      BY <1>1, <3>2 DEF Accounted, Excused, Frozen
    <3>3. CASE p \in reads /\ p \in VectorKeys
      BY <3>3 DEF Accounted, VectorKeys, LooselyRead
    <3>4. CASE p \in reads /\ p \notin VectorKeys
      <4>1. \A k \in DOMAIN config : Under(p, k) => k = p
        BY <1>5, <3>4, ReadAccounted DEF ParamInv
      <4> QED  BY <1>1, <2>1, <3>4, <4>1 DEF Accounted, Frozen
    <3> QED  BY <2>1, <3>1, <3>2, <3>3, <3>4
  <2> QED  BY <1>1, <2>1, <2>2, <2>3, <2>4 DEF ParamInv, Frozen
<1> QED  BY <1>4, <1>5
-----------------------------------------------------------------------------
(* What a well-formed file spares each loader.                             *)

LEMMA RegisterFacts ==
  /\ Registers(1) = NodeKeys
  /\ Registers(2) = StateKeys \cup LaterStateKeys \cup {Distortion}
  /\ Registers(3) = VoxelPlainKeys \cup LiveKeys(VoxelOptions)
  /\ Registers(4) = {VioOn, VioEkf, <<"log", "vio">>}
  /\ Registers(5) = {CombinedOn, VioEkf, <<"log", "combined">>}
  /\ Registers(6) = IF TrackerWanted THEN TrackerKeys ELSE {<<"tracker">>, UvTracking}
  /\ Registers(7) = {<<"viz", "enable">>, <<"outputs", "path">>, <<"log", "pose_pair">>}
  /\ Registers(8) = {<<"topics", "lidar">>, LidarType, Perturb, EvoOn, EvoSource, TimeMode, TimeRef}
                      \cup CancellerReads(Vibration) \cup CancellerReads(MotionBand)
                      \cup CancellerMarks(Vibration) \cup CancellerMarks(MotionBand)
  /\ Registers(9) = {NumFrames, DsMode, DsLeaf, RangeErr, NoiseFloor}
  /\ Registers(10) = {<<"imu", "second_order">>, NoiseModel, <<"log", "imu">>}
  /\ Registers(11) = LioPlainKeys \cup LiveKeys(LioOptions)
  /\ Registers(12) = EvoKeys
  /\ Registers(13) = {OfflineBag, <<"common", "insert_map_after_lio">>}
BY DEF Registers

\* Registered, or below a block that is.
Reached(k, j) == \E n \in 1..Len(k) : SubSeq(k, 1, n) \in Registers(j)

LEMMA WholeKey ==
  ASSUME config \in Configs, NEW k \in DOMAIN config
  PROVE  Len(k) \in Nat \ {0} /\ SubSeq(k, 1, Len(k)) = k /\ Under(k, k)
<1>1. k \in Seq(STRING) /\ k # <<>>
  BY ConfigAssumption
<1>2. Len(k) \in Nat /\ Len(k) # 0
  BY <1>1, EmptySeq
<1>3. SubSeq(k, 1, Len(k)) = k
  BY <1>1
<1> QED  BY <1>2, <1>3 DEF Under

\* The beginning of a key is what its first segments say.
LEMMA Beginning ==
  ASSUME NEW S, NEW k \in Seq(S), NEW p \in Seq(S), NEW n \in Nat, n = Len(p), n <= Len(k),
         \A i \in 1..n : p[i] = k[i]
  PROVE  SubSeq(k, 1, n) = p
<1>1. \A i \in 1..n : k[i] \in S
  OBVIOUS
<1>2. /\ SubSeq(k, 1, n) \in Seq(S) /\ Len(SubSeq(k, 1, n)) = IF 1 <= n THEN n - 1 + 1 ELSE 0
      /\ \A i \in 1..(n - 1 + 1) : SubSeq(k, 1, n)[i] = k[1 + i - 1]
  BY <1>1, SubSeqProperties
<1>3. Len(SubSeq(k, 1, n)) = n /\ \A i \in 1..n : SubSeq(k, 1, n)[i] = k[i]
  BY <1>2
<1> QED  BY <1>2, <1>3, SeqEqual

LEMMA BlockOfKey ==
  ASSUME NEW S, NEW b \in Seq(S), NEW e \in S
  PROVE  /\ Len(Append(b, e)) = Len(b) + 1 /\ SubSeq(Append(b, e), 1, Len(b)) = b
         /\ Len(b) \in Nat
<1>1. /\ Append(b, e) \in Seq(S) /\ Len(Append(b, e)) = Len(b) + 1 /\ Len(b) \in Nat
      /\ \A i \in 1..Len(b) : Append(b, e)[i] = b[i]
  BY AppendProperties
<1>2. SubSeq(Append(b, e), 1, Len(b)) = b
  BY <1>1, Beginning
<1> QED  BY <1>1, <1>2

LEMMA Blocks ==
  ASSUME NEW b \in {Vibration, MotionBand}
  PROVE  Len(b) = 3 /\ Len(Numeric(b)) = 4 /\ SubSeq(Numeric(b), 1, 3) = b
<1> DEFINE S == {"cbk", "imu", "vibration", "motion_band", "floor"}
<1>1. Vibration \in Seq(S) /\ Len(Vibration) = 3
  BY DEF Vibration
<1>2. MotionBand \in Seq(S) /\ Len(MotionBand) = 3
  BY DEF MotionBand
<1>3. "floor" \in S
  OBVIOUS
<1> HIDE DEF S
<1>4. b \in Seq(S) /\ Len(b) = 3
  BY <1>1, <1>2
<1>5. Len(Append(b, "floor")) = Len(b) + 1 /\ SubSeq(Append(b, "floor"), 1, Len(b)) = b
  BY <1>3, <1>4, BlockOfKey
<1> QED  BY <1>4, <1>5 DEF Numeric

LEMMA TrackerBlock ==
  ASSUME NEW k \in TrackerKeys, k # UvTracking
  PROVE  Len(k) \in Nat \ {0} /\ SubSeq(k, 1, 1) = <<"tracker">>
<1> DEFINE S == {"tracker", "device", "grid_selection", "anchor_selection_mode", "shi_tomasi_block_size"}
<1>1. \/ k = <<"tracker", "device">> \/ k = <<"tracker", "grid_selection", "anchor_selection_mode">>
      \/ k = <<"tracker", "grid_selection", "shi_tomasi_block_size">>
  BY DEF TrackerKeys, AnchorMode, BlockSize
<1> DEFINE block == <<"tracker">>
<1>2. k \in Seq(S) /\ k[1] = "tracker" /\ Len(k) \in 1..3
  <2>1. CASE k = <<"tracker", "device">>
    BY <2>1
  <2>2. CASE k = <<"tracker", "grid_selection", "anchor_selection_mode">>
    BY <2>2
  <2>3. CASE k = <<"tracker", "grid_selection", "shi_tomasi_block_size">>
    BY <2>3
  <2> QED  BY <1>1, <2>1, <2>2, <2>3
<1>3. block \in Seq(S) /\ Len(block) = 1 /\ block[1] = "tracker"
  OBVIOUS
<1> HIDE DEF S, block
<1>4. \A i \in 1..1 : block[i] = k[i]
  BY <1>2, <1>3
<1>5. SubSeq(k, 1, 1) = block
  BY <1>2, <1>3, <1>4, Beginning
<1> QED  BY <1>2, <1>5 DEF block

LEMMA DocumentedReached ==
  ASSUME config \in Configs, NEW k \in DOMAIN config, k \in Documented
  PROVE  \E j \in 1..13 : Reached(k, j)
<1>1. \A j \in 1..13 : k \in Registers(j) => Reached(k, j)
  <2>1. Len(k) \in 1..Len(k) /\ SubSeq(k, 1, Len(k)) = k
    BY WholeKey
  <2> QED  BY <2>1 DEF Reached
<1>2. CASE k \in LiveKeys(Options)
  <2>1. k \in LiveKeys(VoxelOptions) \/ k \in LiveKeys(LioOptions)
    BY <1>2 DEF LiveKeys, Options
  <2> QED  BY <1>1, <2>1, RegisterFacts
<1>3. CASE k \in TrackerKeys
  <2>1. CASE TrackerWanted \/ k = UvTracking
    BY <1>1, <1>3, <2>1, RegisterFacts
  <2>2. CASE ~TrackerWanted /\ k # UvTracking
    <3>3. SubSeq(k, 1, 1) = <<"tracker">> /\ 1 \in 1..Len(k)
      BY <1>3, <2>2, TrackerBlock
    <3>4. <<"tracker">> \in Registers(6)
      BY <2>2, RegisterFacts
    <3>5. Reached(k, 6)
      BY <3>3, <3>4, Zenon DEF Reached
    <3> QED  BY <3>5
  <2> QED  BY <2>1, <2>2
<1>4. CASE \E b \in {Vibration, MotionBand} : k \in {Append(b, "enable"), Numeric(b)}
  <2>1. PICK b \in {Vibration, MotionBand} : k \in {Append(b, "enable"), Numeric(b)}
    BY <1>4
  <2>2. CancellerReads(b) \subseteq Registers(8) /\ CancellerMarks(b) \subseteq Registers(8)
    BY <2>1, RegisterFacts
  <2>3. CASE k = Append(b, "enable") \/ Enabled(b)
    BY <1>1, <2>1, <2>2, <2>3 DEF CancellerReads
  <2>4. CASE k = Numeric(b) /\ ~Enabled(b)
    <3>2. SubSeq(k, 1, 3) = b /\ 3 \in 1..Len(k)
      <4>1. Len(Numeric(b)) = 4 /\ SubSeq(Numeric(b), 1, 3) = b
        BY <2>1, Blocks, Zenon
      <4> QED  BY <2>4, <4>1
    <3>3. b \in Registers(8)
      BY <2>2, <2>4 DEF CancellerMarks
    <3>4. Reached(k, 8)
      BY <3>2, <3>3, Zenon DEF Reached
    <3> QED  BY <3>4
  <2> QED  BY <2>1, <2>3, <2>4
<1>5. CASE k \in {<<"topics", "lidar">>, LidarType, TimeMode, TimeRef, Perturb, NumFrames, DsMode, DsLeaf, NoiseFloor}
  BY <1>1, <1>5, RegisterFacts
<1>6. CASE \/ k \in NodeKeys \cup StateKeys \cup LaterStateKeys \cup {Distortion} \cup VoxelPlainKeys
           \/ k \in {VioOn, VioEkf, <<"log", "vio">>, CombinedOn, <<"log", "combined">>}
  BY <1>1, <1>6, RegisterFacts
<1>7. CASE \/ k \in {<<"viz", "enable">>, <<"outputs", "path">>, <<"log", "pose_pair">>}
           \/ k \in {<<"imu", "second_order">>, NoiseModel, <<"log", "imu">>} \cup LioPlainKeys \cup EvoKeys
           \/ k \in {OfflineBag, <<"common", "insert_map_after_lio">>}
  BY <1>1, <1>7, RegisterFacts
<1> QED  BY <1>2, <1>3, <1>4, <1>5, <1>6, <1>7 DEF Documented
-----------------------------------------------------------------------------
(* The loaders one by one.                                                 *)

LEMMA GoodReads ==
  ASSUME WellFormed, NEW k \in Documented PROVE Value(k, "ok") # "mistyped"
BY DEF WellFormed

LEMMA NothingRetired ==
  ASSUME WellFormed, NEW keys, keys \subseteq Retired PROVE ~AnyGiven(keys)
BY DEF WellFormed, AnyGiven

\* A loader that only reads.
OnlyReads(i, reads) == Load(StageName(i), reads, {}, FALSE)

LEMMA PlainStep ==
  ASSUME ParamInv, NEW i \in 1..13, i \notin {2, 3, 11}, NEW STATE reads,
         OnlyReads(i, reads), Registers(i) \subseteq reads, reads \subseteq Documented
  PROVE  ParamInv'
<1> DEFINE name == StageName(i)
           marks == {}
           throws == FALSE
<1>1. /\ Load(name, reads, marks, throws) /\ throws \in BOOLEAN /\ ~throws
      /\ Registers(i) \subseteq reads \cup marks /\ \A m \in marks : Excused(m)
  BY DEF OnlyReads
<1>3. name = StageName(i)
  OBVIOUS
<1>2. WellFormed => \A k \in reads \ VectorKeys : Value(k, "ok") # "mistyped"
  BY GoodReads
<1> HIDE DEF name, marks, throws
<1> QED  BY <1>1, <1>2, <1>3, LoadStep

LEMMA NodeStep == ParamInv /\ LoadNode => ParamInv'
<1> SUFFICES ASSUME ParamInv, LoadNode PROVE ParamInv'
  OBVIOUS
<1> DEFINE reads == NodeKeys
<1>1. OnlyReads(1, reads)
  BY StageNames DEF OnlyReads, LoadNode
<1>2. Registers(1) \subseteq reads /\ reads \subseteq Documented
  BY RegisterFacts DEF Documented
<1> HIDE DEF reads
<1> QED  BY <1>1, <1>2, PlainStep

LEMMA StateStep == ParamInv /\ LoadState => ParamInv'
<1> SUFFICES ASSUME ParamInv, LoadState PROVE ParamInv'
  OBVIOUS
<1> DEFINE whole == Value(Extrinsics, "short") = "ok"
           reads == StateKeys \cup (IF whole THEN LaterStateKeys ELSE {})
           marks == IF whole THEN {Distortion} ELSE {}
           throws == \/ AnyGiven(LegacyStateKeys) \/ RefuseRenamedKeys
                     \/ whole /\ ~On(GravityEstimable) /\ Given(GravityCov)
                     \/ whole /\ OutOfRange({BiasWalk})
<1>1. Load("state", reads, marks, throws) /\ "state" = StageName(2)
  BY StageNames DEF LoadState
<1>2. throws \in BOOLEAN
  OBVIOUS
<1>3. WellFormed => ~throws
  <2> SUFFICES ASSUME WellFormed PROVE ~throws
    OBVIOUS
  <2>1. ~AnyGiven(LegacyStateKeys) /\ ~RefuseRenamedKeys
    BY NothingRetired DEF Retired, RefuseRenamedKeys
  <2>2. Given(GravityCov) => On(GravityEstimable)
    BY DEF WellFormed
  <2>3. ~OutOfRange({BiasWalk})
    BY DEF WellFormed, Sound, OutOfRange
  <2> QED  BY <2>1, <2>2, <2>3
<1>4. WellFormed => \A k \in reads \ VectorKeys : Value(k, "ok") # "mistyped"
  <2>1. reads \subseteq Documented
    BY DEF Documented
  <2> QED  BY <2>1, GoodReads
<1>5. \A m \in marks : Excused(m)
  BY DEF Excused, LooselyRead
<1>6. whole => Registers(2) \subseteq reads \cup marks
  BY RegisterFacts
<1> HIDE DEF reads, marks, throws
<1> QED  BY <1>1, <1>2, <1>3, <1>4, <1>5, <1>6, LoadStep
LEMMA VioStep == ParamInv /\ LoadVio => ParamInv'
<1> SUFFICES ASSUME ParamInv, LoadVio PROVE ParamInv'
  OBVIOUS
<1> DEFINE reads == {VioOn, VioEkf, <<"log", "vio">>}
<1>1. OnlyReads(4, reads)
  BY StageNames DEF OnlyReads, LoadVio
<1>2. Registers(4) \subseteq reads /\ reads \subseteq Documented
  BY RegisterFacts DEF Documented
<1> HIDE DEF reads
<1> QED  BY <1>1, <1>2, PlainStep

LEMMA CombinedStep == ParamInv /\ LoadCombined => ParamInv'
<1> SUFFICES ASSUME ParamInv, LoadCombined PROVE ParamInv'
  OBVIOUS
<1> DEFINE reads == {CombinedOn, VioEkf, <<"log", "combined">>}
<1>1. OnlyReads(5, reads)
  BY StageNames DEF OnlyReads, LoadCombined
<1>2. Registers(5) \subseteq reads /\ reads \subseteq Documented
  BY RegisterFacts DEF Documented
<1> HIDE DEF reads
<1> QED  BY <1>1, <1>2, PlainStep

LEMMA PubStep == ParamInv /\ LoadPub => ParamInv'
<1> SUFFICES ASSUME ParamInv, LoadPub PROVE ParamInv'
  OBVIOUS
<1> DEFINE reads == {<<"viz", "enable">>, <<"outputs", "path">>, <<"log", "pose_pair">>}
<1>1. OnlyReads(7, reads)
  BY StageNames DEF OnlyReads, LoadPub
<1>2. Registers(7) \subseteq reads /\ reads \subseteq Documented
  BY RegisterFacts DEF Documented
<1> HIDE DEF reads
<1> QED  BY <1>1, <1>2, PlainStep

LEMMA CommonStep == ParamInv /\ LoadCommon => ParamInv'
<1> SUFFICES ASSUME ParamInv, LoadCommon PROVE ParamInv'
  OBVIOUS
<1> DEFINE reads == {OfflineBag, <<"common", "insert_map_after_lio">>}
<1>1. OnlyReads(13, reads)
  BY StageNames DEF OnlyReads, LoadCommon
<1>2. Registers(13) \subseteq reads /\ reads \subseteq Documented
  BY RegisterFacts DEF Documented
<1> HIDE DEF reads
<1> QED  BY <1>1, <1>2, PlainStep

\* A default counts only for a key nothing was set for.
LEMMA GivenValue ==
  ASSUME config \in Configs, NEW k, NEW d, NEW e
  PROVE  (Given(k) => Value(k, d) = Value(k, e)) /\ (~Given(k) => Value(k, d) = d)
<1>1. k \in DOMAIN config => Given(k)
  BY WholeKey DEF Given
<1> QED  BY <1>1 DEF Value

LEMMA GoodOptions ==
  ASSUME config \in Configs, WellFormed, NEW o \in Options
  PROVE  /\ Given(o.key) => o.live /\ Legal(o) /\ Value(o.key, "ok") \notin {"zero", "bad"}
         /\ ~Given(o.key) => Resolved(o) = o.default
<1>1. ~Given(o.key) => Resolved(o) = o.default
  BY GivenValue DEF Resolved
<1> QED  BY <1>1 DEF WellFormed

LEMMA GoodFileUncomplained ==
  ASSUME config \in Configs, WellFormed, NEW options, options \subseteq Options
  PROVE  Complaints(options) = {}
BY GoodOptions DEF Complaints

LEMMA GoodNumbers == WellFormed => \A k \in Sound : Value(k, "ok") = "ok"
BY DEF WellFormed

LEMMA VoxelStep == ParamInv /\ LoadVoxelMap => ParamInv'
<1> SUFFICES ASSUME ParamInv, LoadVoxelMap PROVE ParamInv'
  OBVIOUS
<1>0. config \in Configs
  BY DEF ParamInv
<1> DEFINE reads == VoxelPlainKeys \cup LiveKeys(VoxelOptions)
           marks == {}
           throws == \/ Given(SnapshotFrames) /\ ~On(SnapshotPost)
                     \/ NotOneOf(BootstrapMode, BootstrapModes)
                     \/ AnyGiven(RemovedVoxelKeys \cup RetiredVoxelKeys)
                     \/ Complaints(VoxelOptions) # {} \/ VoxelClash
                     \/ Resolved(RelSigmas) \in {"zero", "bad"} \/ Resolved(ShapeRatio) \in {"zero", "bad"}
                     \/ OutOfRange({BinFraction})
<1>1. Load("voxel_map", reads, marks, throws) /\ "voxel_map" = StageName(3)
  BY StageNames DEF LoadVoxelMap
<1>2. throws \in BOOLEAN
  OBVIOUS
<1>3. WellFormed => ~throws
  <2> SUFFICES ASSUME WellFormed PROVE ~throws
    OBVIOUS
  <2>1. ~(Given(SnapshotFrames) /\ ~On(SnapshotPost)) /\ ~NotOneOf(BootstrapMode, BootstrapModes) /\ ~VoxelClash
    BY DEF WellFormed
  <2>2. ~AnyGiven(RemovedVoxelKeys \cup RetiredVoxelKeys)
    BY NothingRetired DEF Retired
  <2>3. Complaints(VoxelOptions) = {}
    BY <1>0, GoodFileUncomplained DEF Options
  <2>4. ASSUME NEW o \in {RelSigmas, ShapeRatio} PROVE Resolved(o) \notin {"zero", "bad"}
    <3>1. o \in Options /\ o.default = "ok"
      BY DEF Options, VoxelOptions, RelSigmas, ShapeRatio, Option
    <3> QED  BY <1>0, <3>1, GoodOptions DEF Resolved
  <2>5. ~OutOfRange({BinFraction})
    BY GoodNumbers DEF Sound, OutOfRange
  <2> QED  BY <2>1, <2>2, <2>3, <2>4, <2>5
<1>4. WellFormed => \A k \in reads \ VectorKeys : Value(k, "ok") # "mistyped"
  <2>1. reads \subseteq Documented
    BY DEF Documented, LiveKeys, Options
  <2> QED  BY <2>1, GoodReads
<1>5. (\A m \in marks : Excused(m)) /\ Registers(3) \subseteq reads \cup marks
  BY RegisterFacts
<1>6. ~throws => Complaints(VoxelOptions) = {}
  OBVIOUS
<1> HIDE DEF reads, marks, throws
<1> QED  BY <1>1, <1>2, <1>3, <1>4, <1>5, <1>6, LoadStep

LEMMA TrackerStep == ParamInv /\ LoadTracker => ParamInv'
<1> SUFFICES ASSUME ParamInv, LoadTracker PROVE ParamInv'
  OBVIOUS
<1>1. CASE /\ TrackerWanted
           /\ Load("tracker", TrackerKeys, {},
                   NotOneOf(AnchorMode, AnchorModes) \/ OutOfRange({BlockSize}) \/ ~backendUp)
  <2> DEFINE reads == TrackerKeys
             marks == {}
             throws == NotOneOf(AnchorMode, AnchorModes) \/ OutOfRange({BlockSize}) \/ ~backendUp
  <2>1. Load("tracker", reads, marks, throws) /\ "tracker" = StageName(6)
    BY <1>1, StageNames
  <2>2. throws \in BOOLEAN
    OBVIOUS
  <2>3. WellFormed => ~throws
    BY <1>1 DEF WellFormed
  <2>4. WellFormed => \A k \in reads \ VectorKeys : Value(k, "ok") # "mistyped"
    BY GoodReads DEF Documented
  <2>5. (\A m \in marks : Excused(m)) /\ Registers(6) \subseteq reads \cup marks
    BY <1>1, RegisterFacts
  <2> HIDE DEF reads, marks, throws
  <2> QED  BY <2>1, <2>2, <2>3, <2>4, <2>5, LoadStep
<1>2. CASE ~TrackerWanted /\ Load("tracker", {}, {<<"tracker">>, UvTracking}, FALSE)
  <2> DEFINE reads == {}
             marks == {<<"tracker">>, UvTracking}
             throws == FALSE
  <2>1. Load("tracker", reads, marks, throws) /\ "tracker" = StageName(6)
    BY <1>2, StageNames
  <2>2. throws \in BOOLEAN /\ ~throws /\ \A k \in reads \ VectorKeys : Value(k, "ok") # "mistyped"
    OBVIOUS
  <2>3. \A m \in marks : Excused(m)
    BY <1>2 DEF Excused, Parked
  <2>4. Registers(6) \subseteq reads \cup marks
    BY <1>2, RegisterFacts
  <2> HIDE DEF reads, marks, throws
  <2> QED  BY <2>1, <2>2, <2>3, <2>4, LoadStep
<1> QED  BY <1>1, <1>2 DEF LoadTracker

\* A switched-off canceller's block is parked, a switched-on one's numbers are documented.
LEMMA CancellerKeys ==
  ASSUME NEW b \in {Vibration, MotionBand}
  PROVE  /\ CancellerReads(b) \subseteq Documented
         /\ \A m \in CancellerMarks(b) : Excused(m)
         /\ WellFormed => ~CancellerBad(b)
<1>1. CancellerReads(b) \subseteq Documented
  BY DEF CancellerReads, Documented
<1>2. \A m \in CancellerMarks(b) : Excused(m)
  BY DEF CancellerMarks, Excused, Parked
<1>3. WellFormed => ~CancellerBad(b)
  BY DEF WellFormed, CancellerBad
<1> QED  BY <1>1, <1>2, <1>3

LEMMA CbkStep == ParamInv /\ LoadCbk => ParamInv'
<1> SUFFICES ASSUME ParamInv, LoadCbk PROVE ParamInv'
  OBVIOUS
<1>0. config \in Configs
  BY DEF ParamInv
<1> DEFINE reads == {<<"topics", "lidar">>, LidarType, Perturb, EvoOn, EvoSource}
                      \cup CancellerReads(Vibration) \cup CancellerReads(MotionBand)
           marks == {TimeMode, TimeRef} \cup CancellerMarks(Vibration) \cup CancellerMarks(MotionBand)
           throws ==
             \/ Loose(TimeMode, "offset_ns_u32") \notin TimeModes
             \/ Loose(TimeRef, "header") \notin TimeRefs
             \/ Given(TimeRef) /\ Loose(TimeMode, "offset_ns_u32") # "absolute_s_f64"
             \/ AnyGiven({TimeMode, TimeRef}) /\ Value(LidarType, "mid360") \in {"avia", "mid360"}
             \/ CancellerBad(Vibration) \/ CancellerBad(MotionBand) \/ Value(Perturb, "ok") = "bad"
<1>1. Load("cbk", reads, marks, throws) /\ "cbk" = StageName(8)
  BY StageNames DEF LoadCbk
<1>2. throws \in BOOLEAN
  OBVIOUS
<1>3. WellFormed => ~throws
  <2> SUFFICES ASSUME WellFormed PROVE ~throws
    OBVIOUS
  <2>1. Loose(TimeMode, "offset_ns_u32") \in TimeModes
    <3>1. ~NotOneOf(TimeMode, TimeModes)
      BY DEF WellFormed
    <3> QED  BY <1>0, <3>1, GivenValue DEF NotOneOf, Loose, TimeModes
  <2>2. Loose(TimeRef, "header") \in TimeRefs
    <3>1. ~NotOneOf(TimeRef, TimeRefs)
      BY DEF WellFormed
    <3> QED  BY <1>0, <3>1, GivenValue DEF NotOneOf, Loose, TimeRefs
  <2>3. Given(TimeRef) => Loose(TimeMode, "offset_ns_u32") = "absolute_s_f64"
    <3>1. Given(TimeRef) => Value(TimeMode, "") = "absolute_s_f64"
      BY DEF WellFormed
    <3> QED  BY <1>0, <3>1, GivenValue DEF Loose
  <2>4. AnyGiven({TimeMode, TimeRef}) => Value(LidarType, "mid360") = "pcl"
    <3>1. AnyGiven({TimeMode, TimeRef}) => Value(LidarType, "") = "pcl"
      BY DEF WellFormed
    <3> QED  BY <1>0, <3>1, GivenValue
  <2>5. Value(Perturb, "ok") # "bad"
    BY GoodNumbers DEF Sound
  <2> QED  BY <2>1, <2>2, <2>3, <2>4, <2>5, CancellerKeys
<1>4. WellFormed => \A k \in reads \ VectorKeys : Value(k, "ok") # "mistyped"
  <2>1. reads \subseteq Documented
    BY CancellerKeys DEF Documented, EvoKeys
  <2> QED  BY <2>1, GoodReads
<1>5. \A m \in marks : Excused(m)
  BY CancellerKeys DEF Excused, LooselyRead
<1>6. Registers(8) \subseteq reads \cup marks
  BY RegisterFacts
<1> HIDE DEF reads, marks, throws
<1> QED  BY <1>1, <1>2, <1>3, <1>4, <1>5, <1>6, LoadStep

\* The downsampling keys are options of the LIO loader and plain keys of two others.
LEMMA DownsamplingKeys ==
  ASSUME config \in Configs, WellFormed
  PROVE  ~NotOneOf(DsMode, DsModes) /\ ~OutOfRange({DsLeaf})
<1> DEFINE modeOption == Option(DsMode, TRUE, DsModes, "first")
           leafOption == Option(DsLeaf, DsOn, Numbers, "ok")
<1>1. modeOption \in Options /\ leafOption \in Options
  BY DEF Options, LioOptions
<1>2. modeOption.key = DsMode /\ modeOption.allowed = DsModes /\ leafOption.key = DsLeaf
  BY DEF Option
<1>3. Given(DsMode) => Value(DsMode, modeOption.default) \in DsModes
  BY <1>1, <1>2, GoodOptions DEF Legal
<1>4. ~NotOneOf(DsMode, DsModes)
  BY <1>3, GivenValue DEF NotOneOf
<1>5. Value(DsLeaf, "ok") \notin {"zero", "bad"}
  BY <1>1, <1>2, GoodOptions, GivenValue
<1> QED  BY <1>4, <1>5 DEF OutOfRange

LEMMA CalibStep == ParamInv /\ LoadCalib => ParamInv'
<1> SUFFICES ASSUME ParamInv, LoadCalib PROVE ParamInv'
  OBVIOUS
<1>0. config \in Configs
  BY DEF ParamInv
<1> DEFINE reads == {NumFrames, DsMode, DsLeaf, RangeErr, NoiseFloor} \cup CancellerReads(Vibration)
           marks == CancellerMarks(Vibration)
           throws == \/ AnyGiven(RemovedCalibKeys) \/ CancellerBad(Vibration)
                     \/ Value(NumFrames, "zero") # "ok"
                     \/ NotOneOf(DsMode, DsModes)
                     \/ DsOn /\ OutOfRange({DsLeaf})
                     \/ OutOfRange({NoiseFloor})
<1>1. Load("calib", reads, marks, throws) /\ "calib" = StageName(9)
  BY StageNames DEF LoadCalib
<1>2. throws \in BOOLEAN
  OBVIOUS
<1>3. WellFormed => ~throws
  <2> SUFFICES ASSUME WellFormed PROVE ~throws
    OBVIOUS
  <2>1. ~AnyGiven(RemovedCalibKeys)
    BY NothingRetired DEF Retired
  <2>2. Value(NumFrames, "zero") = "ok"
    <3>1. Given(NumFrames)
      BY DEF WellFormed
    <3>2. Value(NumFrames, "ok") = "ok"
      BY GoodNumbers DEF Sound
    <3> QED  BY <1>0, <3>1, <3>2, GivenValue
  <2>3. ~OutOfRange({NoiseFloor})
    BY GoodNumbers DEF Sound, OutOfRange
  <2> QED  BY <1>0, <2>1, <2>2, <2>3, CancellerKeys, DownsamplingKeys
<1>4. WellFormed => \A k \in reads \ VectorKeys : Value(k, "ok") # "mistyped"
  <2>1. reads \subseteq Documented
    BY CancellerKeys DEF Documented, VoxelPlainKeys
  <2> QED  BY <2>1, GoodReads
<1>5. (\A m \in marks : Excused(m)) /\ Registers(9) \subseteq reads \cup marks
  BY CancellerKeys, RegisterFacts
<1> HIDE DEF reads, marks, throws
<1> QED  BY <1>1, <1>2, <1>3, <1>4, <1>5, LoadStep

LEMMA ImuStep == ParamInv /\ LoadImu => ParamInv'
<1> SUFFICES ASSUME ParamInv, LoadImu PROVE ParamInv'
  OBVIOUS
<1> DEFINE reads == {<<"imu", "second_order">>, NoiseModel, <<"log", "imu">>}
           marks == {}
           throws == RefuseRenamedKeys \/ AnyGiven(RemovedImuKeys) \/ NotOneOf(NoiseModel, NoiseModels)
<1>1. Load("imu", reads, marks, throws) /\ "imu" = StageName(10)
  BY StageNames DEF LoadImu
<1>2. throws \in BOOLEAN
  OBVIOUS
<1>3. WellFormed => ~throws
  <2> SUFFICES ASSUME WellFormed PROVE ~throws
    OBVIOUS
  <2>1. ~AnyGiven(RemovedImuKeys) /\ ~RefuseRenamedKeys
    BY NothingRetired DEF Retired, RefuseRenamedKeys
  <2> QED  BY <2>1 DEF WellFormed
<1>4. WellFormed => \A k \in reads \ VectorKeys : Value(k, "ok") # "mistyped"
  BY GoodReads DEF Documented
<1>5. (\A m \in marks : Excused(m)) /\ Registers(10) \subseteq reads \cup marks
  BY RegisterFacts
<1> HIDE DEF reads, marks, throws
<1> QED  BY <1>1, <1>2, <1>3, <1>4, <1>5, LoadStep

LEMMA EvoStep == ParamInv /\ LoadEvo => ParamInv'
<1> SUFFICES ASSUME ParamInv, LoadEvo PROVE ParamInv'
  OBVIOUS
<1>0. config \in Configs
  BY DEF ParamInv
<1> DEFINE reads == EvoKeys
           marks == {}
           throws == \/ On(DenseGt) /\ ~FileMode
                     \/ On(EvoOn) /\ FileMode /\ On(DenseGt) /\ Value(GtFile, "bad") # "ok"
<1>1. Load("evo", reads, marks, throws) /\ "evo" = StageName(12)
  BY StageNames DEF LoadEvo
<1>2. throws \in BOOLEAN
  OBVIOUS
<1>3. WellFormed => ~throws
  <2> SUFFICES ASSUME WellFormed PROVE ~throws
    OBVIOUS
  <2>1. On(DenseGt) => FileMode /\ (On(EvoOn) => Given(GtFile))
    BY DEF WellFormed
  <2>2. Value(GtFile, "ok") = "ok"
    BY GoodNumbers DEF Sound
  <2>3. Given(GtFile) => Value(GtFile, "bad") = "ok"
    BY <1>0, <2>2, GivenValue
  <2> QED  BY <2>1, <2>3
<1>4. WellFormed => \A k \in reads \ VectorKeys : Value(k, "ok") # "mistyped"
  BY GoodReads DEF Documented
<1>5. (\A m \in marks : Excused(m)) /\ Registers(12) \subseteq reads \cup marks
  BY RegisterFacts
<1> HIDE DEF reads, marks, throws
<1> QED  BY <1>1, <1>2, <1>3, <1>4, <1>5, LoadStep

\* Two keys with a common beginning have the same first segment.
LEMMA FirstSegment ==
  ASSUME config \in Configs, NEW k \in DOMAIN config, NEW n \in 1..Len(k)
  PROVE  SubSeq(k, 1, n)[1] = k[1] /\ Len(SubSeq(k, 1, n)) = n
<1>1. k \in Seq(STRING) /\ Len(k) \in Nat
  BY ConfigAssumption, WholeKey
<1>2. /\ Len(SubSeq(k, 1, n)) = IF 1 <= n THEN n - 1 + 1 ELSE 0
      /\ \A i \in 1..(n - 1 + 1) : SubSeq(k, 1, n)[i] = k[1 + i - 1]
  BY <1>1, SubSeqProperties
<1>3. 1 \in 1..(n - 1 + 1) /\ n >= 1
  BY <1>1
<1> QED  BY <1>1, <1>2, <1>3

LEMMA PrefixSegments ==
  /\ \A p \in ScannedPrefixes : Len(p) \in Nat \ {0} /\ p[1] \notin {"evo", "common"}
  /\ \A p \in EvoKeys : p[1] = "evo"
  /\ \A p \in {OfflineBag, <<"common", "insert_map_after_lio">>} : p[1] = "common"
BY DEF ScannedPrefixes, EvoKeys, EvoOn, EvoSource, GtFile, LeverArm, DenseGt, OfflineBag

\* The scan finds nothing in a well-formed file: what is set was read before
\* it, or is a key of the LIO loader's own, or lies outside its prefixes.
LEMMA ScanFindsNothing ==
  ASSUME ParamInv, WellFormed, LoadedUpTo(11)
  PROVE  LioUnclaimed = {}
<1>0. config \in Configs
  BY DEF ParamInv
<1> SUFFICES ASSUME NEW k \in DOMAIN config, \E p \in ScannedPrefixes : Under(p, k),
                    k \notin {o.key : o \in LioOptions}, ~Consumed(k),
                    ~\E p \in LioPlainKeys : Under(p, k)
             PROVE  FALSE
  BY DEF LioUnclaimed, Unclaimed
<1>1. k \in Documented
  BY DEF WellFormed
<1>2. PICK j \in 1..13 : Reached(k, j)
  BY <1>0, <1>1, DocumentedReached
<1>3. PICK n \in 1..Len(k) : SubSeq(k, 1, n) \in Registers(j)
  BY <1>2 DEF Reached
<1> DEFINE beginning == SubSeq(k, 1, n)
<1>4. beginning[1] = k[1] /\ Len(beginning) = n /\ Len(k) \in Nat
  BY <1>0, FirstSegment, WholeKey
<1>5. Under(beginning, k)
  BY <1>4 DEF Under
<1>6. j \notin 1..10
  <2>1. Value(Extrinsics, "short") = "ok"
    <3>1. Given(Extrinsics) /\ Value(Extrinsics, "ok") = "ok"
      BY GoodNumbers DEF WellFormed, Sound
    <3> QED  BY <1>0, <3>1, GivenValue
  <2>2. j \in 1..10 => Registers(j) \subseteq consumed
    BY <2>1 DEF LoadedUpTo
  <2> QED  BY <1>3, <2>2 DEF Consumed
<1>7. j # 11
  <2>1. beginning \notin LioPlainKeys
    BY <1>5
  <2>2. ASSUME beginning \in LiveKeys(LioOptions) PROVE FALSE
    <3>1. beginning \in Documented
      BY <2>2 DEF LiveKeys, Options, Documented
    <3>2. k = beginning
      BY <1>0, <1>5, <3>1, GoodReads, ReadAccounted
    <3> QED  BY <2>2, <3>2 DEF LiveKeys
  <2> QED  BY <1>3, <2>1, <2>2, RegisterFacts
<1>8. k[1] \notin {"evo", "common"}
  <2>1. PICK p \in ScannedPrefixes : Under(p, k)
    OBVIOUS
  <2>2. Len(p) \in 1..Len(k) /\ SubSeq(k, 1, Len(p)) = p
    BY <1>4, <2>1, PrefixSegments DEF Under
  <2>3. p[1] = k[1]
    BY <1>0, <2>2, FirstSegment
  <2> QED  BY <2>3, PrefixSegments
<1>9. j \notin {12, 13}
  BY <1>3, <1>4, <1>8, RegisterFacts, PrefixSegments
<1> QED  BY <1>6, <1>7, <1>9

LEMMA LioStep == ParamInv /\ LoadLio => ParamInv'
<1> SUFFICES ASSUME ParamInv, LoadLio PROVE ParamInv'
  OBVIOUS
<1>0. config \in Configs
  BY DEF ParamInv
<1> DEFINE reads == LioPlainKeys \cup LiveKeys(LioOptions)
           marks == {}
           throws == \/ RefuseRenamedKeys
                     \/ Given(PoseCovEnd) /\ ~On(PoseCovOn)
                     \/ NotOneOf(DumpFrames, {"ok"})
                     \/ Complaints(LioOptions) # {} \/ LioClash \/ LioInert
                     \/ Given(DsLeaf) /\ DsOn /\ OutOfRange({DsLeaf})
                     \/ LioUnclaimed # {}
<1>1. Load("lio", reads, marks, throws) /\ "lio" = StageName(11)
  BY StageNames DEF LoadLio
<1>2. throws \in BOOLEAN
  OBVIOUS
<1>3. WellFormed /\ LoadedUpTo(11) => ~throws
  <2> SUFFICES ASSUME WellFormed, LoadedUpTo(11) PROVE ~throws
    OBVIOUS
  <2>1. ~RefuseRenamedKeys
    BY NothingRetired DEF Retired, RefuseRenamedKeys
  <2>2. ~NotOneOf(DumpFrames, {"ok"})
    <3>1. Value(DumpFrames, "ok") = "ok"
      BY GoodNumbers DEF Sound
    <3> QED  BY <1>0, <3>1, GivenValue DEF NotOneOf
  <2>3. Complaints(LioOptions) = {}
    BY <1>0, GoodFileUncomplained DEF Options
  <2>4. ~(Given(PoseCovEnd) /\ ~On(PoseCovOn)) /\ ~LioClash /\ ~LioInert
    BY DEF WellFormed
  <2> QED  BY <1>0, <2>1, <2>2, <2>3, <2>4, DownsamplingKeys, ScanFindsNothing
<1>4. WellFormed => \A k \in reads \ VectorKeys : Value(k, "ok") # "mistyped"
  <2>1. reads \subseteq Documented
    BY DEF Documented, LiveKeys, Options
  <2> QED  BY <2>1, GoodReads
<1>5. (\A m \in marks : Excused(m)) /\ Registers(11) \subseteq reads \cup marks
  BY RegisterFacts
<1>6. ~throws => Complaints(LioOptions) = {}
  OBVIOUS
<1> HIDE DEF reads, marks, throws
<1> QED  BY <1>1, <1>2, <1>3, <1>4, <1>5, <1>6, LoadStep
-----------------------------------------------------------------------------
(* The last check, and the two properties.                                 *)

LEMMA CheckStep == ParamInv /\ CheckAllParamsConsumed => ParamInv'
<1> SUFFICES ASSUME ParamInv, CheckAllParamsConsumed PROVE ParamInv'
  OBVIOUS
<1>0. config \in Configs
  BY DEF ParamInv
<1>1. Frozen
  BY FileStays DEF CheckAllParamsConsumed, Refuse
<1>2. PICK i \in 1..15 : stage = StageName(i) /\ LoadedUpTo(i)
  BY DEF ParamInv
<1>3. stage = "check" /\ verdict = "loading"
  BY DEF CheckAllParamsConsumed
<1>4. i = 14
  <2>1. 14 \in 1..15 /\ StageName(i) = StageName(14)
    BY <1>2, <1>3, StageNames
  <2> QED  BY <2>1, StagesDiffer
<1>5. WellFormed => \A k \in DOMAIN config : Consumed(k)
  <2> SUFFICES ASSUME WellFormed, NEW k \in DOMAIN config PROVE Consumed(k)
    OBVIOUS
  <2>1. PICK j \in 1..13 : Reached(k, j)
    BY <1>0, DocumentedReached DEF WellFormed
  <2>2. Value(Extrinsics, "short") = "ok"
    <3>1. Given(Extrinsics) /\ Value(Extrinsics, "ok") = "ok"
      BY GoodNumbers DEF WellFormed, Sound
    <3> QED  BY <1>0, <3>1, GivenValue
  <2>3. Registers(j) \subseteq consumed
    BY <1>2, <1>4, <2>2 DEF LoadedUpTo
  <2> QED  BY <2>1, <2>3 DEF Reached, Consumed
<1>6. consumed' = consumed /\ taken' = taken
  BY DEF CheckAllParamsConsumed, Refuse
<1>7. \A p \in consumed' : Accounted(p)'
  BY <1>1, <1>6 DEF ParamInv, Accounted, Frozen
<1>8. CASE \E k \in DOMAIN config : ~Consumed(k)
  <2>1. verdict' = "refused" /\ stage' = stage
    BY <1>8 DEF CheckAllParamsConsumed, Refuse
  <2>2. LoadedUpTo(i)'
    BY <1>1, <1>2, <1>6 DEF LoadedUpTo, Frozen
  <2>3. ~WellFormed'
    BY <1>1, <1>5, <1>8 DEF Frozen
  <2> QED  BY <1>1, <1>2, <1>7, <2>1, <2>2, <2>3 DEF ParamInv, Frozen
<1>9. CASE \A k \in DOMAIN config : Consumed(k)
  <2>1. verdict' = "started" /\ stage' = "done"
    BY <1>9 DEF CheckAllParamsConsumed
  <2>2. LoadedUpTo(15)'
    <3>1. \A j \in 1..(15 - 1) : j <= 13 => j \in 1..(14 - 1) /\ j \in 1..13
      OBVIOUS
    <3>2. \A j \in 1..(14 - 1) : j <= 13 /\ (j = 2 => Value(Extrinsics, "short") = "ok") => Registers(j) \subseteq consumed
      BY <1>2, <1>4 DEF LoadedUpTo
    <3>3. \A j \in 1..13 : Registers(j)' = Registers(j)
      BY <1>1 DEF Frozen
    <3>4. Complaints(VoxelOptions) = {} /\ Complaints(LioOptions) = {}
      BY <1>2, <1>4 DEF LoadedUpTo
    <3> QED  BY <1>1, <1>6, <3>1, <3>2, <3>3, <3>4 DEF LoadedUpTo, Frozen
  <2>3. \A k \in DOMAIN config' : Consumed(k)'
    BY <1>1, <1>6, <1>9 DEF Consumed, Frozen
  <2>4. stage' = StageName(15)
    BY <2>1, StageNames
  <2> QED  BY <1>1, <1>7, <2>1, <2>2, <2>3, <2>4 DEF ParamInv, Frozen
<1> QED  BY <1>8, <1>9

LEMMA ParamInit == LoadInit => ParamInv
<1> SUFFICES ASSUME LoadInit PROVE ParamInv
  OBVIOUS
<1>1. stage = StageName(1) /\ 1 \in 1..15
  BY StageNames DEF LoadInit
<1>2. LoadedUpTo(1)
  BY DEF LoadedUpTo
<1> QED  BY <1>1, <1>2 DEF LoadInit, ParamInv

LEMMA ParamStutters == ParamInv /\ UNCHANGED loadVars => ParamInv'
<1> SUFFICES ASSUME ParamInv, UNCHANGED loadVars PROVE ParamInv'
  OBVIOUS
<1>1. /\ config' = config /\ backendUp' = backendUp /\ stage' = stage
      /\ consumed' = consumed /\ taken' = taken /\ verdict' = verdict
  BY DEF loadVars
<1>2. Frozen
  BY <1>1, FileStays
<1>3. PICK i \in 1..15 : stage = StageName(i) /\ LoadedUpTo(i)
  BY DEF ParamInv
<1>4. LoadedUpTo(i)'
  BY <1>1, <1>2, <1>3 DEF LoadedUpTo, Frozen
<1>5. \A p \in consumed' : Accounted(p)'
  BY <1>1, <1>2 DEF ParamInv, Accounted, Frozen
<1>6. \A k \in DOMAIN config : Consumed(k)' <=> Consumed(k)
  BY <1>1 DEF Consumed
<1> QED  BY <1>1, <1>2, <1>3, <1>4, <1>5, <1>6 DEF ParamInv, Frozen

\* Every loader keeps the account of what it read and refused, in any order of faults.
THEOREM ParamInvariant == LoadSpec => []ParamInv
<1>1. ParamInv /\ [LoadNext]_loadVars => ParamInv'
  BY NodeStep, StateStep, VoxelStep, VioStep, CombinedStep, TrackerStep, PubStep, CbkStep, CalibStep,
     ImuStep, LioStep, EvoStep, CommonStep, CheckStep, ParamStutters DEF LoadNext
<1> QED  BY <1>1, ParamInit, PTL DEF LoadSpec

\* A started node holds every value it was given, in a live scope, unless a
\* switched-off feature parks it or its loader reads it loosely.
THEOREM EveryKeyActs == LoadSpec => []NothingIgnored
<1>1. ParamInv => NothingIgnored
  <2> SUFFICES ASSUME ParamInv, verdict = "started", NEW k \in DOMAIN config
               PROVE  \/ k \in taken /\ InLiveScope(k)
                      \/ Parked(k)
                      \/ \E l \in LooselyRead : Under(l, k)
    BY DEF NothingIgnored
  <2>0. config \in Configs
    BY DEF ParamInv
  <2>1. PICK n \in 1..Len(k) : SubSeq(k, 1, n) \in consumed
    BY DEF ParamInv, Consumed
  <2> DEFINE p == SubSeq(k, 1, n)
  <2>2. Under(p, k)
    BY <2>0, FirstSegment, WholeKey DEF Under
  <2>3. Accounted(p)
    BY <2>1 DEF ParamInv
  <2>4. InLiveScope(k)
    <3>1. PICK i \in 1..15 : stage = StageName(i) /\ LoadedUpTo(i)
      BY DEF ParamInv
    <3>2. i = 15
      BY <3>1, StageNames, StagesDiffer DEF ParamInv
    <3>3. Complaints(VoxelOptions) = {} /\ Complaints(LioOptions) = {}
      BY <3>1, <3>2 DEF LoadedUpTo
    <3>4. Given(k)
      BY <2>0, WholeKey DEF Given
    <3> QED  BY <3>3, <3>4 DEF InLiveScope, Complaints, Options
  <2> HIDE DEF p
  <2> QED  BY <2>2, <2>3, <2>4 DEF Accounted
<1> QED  BY <1>1, ParamInvariant, PTL

\* The loaders' refusals, the resolvers' complaints and the two scans refuse no
\* file that means what it says, whatever optional blocks it sets.
THEOREM GoodFilesStart == LoadSpec => []GoodConfigsStart
<1>1. ParamInv => GoodConfigsStart
  BY DEF ParamInv, GoodConfigsStart
<1> QED  BY <1>1, ParamInvariant, PTL

=============================================================================
