# A TLA+ model of livo_recon

livo_recon is a LiDAR / camera / IMU odometry node (ROS).  It queues three sensor
streams, calibrates while standing still, cuts the streams into *measure groups* (one
image, the LiDAR points and the IMU samples up to it), and runs an iterated Kalman
filter per group, LiDAR first and camera second or both at once, against a voxel map of
planes.  Point tracking in the images runs ahead of all this on a second thread, a third
thread writes the export.

The numbers in it (Jacobians, eigenvalues, integrals) are not the subject here.  The
control around them is: who consumes which message, which result is paired with which
group, what happens when a correction is refused after half of it has been written, how
threads share a tracker, a map, a set of counters and a file, and what start-up does with
a configuration.  Those are the parts that the tests in `src/tests` and `src/unit_tests`
hardly reach.

Source paths below are relative to the repository's `src/` (the C++ code) and
`include/livo_recon/` (the headers, where much of the code is).

Sections: 1 inventory, 2 plan and its state, 3 modules and the code, 4 runs, bounds and
fairness, 5 proofs, 6 findings, 7 observations, 8 what is not modelled.

## 1. Inventory

| Component | State it keeps | Operations | Talks to | What is hard | What makes it correct |
|---|---|---|---|---|---|
| **DataQueues** (`utils/data/data_queues.*`) | four deques with relative stamps, newest accepted stamp per stream, newest stamp fed, start time | `push*`, `pop*`, `ready`, `streamSettled`, `setStartTime` | callbacks push, calibration, sync and evaluation pop | one stream runs ahead of another; a stream dies; a boundary sample belongs to two windows | nothing consumed is older than what was consumed before; no sample counted twice or lost; a ready image is taken |
| **CbkProc / Measures** (`processing/cbk_processing.*`, `utils/data/measures.*`) | `measure_groups`, `curr_time`, `calib_done` | four sensor callbacks, `syncMeasures` | queues, tracker | three ways to lose an image, only one of which also consumes its tracking result | the pairing of a group with a tracking result is under control |
| **CalibProc** (`processing/calib_processing.*`) | qualifying frames, collected samples | `collectSamples`, `estimateFromBuffer` | queues (consumes), start time (sets) | consumes images behind the tracker's back; may never finish in a bag | each accepted sample counted once; no estimate before it is done |
| **Tracker** (`vio/tracker.*`, `vio/point_tracker.*`) | input and result queue under a mutex each, stop flag, anchors, pose history, `uv_curr_` | `feedImage`, `consumeResult`, `startAsyncTracking`, `stopAsyncTracking`, the loop, `selectAnchors`, `recordFramePose`, `resolveAnchorPose` | main thread, node shutdown, cache | two threads, two mutexes, a condition variable, unlocked members | a FIFO: one result per image, in order, chained to its predecessor; shutdown loses nothing |
| **Tracker cache** (`vio/tracker_cache.*`, `tools/cache_tracker_output.cpp`) | header, frames by stamp | write, `load`, `findByTimestamp` | Tracker | truncated file, other settings, near-miss stamps, another start | a replay equals tracking |
| **Per-frame estimator** (`livo_recon_node.cpp` `estimateState`/`updateMaps`, `processing/{lio_iekf,lio_base,vio_processing,combined_processing}.cpp`, `utils/algo/ekf.h`) | state (mean, covariance), priors, `last_H_full_`, checkpoints | LIO loop, VIO loop, joint loop, covariance write, rollbacks, map insertion | map, tracker result, diagnostics | the covariance is written once per loop from a member that survives frames; three rollbacks restore different snapshots | no evidence counted twice, none claimed that was discarded, a frame is atomic |
| **Node lifecycle** (`livo_recon_node.cpp`, `main.cpp`) | loop phase, idle clock | `run`, `runOffline`, `drainOnce`, `finishRun` | everything | auto-termination by idleness while work is under way; a stop that may be lost; being killed | what was handed to the export is on disk; a run from a bag ends, unless the tracker never hears of the stop |
| **VoxelNode** (`lio/voxelnode.*`, `lio/admission_rule.h`) | one octree cell: status, points, bins, plane, children | `insertPoints`, `passToChildren`, `findPlaneResidual` | VoxelMap | a batch that splits a cell; a cell that locks and drops its points | no point lost or doubled; a cell locks only for cause |
| **VoxelMap** (`map/voxelmap.*`) | hash map of roots, buckets, counters, dirty nodes, disc/dot marker arrays | `bootstrap`, `updateMap`, residual search, marker erase/append | LIO, publisher | several threads insert; swap-erase with cached indices | counters are a census; each plane on display is its own |
| **Hash map** (`utils/robin_hood.h`) | slots, info bytes, unit, multiplier | find, insert, erase, rehash, iterate | VoxelMap | backward shift, info-byte overflow in the middle of an insertion | it is a map |
| **VoxelPlane, binned statistics** (`lio/voxelplane.*`, `map/binned`, `utils/map/voxelmap_utils.h`) | plane parameters, class, residual statistics | `update`, `gate`, `computeResidual`, `updateEmpiricalResidualStats` | VoxelNode, LIO | a failed refit; statistics shared by threads | a query agrees with its fit; no residual lost from the statistics |
| **LIO residuals** (`processing/lio_base.cpp`, `lio/line_residual.h`, `lio/info_scale.*`, `lio/residual_binning.h`) | residuals, miss counters | `buildResiduals`, tiered search | map, estimator | points shared out to threads; a dozen options that change which rows exist | the rows and counters of a sequential pass |
| **ImuProc, deskew** (`processing/imu_processing.*`, `lio/deskew.*`) | last sample, poses, noise budget | `propagate`, `deskewPoints` | queues, estimator | boundary samples, interpolation, lost groups, an `abort()` | poses tile the time; every point finds its pose |
| **Cancellers** (`utils/imu/*`) | filter memories, sample clock | `process` per sample | callback | gaps, steps back in time | a frequency moves only on enough unbroken history |
| **StateGroup** (`utils/state/*`) | mean and covariance | plus, minus, assignment | everything | manifold arithmetic | copies are complete |
| **EvoProc** (`processing/evo_processing.*`) | ground truth, cursor, bracket, matches | `loadGtFile`, `drainGtQueue`, `processEvo`, CSV export | queues, node | a buffer that evicts under a cursor; two clocks | each checkpoint matched once, as an off-line evaluator would |
| **PubProc** (`processing/pub_processing.*`) | write queue, worker thread, file counters | publish, export, header patch | node, disk | second thread, files with counts in the header | header count = records written |
| **Parameters** (`utils/log/{param_warn,config_resolve,renamed_key_table}.h`, every `loadParameters`) | consumed keys | loaders in order, two scans for unread keys | all | fourteen loaders share one namespace; order of the scans | no set key silently ignored, no good file refused |
| **Tools** (`tools/qscale_refine.cpp`, `calib/*`), **CUDA kernels** (`cuda/*`) | — | offline optimisation; sums | — | floating point | numerics |
| **Diagnostics and loggers** (`diagnostics/*`, `utils/log/*`) | files | write-only, except the forced VIO pass | estimator | the forced pass changes the estimate | it is taken back |
| **Sweep runner, analysis** (`scripts/`) | job files | claim, run, analyse | cluster | — | — |

Interactions in one paragraph.  ROS callbacks (or `runOffline` reading a bag) call
`CbkProc`, which passes IMU samples through the canceller, feeds every accepted image first
to `Tracker::feedImage` and then to the queues.  Before the main loop, `CalibProc` pops
images and samples until the stationary window is complete, and sets the start time, which
shifts every queued stamp.  In the main loop `drainOnce` alternates `syncMeasures` (pops an
image, LiDAR and IMU up to it and one tracking result, into `measure_groups`) and
`estimateState`/`updateMaps`, which pops the group, resolves the anchor pose of its tracked
frame, propagates and deskews, corrects (building residuals on several threads), records the
new pose for later lookups and inserts the scan into the map (on several threads).
`EvoProc` matches the result with ground truth, `PubProc` hands it to its worker.  At the
end `finishRun` stops the tracker, then the worker, then patches the headers.

The full list of what is hard to test, each at its line, is `hazards` in `PROJECT.json`.

## 2. Plan and its state

| # | Modules | What | State |
|---|---|---|---|
| 1 | `DataQueues`, `MeasureSync` (extends it and `TrackingPipe`) | streams, calibration, group formation, pairing, anchor history | done, proved |
| 2 | `TrackingPipe` (abstract), `AsyncTracker` (implements it) | the two-thread tracker | done, proved |
| 3 | `Fusion` (abstract), `FrameCorrection` (implements it) | estimator control per frame | done, proved |
| 4 | `MarkerList`, `VoxelMap` (extends it) | cells, threads, counters, markers | done, proved |
| 5 | `RobinHood` | the hash table under it | done, proved |
| 6 | `PlaneFit`, `ResidualBuild` (extends it) | which rows a correction gets, built by threads | done, proved |
| 7 | `LineCanceller`, `ImuPipeline` (extends it and `DataQueues`) | inertial path from callback to deskewed scan | done, proved |
| 8 | `ExportWriter`, `NodeLifecycle` (extends it) | a whole run, its worker, its files, its end | done, proved |
| 9 | `TrackerCache` | anchor selection; track once, write, replay | done, proved |
| 10 | `EvoMatch` | ground truth matched with frames | done, proved |
| 11 | `ConfigLoad` | start-up | done, proved |
| 12 | `DataQueues_proofs` (lemmas of the next two), `MeasureSync_proofs`, `ImuPipeline_proofs` | streams, pairing, readings, poses | done |
| 13 | `Tracker_proofs`, `FrameCorrection_proofs` | the two refinements and their invariants; lookup, replay and anchor selection; the residual build | done |
| 14 | `VoxelMap_proofs`, `NodeLifecycle_proofs`, `EvoMatch_proofs` | cells, caches and the hash table; export and start-up; evaluation | done |

Compositions: `MeasureSync` runs the queues, the pipe and the pose history together;
`ImuPipeline` the queues and the canceller; `NodeLifecycle` the run loop and the export;
`ResidualBuild` the fit and the search; `VoxelMap` the cells and the markers.

## 3. Modules and how they correspond to the code

`PROJECT.json` maps every definition to its lines.  Definitions commented *deviation* are
plausible bugs, used by no specification; they serve to show that a property notices them.

### DataQueues

`struct DataQueues` (its ground-truth queue is in `EvoMatch`).  Times are ticks; a queued
stamp is relative to `startTime` exactly as in the code, `latest*` stay absolute.  A scan is
the set of its point times (points are sorted before the push, so the least and the greatest
element are `front()` and `back()`); `popLidar`'s loop and its `upper_bound` split are
`WholeScans` and `SplitScan`; `popImu`'s "hand the boundary sample out but keep it" is
`PoppedImu` and `ImuLeft`.  `StreamSettled` has the code's two ways: a message past the
lookahead margin, or data up to the image followed by a quiet period — in bag time offline,
in wall-clock time live, where `QuietElapses` is the passage of time.

### MeasureSync

The main thread.  Each callback, each image of calibration, each successful or failed
`syncMeasures` and each `estimateState` entry is one action, because all run on one
thread.  `IsValid` compares an absolute stamp with a relative `curr_time` as the code does.
`CalibrateOnImage` includes the rest of `estimateFromBuffer` for the completing image:
start time, shift, clearing; `framesToGo` counts down what `groups_qualifying` counts up.
`SyncMeasures` keeps the code's order: the queues are popped
and `curr_time` is set before success is known, the tracking result is consumed only after.
`EstimateState` is the lookup and the record of the pose history, nothing else of that
function.  The only concurrent step is `TrackerAnswers`, from `TrackingPipe`.
`acceptedImu`, `lastPop`, `skipped` and `lookup` are history variables read only by properties.

### TrackingPipe and AsyncTracker

`TrackingPipe` is what the rest of the node may rely on: images in, one result each out, in
order, chained.  `active` is chosen once, since the pipeline is not started when VIO is
disabled.

`AsyncTracker` has both threads with the atomicity the C++ gives them.  A critical section is
one step; the wait on the condition variable is three (`test`, `commit`, `asleep`), because
the mutex is held until the thread sleeps but `stop_requested_` is not written under it; the
work on an image is `step`, `snap`, `seed`, `push`, because `uv_curr_` and `anchors_` are read
and written in between.  `stopAsyncTracking` is its three statements.  The neural tracker is a
nondeterministic success; the candidate selection of a reseed too (`TrackerCache` has it).
`MaybeDrawUvTracking` is the visualisation that clears the shared vectors; a data race has no
defined outcome, the model allows the mildest one, an interleaved clear.

### Fusion and FrameCorrection

`FrameCorrection` is one measure group through `estimateState` and `updateMaps`.  Mean and
covariance are abstracted to *sets of evidence*: a piece of evidence is one sensor's normal
equations of one frame, linearised in one iteration.  This is what the filter's design makes
meaningful: the mean is re-solved from a fixed prior plus the current H (`applyMeanUpdate`),
the covariance is written once per loop as prior^-1 + last H (`applyCovarianceUpdate`), and
information is additive.  So `ApplyMeanUpdate` sets the mean's evidence to the prior's plus
this iteration's, and `Posterior` the covariance's to the prior's plus `cached` (the member
`last_H_full_`, which survives the frame).  Whether there are residuals and how well the
image fits are functions of the pose, drawn anew per frame (`scene`); the pose an update leads
to is arbitrary.  All options that change control are in `opts` and chosen at `Init`; the
snapshots are `prior` (one per loop), `mg.imu`, `mg.lio`.

`Fusion` says what should be left of that from outside: a frame adds this frame's LiDAR
evidence, visual evidence, both or neither, in one step, and gives up nothing.  The
refinement maps a frame in progress to its entry state, so that everything up to
`FinishFrame` is a stutter and each rollback has to leave a legal result.

### MarkerList and VoxelMap

Space is a forest: a position is the path root, octants, cell, and a node is a prefix of it;
points are kept in bags, so that one handed over twice is seen.  The bins of a node are its
sub-cells.  The one calling thread is `stage`: it fills the buckets (`Bootstrap`,
`NextObservation`, `UpdateMap`, all through `FillBuckets`, which empties the last scan's
buckets first, as the code does), then OpenMP threads run `insertPoints` on the roots: each
call on one node is an `InsertPoints` step, in any order, and `PassToChildren` makes the calls
on the children; `MergeUpdates` is the end of `updateMapInternal`.  In `InsertPoints` the early
returns (locked cell, parent, no fit wanted) come first, then `Fit` decides as the code does
between `Subdivide`, `Lock` and `StayOpen`; whether the points make a plane is a choice.
`RefreshMarker` is one turn of `buildVizMarkers`.  `MarkerList` is the pair of arrays
(`*_owner_`, `*_idx_`) with the swap in `eraseDisc` and `eraseDot`.

### RobinHood

`class Table` of `utils/robin_hood.h` as the maps use it (flat): info bytes with distance and
hash bits, `Placed` and `ShiftDown`, `IncreaseSize` with its four ways to make room (allocate, halve
the unit, another multiplier, a larger table), `Reserve`, `Compact`, move and clear, `FindIdx` with
its two-slot turns and the one-slot variant.  An insertion is a sequence of `Attempt`s, as in the code's
retry loop, so that lookups between them are checked too.  The 8 slots, unit 32, 255 and 256
attempts of the code are constants; the unit must be a power of two, of which a byte holds two less one
(`TableAssumption`; 2 * 32 <= 256).  `cut` is 2^`mInfoHashShift`, so that shifting by it is a
quotient.  A rehash is a recursion over the old slots (`MovedOne` moves one), the size for c entries
one over doublings (`NewSize`); a `size_t` that wraps to 0 there is beyond any memory and left out.

### PlaneFit and ResidualBuild

`PlaneFit` is one `VoxelPlane`: what `update()` decides from the number of representatives,
three (integer) eigenvalues and whether the solvers succeeded, and which rows `gate()`,
`computeResidual()` and `lineRows()` then give a point, for each line form, variance model and
floor.  `ResidualBuild` is `buildResiduals()`: contiguous shares (`schedule(static)`), one step
per cell visited, own buffers, a barrier and a merge in thread order.  The search (`Begin`, `Onward`, `Over`) has the
code's three tiers: own cell, the neighbour the point leans to, the rest of the box in order.  `Looked`
is what it carries from one cell to the next: the best rows, whether a converged plane was met, what the
gate said.  The statistics a cell shares between threads are updated in three steps: `Weigh` (the variance is read), `Count`
(`fetch_add` and the load), `Exchange` (the compare-exchange, which may fail and reload).
Between builds the pose moves; between frames cells are fitted anew.

### LineCanceller and ImuPipeline

`LineCanceller` keeps of the recursive fit its clock `n_`, which decides when the frequencies
are tracked and when the fit is thrown away.  `ImuPipeline` follows a sample from the callback
(canceller first, then the queue, which may refuse it) to `propagate()`.  What a sample
measures is its time, so a value says when it was measured: an interpolated reading must say
the time it stands for, and a reading scaled twice would show.  Two histories say how far that can
be asked: `firstStamp`, the sample whose reading stands in from the calibration on, and `passed`, the
first sample that propagation has gone past, from which every reading is exact.  `Poses` are the intervals of
`propagate()` with head and tail readings; `Bracket` is the backward walk of `deskewPoints`;
`budget` is the noise accumulator `g_qhat_*` with the frames it holds.

### ExportWriter and NodeLifecycle

`ExportWriter` has `PubProc`'s files, counters and write queue, with the worker in steps
(take, write points, write image, leave) and `exportColmap` in the code's order: stop flag,
join, images file, points file.  Opening may fail for each file.  `Killed` is the process dying
at any point: files keep a prefix of what was written.  `NodeLifecycle` adds the run: the
calibration loop, receiving, `drainOnce`, idle termination, `finishRun`, and which frame
index each scan is inserted and published under.  The tracker holds a group back until it
answers.  Time is not measured: `TimePasses` says that the idle limit has passed since the
last pop.  `finishRun` begins with `stopAsyncTracking`: nothing to do without a tracker, otherwise
`StopTracking` and, once the thread has answered what it holds, `JoinTracking`; or, when the thread has
nothing to do and is on its way to sleep, the wakeup is lost (section 6) and the run stays at `lost`.

### TrackerCache

The tool (`FeedTool` per image with its subsampling, then header, records, and an end that may
come too early) and the run (`LoadCache` with its refusals, `ImageCallback` with the lookup).
An image is a row of corner scores; anchors are selected from them by `OnePerCell` or
`GlobalTopN` as in `tracker.cpp`.  A result is named by the anchors and by the images the tracks were
carried over (`from`): the one the anchors were selected in and, when reseeds are skipped, each one stepped since
(`Stepped`), for `stepImpl` moves every track, also a lost one, to the image it is given.  The sort is `InOrder` of ranks (what `SetToSortSeq` gives, in a form the prover can unfold);
the loop that keeps the spacing is the recursive function in `Spaced`; the truncated candidate list is `Slice`.  `shadow` and `live` track beside the replay, which is what it is compared with.
`LowerBound` is `std::lower_bound`'s halving as a recursive function of the range
that is left, the order of the file not assumed.

### EvoMatch

Ground truth from a file (shifted once when the clock is set) or a topic (queue and a bounded
buffer that evicts under the cursor), and `processEvo` per frame: `DueSamples`, the two
association modes, commit, reports.  Each sample carries its true time beside the one the code
computes.

### ConfigLoad

`LivoReconNode::loadParameters()`: one action per loader, in order, each of which refuses the
file or registers what it read.  `Option`s are the resolver's (`get`, `mode`, `nested`), live
only in their scope; `Unclaimed` and `Consumed` are the two scans for unread keys.  Keys that a
loader treats alike are one representative.  A file gives the leaves of the server's tree; a key with
something set below it is there as a struct (`Given`), whose type no reader accepts but a vector's, which is
not checked (`VectorKeys`).  `Documented`, `Retired`, `Sound` and `WellFormed` say of a file alone what it means.

## 4. Runs

Every property of a passing run has a mutant (`PROJECT.json`), a plausible bug of the mapped
code under which TLC finds the property violated with the same configuration.

| Run | Question | Result |
|---|---|---|
| `sync` | bags and live streams, messages late by a tick, one calibration frame or three: what is consumed together, and in what pairing? | nothing stale is queued and groups end at their image; the windows of consecutive groups do not overlap; the pairing lag is *exactly* the number of skipped images; the anchor lookup never misses; nothing is estimated before calibration is done, and that counts each sample once, also the one two calibration frames are both handed; a ready image is always taken |
| `tracker` | all interleavings of two threads, shutdown at any time | anchors are older than their frame, a join loses nothing, every image is answered, and `AsyncTracker` implements `TrackingPipe` |
| `tracker_stop` | does `stopAsyncTracking` return (`tracker.h:176`)? | **violated**: lost wakeup |
| `frame` | two frames in every configuration | evidence counted once, rollbacks complete, a committed joint update fits, every frame ends, and `FrameCorrection` implements `Fusion` |
| `voxels` | bootstrap and insertions by threads into cells that fill, split and lock | no point lost or doubled on its way down, locks only for cause, counters and patches match the nodes, marker arrays stay indexed |
| `hash` | colliding keys, rehashes, a sweep that erases | it is a map at every moment, and a sweep passes every entry once |
| `residuals` | two threads, two builds, two fits in between | rows and misses of a sequential pass; statistics exact |
| `pipeline` | late and lost messages from the callback to the deskewed scan | poses tile the time, every reading is of its instant, every point finds its pose, frequencies move only on unbroken history |
| `lifecycle` | whole runs with the worker, ended by idling, ROS or a kill | the export is complete, headers are truthful, pose rows join with the map; a run from a bag without a tracker ends, and one with a tracker ends unless the wakeup of its stop is lost |
| `cache` | track, write, perhaps die; replay with the same or other settings, from the same or another start | an image finds its own record; a replay is what tracking would have given; a displacement begins in the image its result names as the previous one; anchors are the best and apart |
| `evo` | file or topic, before and after the clock is set | matches are those of an off-line evaluator, once each, and the reports agree |
| `config` | minimal file plus up to two keys, or a context plus one | nothing set is silently ignored, no good file is refused |

### Bounds

* `sync`: stamps up to 4, margins 1 tick, at most six messages (`MaxMessages`): 3 images, a scan of
  one or two points, 3 IMU samples.  One calibration frame, or three (`FrameCounts`), so that
  two frames sharing a boundary sample are counted before the window is complete
  (`calibImu = <<1, 2>>` with `imuQ = <<4>>` is reached).  Enough for one image eaten by
  calibration, one lost to a failed sync and one paired with the result of the first; a scan
  split at an image; a stream that stops; a quiet period that ends too early.
* `tracker`: four images, so that a result, an image in work and two in waiting exist at once,
  and a stop can arrive at each of them; `tracker_stop` needs two.
* `frame`: two poses (residuals present or not, fit good or bad, at each), two iterations and two
  frames: the second frame is where a stale `last_H_full_` would show.
* `voxels`: a root with two octants of two cells, one layer below the root, cells full after two
  points, three scans of up to three points: cells split, lock, receive more and are redrawn.
  `SYMMETRY` renames roots, octants and cells, all of them interchangeable; no liveness here.
* `hash`: five keys in a table of four slots that grows, four hash functions (all equal, few
  slots, better or worse after a changed multiplier), unit 4 and byte limit 7 in place of 32 and
  255, so that a byte overflows at distance 1 and every way to make room is taken.
* `residuals`: two threads, three points, three cells, two poses, eight option sets that cover
  each line form and each variance model, eight fits (plane, line, blob, too few points, failed
  solver, ...); two fits and two builds: a second iteration sees what the first left.
* `pipeline`: four images at stamps 1, 3, 5, 6 (the first completes the calibration), three scans, three
  samples up to one tick late, stamps up to 7, off-line; a group may be lost between two others, also
  right after the first sample was used before its time.  `SplitPulses = FALSE`: see observation 10.
* `lifecycle`: four groups, images every second frame, at most one visible point per frame: two
  tasks in the queue while the worker is in a third, and both kinds of record.
* `cache`: bags of four images (with corners, without, empty; in every order; barely further
  apart than the tolerance), five settings that differ in one thing at a time; a region of four pixels and a slice of
  three, so that a pixel can fail to be a candidate.
* `evo`: three samples, ticks 0..5, a buffer of two: eviction before and behind the cursor.
* `config`: every pair from a table of about 100 entries (legal, out of range, mistyped, misspelled,
  misnested, retired, set below a key that is read), every one of them in eight contexts that open a deeper scope, and
  every one without the extrinsics, where the state's loader returns early.

`CHECK_DEADLOCK FALSE` everywhere: bounded inputs run out and the system then waits, as the
program does at the end of a bag, or has ended.  Blocking that should not happen is checked by
liveness (`ReadyImageTaken`, `EveryImageAnswered`, `StopReturns`, `FrameEnds`,
`OfflineRunEnds`).

### Fairness

* `MeasureSync`: weak fairness of the loop's own steps and the tracker's answer.  `run` and
  `runOffline` retry in a loop without a blocking call, and the thread runs whenever its
  queue is not empty.  Nothing is assumed of the sensors or of the passage of quiet time.
* `AsyncTracker`: weak fairness of the background thread's steps and of the second and third
  statement of `stopAsyncTracking`.  Feeding, consuming and stopping are choices; spurious
  wakeups are possible and never relied on.
* `FrameCorrection`: weak fairness of `Next`, one thread that keeps running.  It says nothing
  of arrivals: `FrameEnds` is about frames that have begun.
* `NodeLifecycle`: weak fairness of the main thread, of the tracker's answers, of the worker and of time.  The
  main loop's choice between a message and none is not made for it, nor whether the tracker hears of its stop;
  ROS need not stop, and live calibration may last for ever: `OfflineRunEnds` is about runs from a bag.

The other modules state safety only and assume no fairness.

## 5. Proofs

`tlapm Tracker_proofs.tla` has two parts, the two threads and the cache.  The first checks, for every number of images (`MaxImages \in Nat`) and
with the visualisation on or off, under `TrackerAssumption` only: `TypeCorrect`,
`OrderCorrect`, `PrevCorrect`, `AnchorsCorrect`, `JoinCorrect` (`Spec => []` of `TypeOK`,
`InFeedOrder`, `PrevIsPredecessor`, `AnchorsPredateFrame`, `JoinLosesNothing`) and
`ImplementsPipe` (`Spec => PipeSpec`).

None of the properties is inductive.  `IInv` adds to the types
* *Positions*: results, the image in work and the waiting images are consecutive feed positions
  ending at `nFed` while the pipeline is active, the chain variable is the position just before
  the image in work (or before the head of the queue), and the prev stamps are chained;
* *Shutdown*: which combinations of `main`, `active`, `stop` and `bg` occur — the thread is gone
  only after a stop that found the queue empty, and `active` falls only after that;
* *AnchorAge*: `anchors`, the anchors in the frame under construction and `hasPrev` are bounded
  by the image in work, strictly before the reseed.

Each conjunct has its own step lemma (`PositionsStep`, `ShutdownStep`, `AnchorAgeStep`), one
case per action; `StampedSeq`, `StampedAppend`, `StampedTail` say how the refinement's view of
the result queue follows an append and a pop, and `RefineStep` maps `FeedImage` to `Feed`,
`PushResult` to `Answer`, `ConsumeResult` to `Consume`, `JoinStop` to `Stop` and all else to a
stutter.

`tlapm FrameCorrection_proofs.tla` does the same for the estimator: any set of poses, any set of
configurations, any iteration limit and number of frames, under `ModesAssumption`,
`MaxIterAssumption` and `MaxFramesAssumption`.  `TypeCorrect`, `EvidenceCorrect`, `CovCorrect`,
`LioCorrect`, `KeptCorrect`, `RollbackCorrect`, `JointFitCorrect`, `MapCorrect` are `Spec => []`
of `TypeOK`, `EvidenceOnce`, `CovMatchesMean`, `LioFromPropagated`, `EvidenceKept`,
`RollbackComplete`, `JointFitGood`, `MapOncePerFrame`; `ImplementsFusion` is `Spec => FusionSpec`.

The properties speak of the end of a frame, so the invariant has to carry what each stage knows:
* *Settled*: what the frame started from (`mg.imu`) has covariance = mean, one piece per sensor
  and frame, all older than the frame;
* *LioStages, VioStages, JointStages*: inside a loop (`InLoop`) the prior is the loop's starting
  point, the covariance is untouched, and `cached` is this loop's own evidence *if* it solved
  something — which is why a stale `last_H_full_` can never be written; between loops the
  belief `Builds` on the checkpoint before it by at most one piece per sensor of this frame;
* *Outcome*: what a finished correction leaves.
`PosteriorBuilds`, `IterationInLoop`, `BuildsComposes` and `BuildsOnSettled` are the facts about
`Builds` that the step lemmas use; `MapInv` is a second invariant for the scans in the map.

The second half of the module is about `ResidualBuild`, for any scan, any set of cells, fits, poses and
configurations and any number of threads, under `BuildAssumption` (integer geometry, a thread at least; every
option record has a box size and says whether the statistics are on):

| Theorem | Statement |
|---|---|
| `BuildInvariant` | `BuildSpec => []BuildInv` |
| `RowsHold` | `BuildSpec => []RowsSound` |
| `MissesHold` | `BuildSpec => []MissesExplained` |
| `StatsHold` | `BuildSpec => []StatsExact` |

All three properties speak of a finished build; `BuildInv`, checked by TLC over the states of `residuals` before it was
proved, says what holds on the way:
* *SearchOK*: a thread at a point knows of the cells it has left behind (`Before`: none, its own, or the own, the
  neighbour and the box up to here) exactly whether one had a plane, that none gave rows if it holds none, and
  otherwise that its rows are a whole block of one of them, the best where the score is the squared offset.
  `OnwardStep` carries this to the next cell, `OverStep` to the end of the search: then the rows are those of
  `Sources`, which is defined without a search, and the sight of a plane is that of the whole footprint.
* *ThreadOK*: buffer and counters of a thread are those of the points from the first of its share to the one it
  is at (`InOrder`, `CountsOK`); `BlockInOrder` and `JoinInOrder` put a point's rows, and a thread's, behind those
  before them, `OnceCounts` and `JoinCounts` the counts.  `ShareFacts` says that the static shares part the scan.
* *MergeInv*: the main thread holds the rows and counts of the shares merged so far.
* *StatsInv*: a voxel's count is the length of its history plus the threads between `fetch_add` and the successful
  exchange (`InFlight`), its sum that of the history.  An exchange succeeds only on the sum the thread loaded, so
  that it adds to the present one, whatever the others did in between.
* *HistoryInv*: an entry of this build is of a point, or of a cell, that no search still has ahead of it.
* *PlaneOK*: where the class the query decides again needs tilt matrices, the fit has made them.

`LeastNatural` takes the place of induction in `TotalAppend` (the sum over a history grows by the entry appended).

`tlapm DataQueues_proofs.tla` and `tlapm MeasureSync_proofs.tla` are about the sensor queues and the groups
cut from them, for any bounds, any number of images in flight, scans of any number of points and any
margins, under `MarginAssumption` and `SyncAssumption`:

| Theorem | Statement |
|---|---|
| `QueuesAlwaysCut` | `Spec => []QueuesCutAtImages` |
| `ResultsAlwaysKeepPace` | `Spec => []ResultsKeepPace` |
| `AnchorIsFound` | `Spec => []AnchorAlwaysFound` |
| `CalibrationIsWhole` | `Spec => []CalibrationWhole` |
| `LidarStaysInWindow` | `Spec => LidarWindow` |

* *Streams* (`StreamsBetween`, shared with `ImuPipeline`): every stream is in order and lies between the
  last pop and its newest accepted stamp.  The lemmas say what one call leaves: `PoppedImuFacts` (everything
  before the image and the one boundary sample, which also stays), `LidarLeftFacts` (scans in order, none
  empty, all after the image), `PoppedStreams` for the three together, and the shift of the time origin.
* *Counts*: with `consumed` results out of the pipe, the k-th queued image is the (`consumed` + k)-th of
  those not skipped: `n - |skipped before n| = consumed + k`.  This is why the pairing lag is exactly the
  number of skipped images, and no weaker statement survives a pop that fails after the image is gone.
* *Pipe and groups*: waiting images, results and groups are consecutive, and the history holds the pose of
  the frame estimated last and nothing else; so the lookup at its front never misses.
* *Calibration*: until it is done times are absolute, there is no group, and the samples counted followed by
  those queued are all that was accepted.

`tlapm ImuPipeline_proofs.tla` follows a sample from the callback to the deskewed scan, for any streams, any
lost groups, any scale and margins, under the assumptions of the modules it extends:

| Theorem | Statement | Hypothesis |
|---|---|---|
| `ReadingsCorrect` | `Spec => []ReadingsBelong` | |
| `FrameLocalCorrect` | `Spec => []FrameLocal` | `~Combined` |
| `PointsDeskewed` | `Spec => []EveryPointDeskewed` | `~SplitPulses` |
| `PosesTileCorrect` | `Spec => PosesTile` | |
| `HistoryCorrect` | `Spec => TrackedOnHistory` | `SamplePeriod <= 2` |

* `HeadOK` is what makes the readings inductive: the head sample is where propagation stands and exact once a
  sample was passed; until then nothing that waits lies before it or says less than the held reading.  The
  interpolation is exact because the scale divides what it multiplies (`ExactDiv`), and in between otherwise
  (`PartDiv`, `InterpolatedFacts`).
* A synced group begins where propagation stands and only its last sample reaches the image (`SyncedOK`), so
  that its poses tile the window (`Tiles`) and the backward walk stops at the one interval that holds a point.
* `ClockOK`: the clock of a fit counts at most two periods for every one its stamps cover.  The hypotheses
  are conditions the code does not check: observation 10 is `SplitPulses`, observation 13 is `Combined`, and the code
  rounds a gap to whole periods, so that samples nearer than half a period (impossible in ticks when
  a period has at most two) would count a period that was not there.

`tlapm VoxelMap_proofs.tla` proves, for any forest (roots, octants, cells, depth), any bounds, scans of any
finite size and any order of the threads, under `VoxelAssumption` only:

| Theorem | Statement |
|---|---|
| `MarkersCorrect` | `Spec => []MarkersIndexed` |
| `LocksCorrect` | `Spec => []LocksJustified` |
| `PointsArrive` | `Spec => []NoPointLost` |
| `CachesFollow` | `Spec => []CachesMatchNodes` |

* For the lists, `Indexed` alone does not survive an erase: the argument needs that the array is
  a sequence and the index a function, `ListOK`.  `SwapErase` is the fact about moving the last
  element of an injective array over position k and dropping the end: exactly the k-th owner is gone;
  with `AppendedOK` and `ErasedOK` each `RefreshMarker` is a composition of the two.
* For the locks, `LocksInv` adds that open nodes are in use (`retired = FALSE`), the shape of the
  node records, and that nothing exists before the first scan.  The last is what makes the
  sequential bootstrap sound: the anti-lock flag may rise only while the map is empty, and
  falling only weakens what is demanded (`FlagFalls`).  `FillOK`, `PassOK`, `KeepOK` and `InsertOK` are the
  steps.  "Disabled cells are of the last layer" is stated as `~(Layer(n) < MaxLayer)`, the
  negation of the guard of the split.
* Points, counters and patches need one invariant, `MapInv`: nodes form a tree of parents (`TreeInv`); the calls of
  `insertPoints` still to be made are never one below another, and their points are in no history
  (`CallsInv`), which is where the order of the threads stops to matter; every point of the scan is in such a call or
  settled at a leaf that no call will reach (`SettledInv`); the counters are a census; reports name nodes no
  call will reach and are true (`ReportsInv`); marks and patches without a report are true already (`DirtyInv`,
  `PatchesInv`).  `Call(n, v, h, C)` says from outside what a call does — node n becomes v, points
  h go to children C — and each part has a lemma about it, so that the five ways a call can end need only
  be shown to be such a `Call`.  `CachesFollow` adds the lists' invariant.

Its second half proves, for any keys, hash functions, first size, unit and byte width, under `TableAssumption` only:

| Theorem | Statement |
|---|---|
| `TableIsAMap` | `TableSpec => []TableCorrect` |
| `SweepsPassOnce` | `TableSpec => []SweepVisitsOnce` |
| `TableStaysGood` | `TableSpec => []TableInv` |

* What is checked is not inductive: true bytes alone do not say that a search may stop where it does.  `TableInv`
  asks more of every table (`Good`; checked by TLC on the instance of `hash` first, without its types):
  *Chained*, who is away from home stands behind somebody at least as far but one; *Roomy*, a table that still takes
  entries has a unit to spare in every byte; *RightCount*, never more entries than the load allows.
* Search: `ChainBack` follows the chain from the slot of a key to its home and finds nobody nearer than the key would be,
  so neither loop stops before it (`FindCorrect` for one and two slots per turn, `FindIdxCorrect`); `BehindFacts`: each ends
  at the two zero bytes behind the sentinel.  `RunEndSpot` and `FirstGreaterSpot` say the same of the two insertions.
* Insertion: there is an empty slot in front of the sentinel (`EmptyFacts`).  Either the buffer is as long as the load,
  and too few entries exist to fill it, or it is as long as a byte counts, and an entry in its last slot would be
  at a distance no byte holds.  So shifting up (`Opened`) truncates nothing because of *Roomy*, and
  keeps the chain (`OpenedGood`).
* Erasure (`Closed`, `ClosedGood`) and halving (`IncreasedGood`: each byte is still the one expected, `HalfStep`,
  which is where the unit must be a power of two).
* A rehash: the recursion has a solution (`StagesExist`), and after i slots the new table is good and holds what the slots
  before i held (`Moved`), or the rehash threw.  It asks nothing of the old table's hashes (`Movable`), since the
  multiplier may just have been changed.
* The sweep: fastForward passes no entry (`FastForwardFacts`), and what an erasure shifts back comes from behind
  the iterator (`ShiftDownGood`).

`tlapm NodeLifecycle_proofs.tla` proves, for any number of groups, any image interval and any number of
visible points, under `ExportAssumption` only:

| Theorem | Statement |
|---|---|
| `HeadersCorrect` | `Spec => []HeadersTruthful` |
| `PairsCorrect` | `Spec => []PosePairsJoin` |
| `ExportCorrect` | `Spec => []ExportComplete` |

* `HeadersTruthful` says nothing of a file still being written; `HeaderInv` adds that the header of an
  open file is the placeholder and the worker's counter equals its records, so that the count
  `exportColmap` writes is right when it is written (`AppendedFacts`, `PatchedFacts`).  `WorkInv` gives
  the type of the tasks in the queue and in the worker's hand.
* `PosePairsJoin` needs `RunInv`: only the group in hand may enter the map, and if it is in by the time
  it is published, the last insertion was its own, whichever of the two places inserted it.
  `RunStep` also shows that an index once given is kept (`Kept`), so rows already written go on joining
  (`RowsStay`, `RowAdded`); `KillKeeps` is the death of the process.
* `ExportComplete` needs that at every moment what was asked for is, in order, what the file holds, what is left
  in the worker's hand and what waits in the queue (`Trails`, which follows the tasks one by one and so
  needs no fold), that the file is open until its header is written, and that the worker leaves only when told
  and with an empty queue (`LeaveInv`).

The second part of `tlapm Tracker_proofs.tla` proves, for any bags, images, settings and tolerance, under
`CacheAssumption` (the stamps of a bag are further apart than the tolerance):

| Theorem | Statement |
|---|---|
| `LowerBoundFacts` | on a file in order the search ends at the first record that is not too early |
| `FindsOwnCorrect` | `CacheSpec => []FindsOwnRecord` |
| `ReplayCorrect` | `CacheSpec => []ReplayIsTracking` |
| `PredecessorCorrect` | `CacheSpec => []TracksFromPredecessor` |
| `SelectionCorrect` | `CacheSpec => []AnchorsBestAndSpread` |

* `LeastNatural` (a nonempty set of natural numbers has a least element, from the library's facts about finite
  sets) replaces induction: `SearchExists` shows that the recursion of `LowerBound` defines a function for every
  length, `SearchParts` what it returns.
* The invariant says of the tool's records and of the results a run would have tracked the same thing, `Chained`: each
  shows what the one before left.  The file is the beginning of the records, a run has them all or none, and
  a result is what its lookup gives.
* `ReplayIsTracking` then rests on three facts: a run that joins at an image of the cache and the tool agree on
  which images are subsampled away (`Aligned`: the two counters differ by a multiple of the period); so
  the records of consecutive results are consecutive (`NextRecord`); so the replayed results chain as the
  tracked ones do (`ResultsChain`), and two chains agree from the first common selection on (`AgreeFrom`).
* `TracksFromPredecessor`: what an image leaves, stepped or reseeded, ends in that image (`LeftOnImage`), and the
  result after it names it (`PrevInv`, of the run that tracks; in a replay consecutive records do).
* Anchors, sorting: numbers of how many come before are distinct and below the size of the set, so by counting
  (`FS_Injection`) each place is taken once (`RankFacts`, `InOrderFacts`, `RankedFacts`), for pixels and for cells alike.
* Anchors, grid: rounding to nearest keeps the edges in order, strictly when no cell is narrower than a pixel
  (`DivFacts`, `EdgeFacts`), so that cells cover the region for every grid and part it then (`CellFacts`).
* Anchors, spacing: `TakenOK` is the loop's invariant: a candidate is left out only for a chosen one *before it* that
  is too close, or when the set was already full of those before it.  A pixel that is no candidate has the whole
  slice before it, which is the last case of `BestAndSpread`.

`tlapm EvoMatch_proofs.tla` proves, for any buffer, tolerance and start of the clock, any samples and any frames,
under `EvoAssumption` only:

| Theorem | Statement |
|---|---|
| `MatchesAreCorrect` | `Spec => []MatchesCorrect` |
| `CheckpointsAreOnce` | `Spec => []CheckpointsOnce` |

* `Tracks` is the invariant of the buffer that evicts under its cursor: it holds the last samples taken in, and
  what lies before the cursor or has left was examined or evicted unseen, never both.
* `BufferOK`: what waits behind the cursor is later than the last frame.  This is what makes the due samples
  exactly those of the bracket, once (`DueFacts`); a checkpoint from a file is never late and never evicted (`FileOK`).
* `MatchedOK`: a match is `Rightful`, the choice of an evaluator that has all frames at hand; the nearer of the two frames
  of a bracket is the nearest of all (`NearerIsNearest`), also with every later frame (`RightfulStays`).
* Draining and flattening are recursive: `DrainExists` and `JoinExists` show through the least counterexample that the
  recursion defines a function, `DrainFacts` and `FlattenFacts` what each prefix of it leaves.

The second part of `tlapm NodeLifecycle_proofs.tla` is about start-up, for any set of parameter files, under
`ConfigAssumption` (keys are nonempty sequences, and nothing is set below a set key, both true of a parameter tree):

| Theorem | Statement |
|---|---|
| `ParamInvariant` | `LoadSpec => []ParamInv` |
| `EveryKeyActs` | `LoadSpec => []NothingIgnored` |
| `GoodFilesStart` | `LoadSpec => []GoodConfigsStart` |

* *Accounted*: whatever was registered, everything set at or below it is held, parked by a switched-off feature, or
  under a key that is read loosely.  A value of the right type is the value of a key that was set itself
  (`ReadAccounted`), so that a block put where a value belongs cannot hide in the ancestor walk of the scans.
* *LoadedUpTo*: the loaders before the stage have registered their keys (`Registers`) and left no complaint.  With
  `DocumentedReached` (every documented key is registered by one of the thirteen, or lies below a block that is)
  the last check finds nothing in a good file, and neither does the earlier scan: what it could find is read
  before it, is the LIO loader's own, or begins with a segment that is no prefix of it (`ScanFindsNothing`).
* *Frozen*: nothing derived from the file changes while it is loaded; with it one lemma, `LoadStep`, covers all loaders,
  which differ only in what they read, mark and refuse.

Only model-checked: everything under fairness (`EveryImageAnswered`, `ReadyImageTaken`,
`FrameEnds`, `OfflineRunEnds`: liveness and `ENABLED` are out of the prover's reach).  Every
safety invariant and every action property that a run checks is stated by a theorem.  The induction
theorems of the library take an operator argument, which no prover here can instantiate; a recursion
over numbers is proved about through `LeastNatural`.  No module here declares a `RECURSIVE` operator,
so that any of them can be proved about.

## 6. Finding

**Lost wakeup** (`tracker_stop`).  `stopAsyncTracking` stores the flag and notifies without
`input_mutex_` (`vio/tracker.cpp:422`); a thread between its predicate test and its sleep misses
both, and the join never returns.  `finishRun` stops the tracker before it exports, so that such a run hangs with
everything estimated, the COLMAP headers at 0, and has to be killed (`lost` in `NodeLifecycle`).

## 7. Observations

Places where a comment says more than the code does.  Those with a property in a module are
definitions commented "in no run": the model has a behaviour that refutes them, and no run states them.

Synchronisation and tracking
1. **Pairing** (`TrackedFrameIsGroups`; `tracked_frame.h:67`, `tracker.h:143`).  Every accepted image is
   fed to the tracker; calibration and failed syncs pop images and leave the results
   (`calib_processing.cpp:152`).  Every later group uses the tracked frame of an earlier image,
   by a lag that `ResultsKeepPace` determines exactly.
2. **Skipped reseed** (`PrevSeededAnchors`; `tracked_frame.h:85`, `tracker.cpp:397`).  `prev_timestamp`
   moves on while the anchors stay.  The tracks move on as well (`point_tracker.h:69`), so that displacement and
   predecessor still belong together (`TracksFromPredecessor`); only the anchors are older.  In grid mode every cell yields a candidate, so that a reseed is
   skipped only in `global_top_n` mode.
3. **Visualisation race** (`UvIsOwn`; `tracker.h:255`, `:267`): `maybeDrawUvTracking` clears the vectors the
   tracking thread snapshots.
4. **Cache header.**  `tracker.h:93` calls tracking a pure function of bag, grid, format and backend.
   `image_subsample_n`, `anchor_selection_mode`, the spacing and the candidate fraction also enter, and the header does not
   name them.  `tracker_cache.h:60` takes stamps to increase by construction; when header stamps are out of
   recording order, an image that is in the file can be missed.  The first image of a
   replay that joins later is ok with no predecessor, where a live one is not.
5. **Slice** (`SliceSuffices`; `tracker.cpp:279`: "only the raw TOP few thousand candidates can possibly matter once
   min_distance_px spacing is enforced").  The best `max(50 * max_n, 20000)` pixels are ranked.  A corner
   response is high over a patch, and one anchor rules out up to 193 pixels at 8 px: about a hundred anchors may
   use the slice up where 256 are wanted (`config/mid360.yaml:267`), and pixels further down that keep the
   distance are not looked at.  At the code's defaults (100 anchors) the slice does suffice.

Estimator and map
6. **Sequential fit test** (`FinalFitGood`; `vio_processing.h:41`, `vio_processing.cpp:345`).  The rollback decision is one step
   stale; the joint path re-evaluates first, and there `JointFitGood` holds.
7. **Own weight** (`NeverWeighsItself`; `voxelplane.h:81`).  With the empirical variance on, a point's residual of
   iteration k is in the statistics that weigh it in iteration k+1.  Statistics also take
   residuals of box candidates that were not chosen and of line points rejected later
   (`utils/map/voxelmap_utils.h:599`), and the choice among the box's candidates depends on the interleaving.
8. **Miss diagnosis** (`voxelmap.cpp:1007`): "the identical answer" holds for `neighborhood_size > 0`; at 0 the
   leaning neighbour is visited and counted though it is outside the box.
9. **Markers**: `getVizInfo` sets `is_converged` from `isFull()`, whatever the caller had put there;
   the remark that `n_planes` is "known to go negative" (`voxelmap.cpp:54`) does not fit the code as it is: `StatsAreCensus` holds.

Inertial path
10. **Deskew abort** (`NeverAborts`; `deskew.cpp:199-216`).  A point stamped exactly at the previous image's time has no
    pose before it, and the process aborts.  The split never leaves one, a message that begins exactly there
    does (`SplitPulses`); the run assumes that a scan never begins at the very stamp the one before ended.
11. **Canceller before queue** (`vibration_canceller.h:145`): an IMU sample out of order resets the fit although `pushImu`
    then drops it.  Samples queued before calibration completes are raw and integrated after it.
12. **First sample** (`ReadingsBelong`).  The sample that seeds the head is used before its time when it lies past the
    image; if the groups after its own are then lost, what is interpolated from it is not the reading of that
    instant, only one between the first reading and the next.  From the first sample passed on all are exact.
13. **Noise budget** (`imu_processing.cpp:121`): in combined mode LIO does not read it every frame, and it then spans several.

Evaluation, run and start-up
14. **Extrapolation** (`NoExtrapolation`; `evo_processing.h:244`, `evo_processing.cpp:745`): a sample that arrives after its
    bracket has closed is interpolated between two frames that are both later.
15. **Idle** (`IdleMeansFinished`; `livo_recon_node.h:88`): the test measures the time since the last pop; the tracker may
    still be working on images whose groups are then never estimated.  What was estimated is exported in full.
16. **Killed runs** keep a header of 0, or, when killed before the first flush, an empty file; a failure to open `points3D.bin` is not noticed by the writer.  The previous `odometry.txt` and image directory
    are discarded by a loader that runs before others may refuse the configuration.
17. **Set keys act** (`SetKeysAct`; rule 3.4, quoted in `map/snapshot_frames.h:18` and `evo_processing.cpp:112`): the evaluation keys are read and ignored while evaluation is off, and
    malformed vectors fall back to a default without a word (`state.cpp` near 213, `evo_processing.cpp:58`).
18. **Stale comments.**  `config_resolve.h:145` says a key set into a dead scope passes silently; `nested` records an
    error for it (line 94) and `finalizeConfig` refuses the file, which is what the model does.  `lio_iekf.cpp:317`
    says the scan is not extended to `voxel_map/`; it is (line 324).

## 8. Not modelled, and why

* Floating-point numerics: eigen-decomposition, Jacobians, integration, filters, calibration
  statistics, CUDA, the offline tools.  Where a number decides control (is there a plane, is
  the fit good, did the solver succeed) it is a choice or a small integer.
* Logging, printing, message formatting, analysis scripts.
* Point range and crop filters, sensor-stamp logs: they drop messages before the modelled code
  sees them.
* `pin_state` and `diag_split_dof`: debugging switches that overwrite the estimate.
* Allocators, memory layout and the node-pool variants of `robin_hood.h`, which the program does not use.
* The sweep runner: job control on a cluster whose scheduler and file system are outside the
  repository.
* Disk errors after a file was opened: the code does not look at them.
