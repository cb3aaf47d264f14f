---------------------------- MODULE FrameCorrection ----------------------------
(***************************************************************************)
(* One measure group through LivoReconNode::estimateState() and            *)
(* updateMaps(): the sequential LIO-then-VIO path, the joint (combined)    *)
(* path with its LIO-only fallback, and every snapshot, gate, rollback and *)
(* covariance write in between.                                            *)
(*                                                                         *)
(* The filter is an iterated one with a FIXED prior: applyMeanUpdate()     *)
(* re-solves the mean from the prior and the current iteration's           *)
(* measurements, and applyCovarianceUpdate() writes, once per loop,        *)
(* prior^-1 + last H (ekf.h).  Information is additive, so a mean or a     *)
(* covariance is abstracted to the SET OF EVIDENCE it rests on; a piece of *)
(* evidence is one sensor's normal equations of one frame, linearised in   *)
(* one iteration.  Which pose an update leads to is arbitrary; whether     *)
(* residuals exist and how good the visual fit is are functions of the     *)
(* pose they are evaluated at, drawn anew for each frame (the scene).      *)
(***************************************************************************)
EXTENDS Naturals, Sequences, FiniteSets

CONSTANTS Poses,      \* the poses the estimate may take
          Modes,      \* the configurations a run may have
          MaxIter,    \* max_iterations of the three iteration loops
          MaxFrames   \* bound: measure groups processed

Fits == {"none", "good", "bad"}   \* no valid point; |pixel error| within max_avg_error; above it
Filters == {"lio", "vio", "joint"}
Mode == [combined : BOOLEAN,      \* combined/enable
         afterLio : BOOLEAN,      \* common/insert_map_after_lio
         vio      : BOOLEAN,      \* vio/enable
         forceAll : BOOLEAN,      \* vio/ekf/force_all_iterations
         diag     : BOOLEAN]      \* force_vio_residual_log_

ASSUME ModesAssumption == Modes \subseteq Mode
ASSUME MaxIterAssumption == MaxIter \in Nat \ {0}
ASSUME MaxFramesAssumption == MaxFrames \in Nat

VARIABLES
  opts,       \* this run's configuration
  frame,      \* number of the frame in work (or last finished)
  stage,      \* where estimateState() stands
  scene,      \* the frame's measurements, as functions of the pose
  state,      \* *ctx_.state: pose, and the evidence behind mean and covariance
  prior,      \* prior_cov_ / state_propagat_ / state_before_frame of the loop in work
  loop,       \* that loop's locals
  cached,     \* last_H_full_ of each EkfUpdate; survives reset() and the frame
  mg,         \* the measure group's checkpoints and map_inserted
  map,        \* the scans in the voxel map: frame and pose they were inserted at
  seeded      \* the map was bootstrapped from calibration

vars == <<opts, frame, stage, scene, state, prior, loop, cached, mg, map, seeded>>

Terms == [src : {"lio", "vio"}, frame : Nat, iter : Nat]
State == [pose : Poses, mean : SUBSET Terms, cov : SUBSET Terms]
Scene == [lio : [Poses -> BOOLEAN],   \* buildResiduals() finds matches (once there is a map)
          fit : [Poses -> Fits],      \* avg_abs_pixel_residual against max_avg_error
          ok  : BOOLEAN]              \* image present, tracker loaded, tracked frame ok
Loop == [iter        : 0..MaxIter,
         solved      : BOOLEAN,       \* any_solved, n_successful > 0
         admitted    : BOOLEAN,       \* vio_admitted
         contributed : BOOLEAN,       \* vio_ever_contributed
         lastFit     : Fits,          \* last_pixel_residual
         rejected    : BOOLEAN]       \* this frame's visual correction was rolled back
Stages == {"idle", "lio", "lioLoop", "lioDone", "vio", "vioLoop", "vioEnd", "vioDone",
           "joint", "jointLoop", "jointEnd", "finish"}

FreshLoop == [iter |-> 0, solved |-> FALSE, admitted |-> FALSE, contributed |-> FALSE,
              lastFit |-> "none", rejected |-> FALSE]

TypeOK ==
  /\ opts \in Modes
  /\ frame \in 0..MaxFrames
  /\ stage \in Stages
  /\ scene \in Scene
  /\ state \in State
  /\ prior \in State
  /\ loop \in Loop
  /\ cached \in [Filters -> SUBSET Terms]
  /\ mg \in [imu : State, lio : State, inserted : BOOLEAN]
  /\ map \in Seq([frame : Nat, pose : Poses])
  /\ seeded \in BOOLEAN

--------------------------------------------------------------------------------
\* EkfUpdate.

Evidence(src) == [src |-> src, frame |-> frame, iter |-> loop.iter]

\* applyMeanUpdate(): the mean is re-solved from the fixed prior; the covariance
\* stays, H is kept for the covariance write.
ApplyMeanUpdate(filter, H) ==
  /\ \E p \in Poses : state' = [pose |-> p, mean |-> prior.mean \cup H, cov |-> state.cov]
  /\ cached' = [cached EXCEPT ![filter] = H]

\* The state after a loop's covariance write, made once and only if some iteration
\* of this loop solved anything: cached is otherwise another frame's.
\* (Deviation: written without the prior.)
PosteriorWithoutPrior(filter) ==
  IF loop.solved THEN [state EXCEPT !.cov = cached[filter]] ELSE state
Posterior(filter) ==
  IF loop.solved THEN [state EXCEPT !.cov = prior.cov \cup cached[filter]] ELSE state

\* for (iter = 0; iter < max_iterations; ++iter), also past a `continue`.
MoreIterations == loop.iter < MaxIter

NextIterationIfSolved(solves) ==     \* deviation: `continue` skips ++iter
  IF solves THEN loop.iter + 1 ELSE loop.iter
NextIteration(solves) == loop.iter + 1

--------------------------------------------------------------------------------
\* Measurements at the current pose.  (A scan without points leaves an empty map empty;
\* LIO then behaves as with a map it finds no match in.)

MapEmpty == map = << >> /\ ~seeded
LioResiduals == ~MapEmpty /\ scene.lio[state.pose]
VioFit == IF scene.ok THEN scene.fit[state.pose] ELSE "none"

--------------------------------------------------------------------------------
\* The estimate after calibration; the map is seeded unless calibration never completed.
Init ==
  /\ opts \in Modes
  /\ frame = 0
  /\ stage = "idle"
  /\ scene = [lio |-> [p \in Poses |-> FALSE], fit |-> [p \in Poses |-> "none"], ok |-> FALSE]
  /\ state \in [pose : Poses, mean : {{}}, cov : {{}}]
  /\ prior = state
  /\ loop = FreshLoop
  /\ cached = [f \in Filters |-> {}]
  /\ mg = [imu |-> state, lio |-> state, inserted |-> FALSE]
  /\ map = << >>
  /\ seeded \in BOOLEAN

\* A group is popped; IMU propagation moves the pose (and inflates the covariance,
\* which adds no evidence and drops none).
StartFrame ==
  /\ stage = "idle" /\ frame < MaxFrames
  /\ frame' = frame + 1
  /\ scene' \in Scene
  /\ \E p \in Poses : state' = [state EXCEPT !.pose = p]
  /\ mg' = [imu |-> state', lio |-> state', inserted |-> FALSE]
  /\ loop' = FreshLoop
  /\ stage' = IF opts.combined THEN "joint" ELSE "lio"
  /\ UNCHANGED <<opts, prior, cached, map, seeded>>

--------------------------------------------------------------------------------
\* LioProcIekf::processLIO().

LioStart ==
  /\ stage = "lio"
  /\ IF MapEmpty
       THEN stage' = "lioDone" /\ UNCHANGED <<prior, loop>>
       ELSE /\ stage' = "lioLoop"
            /\ prior' = state
            /\ loop' = [FreshLoop EXCEPT !.rejected = loop.rejected]
  /\ UNCHANGED <<opts, frame, scene, state, cached, mg, map, seeded>>

\* Every one of the max_iterations iterations runs; one without residuals does nothing.
LioIterate ==
  /\ stage = "lioLoop" /\ MoreIterations
  /\ IF LioResiduals
       THEN ApplyMeanUpdate("lio", {Evidence("lio")})
       ELSE UNCHANGED <<state, cached>>
  /\ loop' = [loop EXCEPT !.iter = @ + 1, !.solved = @ \/ LioResiduals]
  /\ UNCHANGED <<opts, frame, stage, scene, prior, mg, map, seeded>>

LioFinish ==
  /\ stage = "lioLoop" /\ ~MoreIterations
  /\ state' = Posterior("lio")
  /\ stage' = "lioDone"
  /\ UNCHANGED <<opts, frame, scene, prior, loop, cached, mg, map, seeded>>

\* Back in estimateState(): the post-LIO checkpoint and, in sequential mode only, the
\* early map insertion.
AfterLio ==
  /\ stage = "lioDone"
  /\ IF opts.combined
       THEN /\ stage' = "finish"
            /\ mg' = [mg EXCEPT !.lio = state]
            /\ UNCHANGED map
       ELSE /\ stage' = "vio"
            /\ mg' = [mg EXCEPT !.lio = state, !.inserted = opts.afterLio]
            /\ map' = IF opts.afterLio
                        THEN Append(map, [frame |-> frame, pose |-> state.pose]) ELSE map
  /\ UNCHANGED <<opts, frame, scene, state, prior, loop, cached, seeded>>

--------------------------------------------------------------------------------
\* VioProc::processVIO() and estimateStateCorrection().

DiagnosticOnly == opts.diag /\ ~opts.vio      \* diag_force_lio_only

\* The loop's prior is the state LIO left, its covariance included.
VioPrior == state

VioStart ==
  /\ stage = "vio"
  /\ IF (opts.vio \/ DiagnosticOnly) /\ scene.ok
       THEN stage' = "vioLoop" /\ prior' = VioPrior /\ loop' = FreshLoop
       ELSE stage' = "vioDone" /\ UNCHANGED <<prior, loop>>
  /\ UNCHANGED <<opts, frame, scene, state, cached, mg, map, seeded>>

\* solveSystem() returns false: no valid point, or the first fit is beyond the bound.
VioRefused == \/ VioFit = "none"
              \/ loop.iter = 0 /\ VioFit = "bad" /\ ~opts.forceAll

VioStop ==
  /\ stage = "vioLoop"
  /\ ~MoreIterations \/ VioRefused
  /\ stage' = "vioEnd"
  /\ UNCHANGED <<opts, frame, scene, state, prior, loop, cached, mg, map, seeded>>

\* A successful iteration; small steps or a small relative gain end the loop.
VioIterate ==
  /\ stage = "vioLoop" /\ MoreIterations /\ ~VioRefused
  /\ ApplyMeanUpdate("vio", {Evidence("vio")})
  /\ loop' = [loop EXCEPT !.iter = @ + 1, !.solved = TRUE, !.lastFit = VioFit]
  /\ stage' \in IF opts.forceAll THEN {"vioLoop"} ELSE {"vioLoop", "vioEnd"}
  /\ UNCHANGED <<opts, frame, scene, prior, mg, map, seeded>>

\* The rollback restores the whole state, the covariance just written included.
RestoredMean(filter) ==              \* deviation: only the mean is restored
  [prior EXCEPT !.cov = Posterior(filter).cov]
Restored(filter) == prior

VioFinish ==
  /\ stage = "vioEnd"
  /\ LET bad == loop.solved /\ loop.lastFit = "bad"
     IN  /\ state' = IF bad THEN Restored("vio") ELSE Posterior("vio")
         /\ loop' = [loop EXCEPT !.rejected = bad]
  /\ stage' = "vioDone"
  /\ UNCHANGED <<opts, frame, scene, prior, cached, mg, map, seeded>>

\* lio_only with the residual diagnostic: the forced VIO pass is taken back.
AfterDiagnosticKept == state         \* deviation
AfterDiagnostic == IF DiagnosticOnly THEN mg.lio ELSE state

AfterVio ==
  /\ stage = "vioDone"
  /\ state' = AfterDiagnostic
  /\ stage' = "finish"
  /\ UNCHANGED <<opts, frame, scene, prior, loop, cached, mg, map, seeded>>

--------------------------------------------------------------------------------
\* CombinedProc::processCombined().

JointStart ==
  /\ stage = "joint"
  /\ prior' = state
  /\ loop' = FreshLoop
  /\ stage' = "jointLoop"
  /\ UNCHANGED <<opts, frame, scene, state, cached, mg, map, seeded>>

\* Decided once, by the first iteration's fit.
VioAdmitted == IF loop.iter = 0 THEN opts.forceAll \/ VioFit = "good" ELSE loop.admitted
VioUsed == VioAdmitted /\ VioFit # "none"

JointStop ==
  /\ stage = "jointLoop"
  /\ ~MoreIterations \/ (~LioResiduals /\ VioFit = "none")
  /\ stage' = "jointEnd"
  /\ UNCHANGED <<opts, frame, scene, state, prior, loop, cached, mg, map, seeded>>

\* With VIO refused and no LiDAR residuals the iteration is spent and nothing applied.
JointIterate ==
  /\ stage = "jointLoop" /\ MoreIterations
  /\ LioResiduals \/ VioFit # "none"
  /\ LET solves == LioResiduals \/ VioUsed
         H == (IF LioResiduals THEN {Evidence("lio")} ELSE {})
              \cup (IF VioUsed THEN {Evidence("vio")} ELSE {})
     IN  /\ IF solves THEN ApplyMeanUpdate("joint", H) ELSE UNCHANGED <<state, cached>>
         /\ loop' = [loop EXCEPT !.iter = NextIteration(solves),
                                 !.solved = @ \/ solves,
                                 !.admitted = VioAdmitted,
                                 !.contributed = @ \/ VioUsed,
                                 !.lastFit = IF VioUsed THEN VioFit ELSE @]
         /\ stage' \in IF solves THEN {"jointLoop", "jointEnd"} ELSE {"jointLoop"}
  /\ UNCHANGED <<opts, frame, scene, prior, mg, map, seeded>>

\* The fit is measured again where the loop ended; without a valid point there, the
\* last one measured in the loop stands.
LastMeasuredFit == loop.lastFit      \* deviation: not measured again
FinalFit == IF VioFit # "none" THEN VioFit ELSE loop.lastFit

JointFinish ==
  /\ stage = "jointEnd"
  /\ LET bad == loop.contributed /\ FinalFit = "bad"
     IN  /\ state' = IF bad THEN Restored("joint") ELSE Posterior("joint")
         /\ loop' = [loop EXCEPT !.rejected = bad]
         /\ stage' = IF bad THEN "lio" ELSE "finish"
         /\ mg' = IF bad THEN mg ELSE [mg EXCEPT !.lio = state']
  /\ UNCHANGED <<opts, frame, scene, prior, cached, map, seeded>>

--------------------------------------------------------------------------------
\* updateMaps(): the scan goes in once, here unless it went in after LIO.
MapDue == ~mg.inserted

FinishFrame ==
  /\ stage = "finish"
  /\ map' = IF MapDue THEN Append(map, [frame |-> frame, pose |-> state.pose]) ELSE map
  /\ stage' = "idle"
  /\ UNCHANGED <<opts, frame, scene, state, prior, loop, cached, mg, seeded>>

Next ==
  \/ StartFrame
  \/ LioStart \/ LioIterate \/ LioFinish \/ AfterLio
  \/ VioStart \/ VioIterate \/ VioStop \/ VioFinish \/ AfterVio
  \/ JointStart \/ JointIterate \/ JointStop \/ JointFinish
  \/ FinishFrame

\* One thread runs the frame to its end: whatever step is due is taken, except that
\* nothing says another measure group arrives.
Spec == Init /\ [][Next]_vars /\ WF_vars(Next)

--------------------------------------------------------------------------------
\* Properties.

AtRest == stage = "idle" /\ frame > 0
VioTerms(terms) == {t \in terms : t.src = "vio" /\ t.frame = frame}

\* No sensor's evidence of one frame enters the covariance twice, whatever the number
\* of iterations, the rollback or the LIO-only rerun (ekf.h: iteration 2 must not
\* treat iteration 1's posterior as a new prior).
EvidenceOnce ==
  \A s, t \in state.cov : s.src = t.src /\ s.frame = t.frame => s = t

\* At the end of a frame the covariance claims exactly the evidence the mean was
\* moved by: not the information of a discarded update, not another frame's cached H.
CovMatchesMean == AtRest => state.cov = state.mean

\* processLIO() always starts from the propagated state, covariance included, also
\* when it runs as the fallback after the joint update was discarded.
LioFromPropagated == stage = "lioLoop" => prior = mg.imu

\* A frame gives up no evidence it came in with, and sequential VIO builds on what
\* LIO had just added.
EvidenceKept ==
  AtRest => /\ mg.imu.cov \subseteq state.cov
            /\ mg.lio.cov \subseteq state.cov

\* A rejected visual correction leaves nothing behind, and neither does the residual
\* diagnostic of lio_only mode: no visual evidence of the frame, and in sequential
\* mode the very state LIO left.
RollbackComplete ==
  AtRest /\ (loop.rejected \/ (~opts.combined /\ ~opts.vio)) =>
    /\ VioTerms(state.mean \cup state.cov) = {}
    /\ ~opts.combined => state = mg.lio

\* A joint update that used the camera is only committed where the camera, if it sees
\* anything there, agrees with the final pose.
JointFitGood ==
  AtRest /\ opts.combined /\ VioTerms(state.mean) # {} => VioFit # "bad"

\* The same for the sequential path, as the doc comment of max_avg_error says it;
\* not so there, and in no run (README, "Observations").
FinalFitGood ==
  AtRest /\ VioTerms(state.mean) # {} => VioFit # "bad"

\* Each frame's scan enters the map exactly once, in order, and at the pose the
\* configuration says: LIO's with insert_map_after_lio, else the final one.
MapOncePerFrame ==
  AtRest => /\ Len(map) = frame
            /\ \A i \in 1..frame : map[i].frame = i
            /\ map[frame].pose = IF opts.afterLio /\ ~opts.combined
                                   THEN mg.lio.pose ELSE state.pose

\* Every frame's correction ends, also one whose joint iterations apply nothing.
FrameEnds == stage # "idle" ~> stage = "idle"

\* Seen from outside, a frame is one atomic fusion of at most one piece of evidence
\* per sensor (Fusion.tla).
Committed == IF stage = "idle" THEN state ELSE mg.imu
Fused == INSTANCE Fusion WITH
           done  <- IF stage = "idle" THEN frame ELSE frame - 1,
           fused <- {<<t.src, t.frame>> : t \in Committed.cov}
FusionSpec == Fused!Spec

================================================================================
