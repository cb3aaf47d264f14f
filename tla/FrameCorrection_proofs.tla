------------------------ MODULE FrameCorrection_proofs ------------------------
(***************************************************************************)
(* Proofs about the per-frame estimator control, for any set of poses and  *)
(* configurations, any number of iterations and frames.                    *)
(*                                                                         *)
(* The second half is about the measurement rows a correction is made of   *)
(* (ResidualBuild), for any scan, map and configuration and any number of  *)
(* threads: what the search knows after each cell, what adjoining shares   *)
(* put together give, and what several threads leave of the statistics.    *)
(***************************************************************************)
EXTENDS FrameCorrection, ResidualBuild, FiniteSetTheorems, SequenceTheorems, TLAPS

OnePer(T) == \A s, t \in T : s.src = t.src /\ s.frame = t.frame => s = t

\* H is evidence of frame f, from the given sensors, one piece each.
FromFrame(H, f, srcs) ==
  /\ H \subseteq Terms
  /\ OnePer(H)
  /\ \A t \in H : t.frame = f /\ t.src \in srcs

\* Belief s is base and such evidence, in the mean and in the covariance alike.
Builds(s, base, f, srcs) ==
  \E H \in SUBSET Terms :
    /\ FromFrame(H, f, srcs)
    /\ s.mean = base.mean \cup H
    /\ s.cov = base.cov \cup H

\* Inside an iteration loop that started from base: the covariance is not touched yet,
\* the mean is a single correction away, and cached is this loop's own if it solved.
InLoop(filter, srcs, base) ==
  /\ prior = base
  /\ IF loop.solved
       THEN /\ FromFrame(cached[filter], frame, srcs)
            /\ state.mean = base.mean \cup cached[filter]
            /\ state.cov = base.cov
       ELSE state = base

\* What the frame started from is settled: covariance and mean agree, and all of it
\* is older than the frame.
Settled ==
  /\ mg.imu.cov = mg.imu.mean
  /\ OnePer(mg.imu.cov)
  /\ \A t \in mg.imu.cov : t.frame < frame

\* What a finished correction leaves.
Outcome ==
  /\ Builds(state, mg.imu, frame, {"lio", "vio"})
  /\ mg.lio.cov \subseteq state.cov
  /\ loop.rejected \/ (~opts.combined /\ ~opts.vio) =>
       /\ VioTerms(state.mean \cup state.cov) = {}
       /\ ~opts.combined => state = mg.lio
  /\ opts.combined /\ VioTerms(state.mean) # {} => VioFit # "bad"

LioStages ==
  /\ stage = "lio" => state = mg.imu
  /\ stage = "lioLoop" => InLoop("lio", {"lio"}, mg.imu)
  /\ stage = "lioDone" => Builds(state, mg.imu, frame, {"lio"})

VioStages ==
  /\ stage \in {"vio", "vioLoop", "vioEnd", "vioDone"} =>
       ~opts.combined /\ Builds(mg.lio, mg.imu, frame, {"lio"})
  /\ stage = "vio" => state = mg.lio
  /\ stage \in {"vioLoop", "vioEnd"} =>
       (opts.vio \/ opts.diag) /\ InLoop("vio", {"vio"}, mg.lio)
  /\ stage = "vioDone" =>
       /\ Builds(state, mg.lio, frame, {"vio"})
       /\ loop.rejected \/ (~opts.vio /\ ~opts.diag) => state = mg.lio

JointStages ==
  /\ stage \in {"joint", "jointLoop", "jointEnd"} => opts.combined
  /\ stage = "joint" => state = mg.imu
  /\ stage \in {"jointLoop", "jointEnd"} =>
       /\ InLoop("joint", {"lio", "vio"}, mg.imu)
       /\ loop.solved /\ ~loop.contributed => \A t \in cached["joint"] : t.src = "lio"

IInv ==
  /\ TypeOK
  /\ Settled
  /\ LioStages
  /\ VioStages
  /\ JointStages
  /\ stage \in {"finish", "idle"} => Outcome

-------------------------------------------------------------------------------
(* Types.                                                                      *)

LEMMA FreshLoopType == FreshLoop \in Loop
  BY MaxIterAssumption DEF FreshLoop, Loop, Fits

LEMMA InitTypeOK == Init => TypeOK
<1> SUFFICES ASSUME Init PROVE TypeOK
  OBVIOUS
<1>1. opts \in Modes /\ frame \in 0..MaxFrames /\ stage \in Stages /\ seeded \in BOOLEAN
  BY MaxFramesAssumption DEF Init, Stages
<1>2. state \in State
  <2>1. {{}} \subseteq SUBSET Terms
    OBVIOUS
  <2> QED
    BY <2>1 DEF Init, State
<1>3. scene \in Scene
  BY DEF Init, Scene, Fits
<1>4. loop \in Loop /\ cached \in [Filters -> SUBSET Terms]
  BY FreshLoopType DEF Init
<1>5. prior \in State /\ mg \in [imu : State, lio : State, inserted : BOOLEAN]
  BY <1>2 DEF Init
<1>6. map \in Seq([frame : Nat, pose : Poses])
  BY EmptySeq DEF Init
<1> QED
  BY <1>1, <1>2, <1>3, <1>4, <1>5, <1>6 DEF TypeOK

LEMMA EvidenceType ==
  ASSUME TypeOK, NEW src \in {"lio", "vio"}
  PROVE  /\ Evidence(src) \in Terms
         /\ Evidence(src).src = src
         /\ Evidence(src).frame = frame
  BY MaxIterAssumption, MaxFramesAssumption DEF TypeOK, Evidence, Terms, Loop

LEMMA PosteriorType ==
  ASSUME TypeOK, NEW filter \in Filters
  PROVE  /\ Posterior(filter) \in State
         /\ Posterior(filter).pose = state.pose
         /\ Posterior(filter).mean = state.mean
         /\ Posterior(filter).cov = IF loop.solved THEN prior.cov \cup cached[filter]
                                    ELSE state.cov
         /\ ~loop.solved => Posterior(filter) = state
<1>1. cached[filter] \subseteq Terms /\ prior.cov \subseteq Terms
  BY DEF TypeOK, State
<1>2. CASE loop.solved
  BY <1>1, <1>2 DEF TypeOK, State, Posterior
<1>3. CASE ~loop.solved
  BY <1>3 DEF TypeOK, State, Posterior
<1> QED
  BY <1>2, <1>3

LEMMA FitType == ASSUME TypeOK PROVE VioFit \in Fits
<1>1. state.pose \in Poses /\ scene.fit \in [Poses -> Fits]
  BY DEF TypeOK, State, Scene
<1> QED
  BY <1>1 DEF VioFit, Fits

LEMMA MeanUpdateType ==
  ASSUME TypeOK, NEW filter \in Filters, NEW H, H \subseteq Terms,
         ApplyMeanUpdate(filter, H)
  PROVE  /\ state' \in State
         /\ state'.mean = prior.mean \cup H
         /\ state'.cov = state.cov
         /\ cached' \in [Filters -> SUBSET Terms]
         /\ cached'[filter] = H
<1>1. PICK p \in Poses : state' = [pose |-> p, mean |-> prior.mean \cup H, cov |-> state.cov]
  BY DEF ApplyMeanUpdate
<1>2. prior.mean \cup H \subseteq Terms /\ state.cov \subseteq Terms
  BY DEF TypeOK, State
<1> QED
  BY <1>1, <1>2 DEF ApplyMeanUpdate, TypeOK, State

LEMMA NextTypeOK == TypeOK /\ [Next]_vars => TypeOK'
<1> SUFFICES ASSUME TypeOK, [Next]_vars PROVE TypeOK'
  OBVIOUS
<1> DEFINE MG == [imu : State, lio : State, inserted : BOOLEAN]
<1> DEFINE Scan == [frame : Nat, pose : Poses]
<1>0. /\ opts \in Modes /\ opts.combined \in BOOLEAN /\ opts.afterLio \in BOOLEAN
      /\ frame \in 0..MaxFrames /\ frame \in Nat /\ MaxFrames \in Nat
      /\ stage \in Stages /\ scene \in Scene /\ state \in State /\ prior \in State
      /\ loop \in Loop /\ cached \in [Filters -> SUBSET Terms] /\ mg \in MG
      /\ map \in Seq(Scan) /\ seeded \in BOOLEAN
  BY ModesAssumption, MaxFramesAssumption DEF TypeOK, Mode
<1>a. [frame |-> frame, pose |-> state.pose] \in Scan
  BY <1>0 DEF State
<1>b. Append(map, [frame |-> frame, pose |-> state.pose]) \in Seq(Scan)
  BY <1>0, <1>a, AppendProperties
<1>c. VioFit \in Fits
  BY FitType
<1>d. loop.iter \in Nat /\ MaxIter \in Nat
  BY <1>0, MaxIterAssumption DEF Loop
<1>1. CASE StartFrame
  <2>1. frame' \in 0..MaxFrames /\ scene' \in Scene /\ stage' \in Stages
    BY <1>0, <1>1 DEF StartFrame, Stages
  <2>2. state' \in State
    BY <1>0, <1>1 DEF StartFrame, State
  <2>3. mg' \in MG /\ loop' \in Loop
    BY <1>1, <2>2, FreshLoopType DEF StartFrame
  <2> QED
    BY <1>0, <1>1, <2>1, <2>2, <2>3 DEF StartFrame, TypeOK
<1>2. CASE LioStart
  <2>1. [FreshLoop EXCEPT !.rejected = loop.rejected] \in Loop
    BY <1>0, FreshLoopType DEF Loop
  <2> QED
    BY <1>0, <1>2, <2>1 DEF LioStart, TypeOK, Stages
<1>3. CASE LioIterate
  <2>1. state' \in State /\ cached' \in [Filters -> SUBSET Terms]
    <3>1. CASE LioResiduals
      <4>1. {Evidence("lio")} \subseteq Terms
        BY EvidenceType
      <4>2. ApplyMeanUpdate("lio", {Evidence("lio")})
        BY <1>3, <3>1 DEF LioIterate
      <4> QED
        BY <4>1, <4>2, MeanUpdateType DEF Filters
    <3>2. CASE ~LioResiduals
      BY <1>0, <1>3, <3>2 DEF LioIterate
    <3> QED
      BY <3>1, <3>2
  <2>2. LioResiduals \in BOOLEAN
    BY <1>0 DEF LioResiduals, Scene, State
  <2>3. loop' \in Loop
    <3> DEFINE solved == (loop.solved \/ LioResiduals)
    <3>1. loop.iter + 1 \in 0..MaxIter /\ (solved \in BOOLEAN)
      BY <1>3, <1>d DEF LioIterate, MoreIterations
    <3>2. loop' = [loop EXCEPT !.iter = loop.iter + 1, !.solved = solved]
      BY <1>3 DEF LioIterate
    <3> HIDE DEF solved
    <3> QED
      BY <1>0, <3>1, <3>2 DEF Loop
  <2> QED
    BY <1>0, <1>3, <2>1, <2>3 DEF LioIterate, TypeOK
<1>4. CASE LioFinish
  BY <1>0, <1>4, PosteriorType DEF LioFinish, TypeOK, Stages, Filters
<1>5. CASE AfterLio
  <2>1. mg' \in MG /\ stage' \in Stages
    BY <1>0, <1>5 DEF AfterLio, Stages
  <2>2. map' \in Seq(Scan)
    BY <1>0, <1>5, <1>b DEF AfterLio
  <2> QED
    BY <1>0, <1>5, <2>1, <2>2 DEF AfterLio, TypeOK
<1>6. CASE VioStart
  BY <1>0, <1>6, FreshLoopType DEF VioStart, VioPrior, TypeOK, Stages
<1>7. CASE VioIterate
  <2>1. {Evidence("vio")} \subseteq Terms
    BY EvidenceType
  <2>2. state' \in State /\ cached' \in [Filters -> SUBSET Terms]
    BY <1>7, <2>1, MeanUpdateType DEF VioIterate, Filters
  <2>3. loop' \in Loop
    <3>1. loop.iter + 1 \in 0..MaxIter
      BY <1>7, <1>d DEF VioIterate, MoreIterations
    <3>2. loop' = [loop EXCEPT !.iter = loop.iter + 1, !.solved = TRUE, !.lastFit = VioFit]
      BY <1>7 DEF VioIterate
    <3> QED
      BY <1>0, <1>c, <3>1, <3>2 DEF Loop
  <2> QED
    BY <1>0, <1>7, <2>2, <2>3 DEF VioIterate, TypeOK, Stages
<1>8. CASE VioStop \/ JointStop
  BY <1>0, <1>8 DEF VioStop, JointStop, TypeOK, Stages
<1>9. CASE VioFinish
  <2>1. state' \in State
    BY <1>0, <1>9, PosteriorType DEF VioFinish, Restored, Filters
  <2>2. loop' \in Loop
    BY <1>0, <1>9 DEF VioFinish, Loop
  <2> QED
    BY <1>0, <1>9, <2>1, <2>2 DEF VioFinish, TypeOK, Stages
<1>10. CASE AfterVio
  BY <1>0, <1>10 DEF AfterVio, AfterDiagnostic, TypeOK, Stages
<1>11. CASE JointStart
  BY <1>0, <1>11, FreshLoopType DEF JointStart, TypeOK, Stages
<1>12. CASE JointIterate
  <2> DEFINE solves == LioResiduals \/ VioUsed
  <2> DEFINE H == (IF LioResiduals THEN {Evidence("lio")} ELSE {})
                  \cup (IF VioUsed THEN {Evidence("vio")} ELSE {})
  <2>1. H \subseteq Terms
    BY EvidenceType
  <2>2. state' \in State /\ cached' \in [Filters -> SUBSET Terms]
    <3>1. CASE solves
      <4>1. ApplyMeanUpdate("joint", H)
        BY <1>12, <3>1 DEF JointIterate
      <4> QED
        BY <4>1, <2>1, MeanUpdateType DEF Filters
    <3>2. CASE ~solves
      BY <1>0, <1>12, <3>2 DEF JointIterate
    <3> QED
      BY <3>1, <3>2
  <2>3. LioResiduals \in BOOLEAN /\ VioAdmitted \in BOOLEAN /\ VioUsed \in BOOLEAN
    <3>1. LioResiduals \in BOOLEAN
      BY <1>0 DEF LioResiduals, Scene, State
    <3>2. VioAdmitted \in BOOLEAN
      BY <1>0, ModesAssumption DEF VioAdmitted, Loop, Mode
    <3> QED
      BY <3>1, <3>2 DEF VioUsed
  <2>4. loop' \in Loop
    <3> DEFINE solved == (loop.solved \/ solves)
    <3> DEFINE contributed == (loop.contributed \/ VioUsed)
    <3> DEFINE fit == IF VioUsed THEN VioFit ELSE loop.lastFit
    <3>1. loop.iter + 1 \in 0..MaxIter /\ (solved \in BOOLEAN) /\ (contributed \in BOOLEAN)
      BY <1>12, <1>d DEF JointIterate, MoreIterations
    <3>2. fit \in Fits
      BY <1>0, <1>c DEF Loop
    <3>3. loop' = [loop EXCEPT !.iter = loop.iter + 1, !.solved = solved,
                     !.admitted = VioAdmitted, !.contributed = contributed, !.lastFit = fit]
      BY <1>12 DEF JointIterate, NextIteration
    <3> HIDE DEF solved, contributed, fit
    <3> QED
      BY <1>0, <2>3, <3>1, <3>2, <3>3 DEF Loop
  <2>5. stage' \in Stages
    BY <1>12 DEF JointIterate, Stages
  <2> QED
    BY <1>0, <1>12, <2>2, <2>4, <2>5 DEF JointIterate, TypeOK
<1>13. CASE JointFinish
  <2>1. state' \in State
    BY <1>0, <1>13, PosteriorType DEF JointFinish, Restored, Filters
  <2>2. loop' \in Loop
    BY <1>0, <1>13 DEF JointFinish, Loop
  <2>3. mg' \in MG /\ stage' \in Stages
    BY <1>0, <1>13, <2>1 DEF JointFinish, Stages
  <2> QED
    BY <1>0, <1>13, <2>1, <2>2, <2>3 DEF JointFinish, TypeOK
<1>14. CASE FinishFrame
  <2>1. map' \in Seq(Scan)
    BY <1>0, <1>14, <1>b DEF FinishFrame
  <2> QED
    BY <1>0, <1>14, <2>1 DEF FinishFrame, TypeOK, Stages
<1>15. CASE UNCHANGED vars
  BY <1>15 DEF vars, TypeOK
<1> QED
  BY <1>1, <1>2, <1>3, <1>4, <1>5, <1>6, <1>7, <1>8, <1>9, <1>10, <1>11, <1>12,
     <1>13, <1>14, <1>15 DEF Next

\* Every state of the estimator is well typed.
THEOREM TypeCorrect == Spec => []TypeOK
  BY InitTypeOK, NextTypeOK, PTL DEF Spec

-------------------------------------------------------------------------------
(* What beliefs build on one another.                                          *)

LEMMA BuildsNothing == ASSUME NEW s, NEW f, NEW srcs PROVE Builds(s, s, f, srcs)
<1>1. FromFrame({}, f, srcs)
  BY DEF FromFrame, OnePer
<1> QED
  BY <1>1 DEF Builds

LEMMA BuildsWidens ==
  ASSUME NEW s, NEW b, NEW f, NEW S, NEW T, S \subseteq T, Builds(s, b, f, S)
  PROVE  Builds(s, b, f, T)
  BY DEF Builds, FromFrame

LEMMA BuildsComposes ==
  ASSUME NEW s, NEW m, NEW b, NEW f, Builds(m, b, f, {"lio"}), Builds(s, m, f, {"vio"})
  PROVE  /\ Builds(s, b, f, {"lio", "vio"})
         /\ m.cov \subseteq s.cov
<1>1. PICK H \in SUBSET Terms :
        FromFrame(H, f, {"lio"}) /\ m.mean = b.mean \cup H /\ m.cov = b.cov \cup H
  BY DEF Builds
<1>2. PICK G \in SUBSET Terms :
        FromFrame(G, f, {"vio"}) /\ s.mean = m.mean \cup G /\ s.cov = m.cov \cup G
  BY DEF Builds
<1>3. FromFrame(H \cup G, f, {"lio", "vio"})
  BY <1>1, <1>2 DEF FromFrame, OnePer
<1>4. s.mean = b.mean \cup (H \cup G) /\ s.cov = b.cov \cup (H \cup G)
  BY <1>1, <1>2
<1> QED
  BY <1>2, <1>3, <1>4 DEF Builds

\* Settled evidence and one frame's more is one piece per sensor and frame.
LEMMA BuildsOnSettled ==
  ASSUME TypeOK, Settled, NEW s, NEW srcs, Builds(s, mg.imu, frame, srcs)
  PROVE  /\ s.cov = s.mean
         /\ OnePer(s.cov)
         /\ \A t \in s.cov : t.frame <= frame
         /\ "vio" \notin srcs => VioTerms(s.mean \cup s.cov) = {}
<1>1. PICK H \in SUBSET Terms :
        FromFrame(H, frame, srcs) /\ s.mean = mg.imu.mean \cup H /\ s.cov = mg.imu.cov \cup H
  BY DEF Builds
<1>2. frame \in Nat /\ mg.imu.cov \subseteq Terms
  BY MaxFramesAssumption DEF TypeOK, State
<1>3. \A t \in Terms : t.frame \in Nat
  BY DEF Terms
<1>4. s.cov = s.mean
  BY <1>1 DEF Settled
<1>5. OnePer(s.cov)
  BY <1>1, <1>2, <1>3 DEF Settled, FromFrame, OnePer
<1>6. \A t \in s.cov : t.frame <= frame
  BY <1>1, <1>2, <1>3 DEF Settled, FromFrame
<1>7. ASSUME "vio" \notin srcs PROVE VioTerms(s.mean \cup s.cov) = {}
  BY <1>1, <1>2, <1>3, <1>7 DEF Settled, FromFrame, VioTerms
<1> QED
  BY <1>4, <1>5, <1>6, <1>7

\* What a loop leaves after its covariance write.
LEMMA PosteriorBuilds ==
  ASSUME TypeOK, NEW filter \in Filters, NEW srcs, NEW base, InLoop(filter, srcs, base)
  PROVE  Builds(Posterior(filter), base, frame, srcs)
<1>1. CASE loop.solved
  <2>1. cached[filter] \in SUBSET Terms /\ FromFrame(cached[filter], frame, srcs)
    BY <1>1 DEF InLoop, TypeOK
  <2>2. /\ Posterior(filter).mean = base.mean \cup cached[filter]
        /\ Posterior(filter).cov = base.cov \cup cached[filter]
    BY <1>1, PosteriorType DEF InLoop
  <2> QED
    BY <2>1, <2>2 DEF Builds
<1>2. CASE ~loop.solved
  BY <1>2, PosteriorType, BuildsNothing DEF InLoop
<1> QED
  BY <1>1, <1>2

\* One iteration that applies H keeps the loop a single correction away from base.
LEMMA IterationInLoop ==
  ASSUME TypeOK, NEW filter \in Filters, NEW srcs, NEW base, InLoop(filter, srcs, base),
         NEW H, FromFrame(H, frame, srcs), ApplyMeanUpdate(filter, H)
  PROVE  /\ prior = base
         /\ cached'[filter] = H
         /\ state'.mean = base.mean \cup H
         /\ state'.cov = base.cov
<1>1. H \subseteq Terms
  BY DEF FromFrame
<1>2. cached'[filter] = H /\ state'.mean = prior.mean \cup H /\ state'.cov = state.cov
  BY <1>1, MeanUpdateType
<1>3. prior = base /\ state.cov = base.cov
  BY DEF InLoop
<1> QED
  BY <1>2, <1>3

-------------------------------------------------------------------------------
(* The invariant.                                                              *)

LEMMA InitIInv == Init => IInv
<1> SUFFICES ASSUME Init PROVE IInv
  OBVIOUS
<1>1. TypeOK
  BY InitTypeOK
<1>2. /\ state.mean = {} /\ state.cov = {} /\ mg.imu = state /\ mg.lio = state
      /\ stage = "idle" /\ frame = 0
  BY DEF Init
<1>3. Settled
  BY <1>2 DEF Settled, OnePer
<1>4. Outcome
  BY <1>2, BuildsNothing DEF Outcome, VioTerms
<1> QED
  BY <1>1, <1>2, <1>3, <1>4 DEF IInv, LioStages, VioStages, JointStages

\* Steps that leave the frame number and the propagated state alone.
LEMMA SettledStays == Settled /\ UNCHANGED <<frame, mg.imu>> => Settled'
  BY DEF Settled

LEMMA StartFrameStep == IInv /\ TypeOK' /\ StartFrame => IInv'
<1> SUFFICES ASSUME IInv, TypeOK', StartFrame PROVE IInv'
  OBVIOUS
<1>1. /\ TypeOK /\ Settled /\ Outcome /\ frame \in Nat /\ frame' = frame + 1
      /\ stage' \in {"lio", "joint"} /\ (stage' = "joint" => opts'.combined)
      /\ mg'.imu = state'
  BY MaxFramesAssumption DEF IInv, StartFrame, TypeOK
<1>2. state'.mean = state.mean /\ state'.cov = state.cov
  BY DEF StartFrame, IInv, TypeOK, State
<1>3. state.cov = state.mean /\ OnePer(state.cov) /\ \A t \in state.cov : t.frame <= frame
  BY <1>1, BuildsOnSettled DEF Outcome
<1>4. \A t \in state.cov : t.frame \in Nat
  BY <1>1 DEF TypeOK, State, Terms
<1>5. Settled'
  BY <1>1, <1>2, <1>3, <1>4 DEF Settled
<1> QED
  BY <1>1, <1>5 DEF IInv, LioStages, VioStages, JointStages

LEMMA LioStep ==
  IInv /\ TypeOK' /\ (LioStart \/ LioIterate \/ LioFinish \/ AfterLio) => IInv'
<1> SUFFICES ASSUME IInv, TypeOK', LioStart \/ LioIterate \/ LioFinish \/ AfterLio
             PROVE  IInv'
  OBVIOUS
<1>0. TypeOK /\ Settled /\ LioStages /\ "lio" \in Filters
  BY DEF IInv, Filters
<1>1. CASE LioStart
  <2>1. CASE MapEmpty
    <3>1. Builds(state, mg.imu, frame, {"lio"})
      BY <1>0, <1>1, BuildsNothing DEF LioStart, LioStages
    <3> QED
      BY <1>0, <1>1, <2>1, <3>1
         DEF LioStart, IInv, LioStages, VioStages, JointStages, Settled, Builds, FromFrame
  <2>2. CASE ~MapEmpty
    <3>1. stage' = "lioLoop" /\ prior' = mg'.imu /\ state' = mg'.imu /\ ~loop'.solved
      BY <1>0, <1>1, <2>2 DEF LioStart, LioStages, FreshLoop
    <3>2. InLoop("lio", {"lio"}, mg.imu)'
      BY <3>1 DEF InLoop
    <3> QED
      BY <1>0, <1>1, <3>1, <3>2
         DEF LioStart, IInv, LioStages, VioStages, JointStages, Settled
  <2> QED
    BY <2>1, <2>2
<1>2. CASE LioIterate
  <2>0. InLoop("lio", {"lio"}, mg.imu) /\ UNCHANGED <<frame, stage, prior, mg>>
        /\ stage = "lioLoop"
    BY <1>0, <1>2 DEF LioIterate, LioStages
  <2>1. InLoop("lio", {"lio"}, mg.imu)'
    <3>1. CASE LioResiduals
      <4>1. FromFrame({Evidence("lio")}, frame, {"lio"})
        BY <1>0, EvidenceType DEF FromFrame, OnePer
      <4>2. ApplyMeanUpdate("lio", {Evidence("lio")}) /\ loop'.solved
        BY <1>0, <1>2, <3>1 DEF LioIterate, TypeOK, Loop
      <4>3. /\ prior = mg.imu /\ cached'["lio"] = {Evidence("lio")}
            /\ state'.mean = mg.imu.mean \cup {Evidence("lio")}
            /\ state'.cov = mg.imu.cov
        BY <1>0, <2>0, <4>1, <4>2, IterationInLoop
      <4>4. FromFrame(cached'["lio"], frame', {"lio"})
        BY <2>0, <4>1, <4>3
      <4> QED
        BY <2>0, <4>2, <4>3, <4>4 DEF InLoop
    <3>2. CASE ~LioResiduals
      <4>1. UNCHANGED <<state, cached, prior, frame, mg>> /\ loop'.solved = loop.solved
        BY <1>0, <1>2, <3>2 DEF LioIterate, TypeOK, Loop
      <4> QED
        BY <2>0, <4>1 DEF InLoop, FromFrame
    <3> QED
      BY <3>1, <3>2
  <2> QED
    BY <1>0, <2>0, <2>1 DEF IInv, LioStages, VioStages, JointStages, Settled
<1>3. CASE LioFinish
  <2>1. Builds(Posterior("lio"), mg.imu, frame, {"lio"})
    BY <1>0, <1>3, PosteriorBuilds DEF LioFinish, LioStages
  <2>2. state' = Posterior("lio") /\ UNCHANGED <<frame, mg>> /\ stage' = "lioDone"
    BY <1>3 DEF LioFinish
  <2>3. Builds(state', mg'.imu, frame', {"lio"})
    BY <2>1, <2>2
  <2> QED
    BY <1>0, <2>2, <2>3 DEF IInv, LioStages, VioStages, JointStages, Settled
<1>4. CASE AfterLio
  <2>1. /\ Builds(state, mg.imu, frame, {"lio"})
        /\ UNCHANGED <<state, frame, opts, loop, scene>>
        /\ mg'.imu = mg.imu /\ mg'.lio = state'
    BY <1>0, <1>4 DEF AfterLio, LioStages, TypeOK
  <2>2. Builds(state', mg'.imu, frame', {"lio"})
    BY <2>1
  <2>3. Settled'
    BY <1>0, <2>1 DEF Settled
  <2>4. CASE opts.combined
    <3>1. Builds(state', mg'.imu, frame', {"lio", "vio"})
      BY <2>2, BuildsWidens
    <3>2. VioTerms(state.mean \cup state.cov) = {}
      BY <1>0, <2>1, BuildsOnSettled
    <3>3. VioTerms(state.mean \cup state.cov)' = {} /\ VioTerms(state.mean)' = {}
      BY <2>1, <3>2 DEF VioTerms
    <3>4. Outcome'
      BY <2>1, <2>4, <3>1, <3>3 DEF Outcome
    <3> QED
      BY <1>4, <2>3, <2>4, <3>4 DEF AfterLio, IInv, LioStages, VioStages, JointStages
  <2>5. CASE ~opts.combined
    <3>1. stage' = "vio" /\ Builds(mg'.lio, mg'.imu, frame', {"lio"})
      BY <1>4, <2>1, <2>2, <2>5 DEF AfterLio
    <3> QED
      BY <2>1, <2>3, <2>5, <3>1 DEF IInv, LioStages, VioStages, JointStages
  <2> QED
    BY <2>4, <2>5
<1> QED
  BY <1>1, <1>2, <1>3, <1>4

LEMMA VioStep ==
  IInv /\ TypeOK' /\ (VioStart \/ VioIterate \/ VioStop \/ VioFinish \/ AfterVio) => IInv'
<1> SUFFICES ASSUME IInv, TypeOK',
                    VioStart \/ VioIterate \/ VioStop \/ VioFinish \/ AfterVio
             PROVE  IInv'
  OBVIOUS
<1>0. TypeOK /\ Settled /\ VioStages /\ "vio" \in Filters
  BY DEF IInv, Filters
<1>a. /\ ~opts.combined /\ Builds(mg.lio, mg.imu, frame, {"lio"})
      /\ UNCHANGED <<opts, frame, mg, scene>>
  BY <1>0 DEF VioStart, VioIterate, VioStop, VioFinish, AfterVio, VioStages
<1>b. Settled' /\ ~opts'.combined /\ Builds(mg'.lio, mg'.imu, frame', {"lio"})
  BY <1>0, <1>a DEF Settled
<1>1. CASE VioStart
  <2>0. state = mg.lio /\ UNCHANGED state
    BY <1>0, <1>1 DEF VioStart, VioStages
  <2>1. CASE stage' = "vioLoop"
    <3>1. InLoop("vio", {"vio"}, mg.lio)'
      BY <1>1, <1>a, <2>0, <2>1 DEF VioStart, VioPrior, InLoop, FreshLoop
    <3>2. opts'.vio \/ opts'.diag
      BY <1>1, <1>a, <2>1 DEF VioStart, DiagnosticOnly
    <3> QED
      BY <1>b, <2>1, <3>1, <3>2 DEF IInv, LioStages, VioStages, JointStages
  <2>2. CASE stage' = "vioDone"
    <3>1. state' = mg'.lio /\ Builds(state', mg'.lio, frame', {"vio"})
      BY <1>a, <2>0, BuildsNothing
    <3> QED
      BY <1>b, <2>2, <3>1 DEF IInv, LioStages, VioStages, JointStages
  <2> QED
    BY <1>1, <2>1, <2>2 DEF VioStart
<1>2. CASE VioIterate
  <2>1. stage = "vioLoop" /\ stage' \in {"vioLoop", "vioEnd"} /\ UNCHANGED prior
        /\ InLoop("vio", {"vio"}, mg.lio) /\ (opts'.vio \/ opts'.diag)
    BY <1>0, <1>2, <1>a DEF VioIterate, VioStages
  <2>2. FromFrame({Evidence("vio")}, frame, {"vio"})
    BY <1>0, EvidenceType DEF FromFrame, OnePer
  <2>3. ApplyMeanUpdate("vio", {Evidence("vio")}) /\ loop'.solved
    BY <1>0, <1>2 DEF VioIterate, TypeOK, Loop
  <2>4. /\ prior = mg.lio /\ cached'["vio"] = {Evidence("vio")}
        /\ state'.mean = mg.lio.mean \cup {Evidence("vio")}
        /\ state'.cov = mg.lio.cov
    BY <1>0, <2>1, <2>2, <2>3, IterationInLoop
  <2>5. FromFrame(cached'["vio"], frame', {"vio"})
    BY <1>a, <2>2, <2>4
  <2>6. InLoop("vio", {"vio"}, mg.lio)'
    BY <1>a, <2>1, <2>3, <2>4, <2>5 DEF InLoop
  <2> QED
    BY <1>b, <2>1, <2>6 DEF IInv, LioStages, VioStages, JointStages
<1>3. CASE VioStop
  <2>1. /\ InLoop("vio", {"vio"}, mg.lio) /\ stage' = "vioEnd"
        /\ UNCHANGED <<state, prior, loop, cached>> /\ (opts'.vio \/ opts'.diag)
    BY <1>0, <1>3, <1>a DEF VioStop, VioStages
  <2>2. InLoop("vio", {"vio"}, mg.lio)'
    BY <1>a, <2>1 DEF InLoop
  <2> QED
    BY <1>b, <2>1, <2>2 DEF IInv, LioStages, VioStages, JointStages
<1>4. CASE VioFinish
  <2>1. InLoop("vio", {"vio"}, mg.lio) /\ stage' = "vioDone"
    BY <1>0, <1>4 DEF VioFinish, VioStages
  <2>2. CASE loop.solved /\ loop.lastFit = "bad"
    <3>1. state' = mg'.lio
      BY <1>4, <1>a, <2>1, <2>2 DEF VioFinish, Restored, InLoop
    <3>2. Builds(state', mg'.lio, frame', {"vio"})
      BY <3>1, BuildsNothing
    <3> QED
      BY <1>b, <2>1, <3>1, <3>2 DEF IInv, LioStages, VioStages, JointStages
  <2>3. CASE ~(loop.solved /\ loop.lastFit = "bad")
    <3>1. state' = Posterior("vio") /\ ~loop'.rejected
      BY <1>0, <1>4, <2>3 DEF VioFinish, TypeOK, Loop
    <3>2. Builds(Posterior("vio"), mg.lio, frame, {"vio"})
      BY <1>0, <2>1, PosteriorBuilds
    <3>3. Builds(state', mg'.lio, frame', {"vio"})
      BY <1>a, <3>1, <3>2
    <3>4. opts'.vio \/ opts'.diag
      BY <1>0, <1>4, <1>a DEF VioFinish, VioStages
    <3> QED
      BY <1>b, <2>1, <3>1, <3>3, <3>4 DEF IInv, LioStages, VioStages, JointStages
  <2> QED
    BY <2>2, <2>3
<1>5. CASE AfterVio
  <2>1. /\ Builds(state, mg.lio, frame, {"vio"}) /\ stage' = "finish" /\ UNCHANGED loop
        /\ loop.rejected \/ (~opts.vio /\ ~opts.diag) => state = mg.lio
        /\ state' = IF opts.diag /\ ~opts.vio THEN mg.lio ELSE state
    BY <1>0, <1>5 DEF AfterVio, AfterDiagnostic, DiagnosticOnly, VioStages
  <2>2. Builds(state', mg.lio, frame, {"vio"})
    BY <2>1, BuildsNothing
  <2>3. Builds(state', mg.imu, frame, {"lio", "vio"}) /\ mg.lio.cov \subseteq state'.cov
    BY <1>a, <2>2, BuildsComposes
  <2>4. loop.rejected \/ ~opts.vio => state' = mg.lio
    BY <2>1
  <2>5. VioTerms(mg.lio.mean \cup mg.lio.cov) = {}
    BY <1>0, <1>a, BuildsOnSettled
  <2>6. ASSUME state' = mg.lio PROVE VioTerms(state.mean \cup state.cov)' = {}
    BY <1>a, <2>5, <2>6 DEF VioTerms
  <2>7. Outcome'
    BY <1>a, <2>1, <2>3, <2>4, <2>6 DEF Outcome
  <2> QED
    BY <1>b, <2>1, <2>7 DEF IInv, LioStages, VioStages, JointStages
<1> QED
  BY <1>1, <1>2, <1>3, <1>4, <1>5

LEMMA JointStep ==
  IInv /\ TypeOK' /\ (JointStart \/ JointIterate \/ JointStop \/ JointFinish) => IInv'
<1> SUFFICES ASSUME IInv, TypeOK', JointStart \/ JointIterate \/ JointStop \/ JointFinish
             PROVE  IInv'
  OBVIOUS
<1>0. TypeOK /\ Settled /\ JointStages /\ "joint" \in Filters
  BY DEF IInv, Filters
<1>a. opts.combined /\ UNCHANGED <<opts, frame, scene>> /\ mg'.imu = mg.imu
  BY <1>0 DEF JointStart, JointIterate, JointStop, JointFinish, JointStages, TypeOK
<1>b. Settled' /\ opts'.combined
  BY <1>0, <1>a DEF Settled
<1>1. CASE JointStart
  <2>1. /\ stage' = "jointLoop" /\ state' = mg'.imu /\ prior' = mg'.imu
        /\ ~loop'.solved
    BY <1>0, <1>1, <1>a DEF JointStart, JointStages, FreshLoop
  <2>2. InLoop("joint", {"lio", "vio"}, mg.imu)'
    BY <2>1 DEF InLoop
  <2> QED
    BY <1>b, <2>1, <2>2 DEF IInv, LioStages, VioStages, JointStages
<1>2. CASE JointStop
  <2>1. /\ InLoop("joint", {"lio", "vio"}, mg.imu) /\ stage' = "jointEnd"
        /\ UNCHANGED <<state, prior, loop, cached>>
        /\ loop.solved /\ ~loop.contributed => \A t \in cached["joint"] : t.src = "lio"
    BY <1>0, <1>2 DEF JointStop, JointStages
  <2>2. InLoop("joint", {"lio", "vio"}, mg.imu)'
    BY <1>a, <2>1 DEF InLoop
  <2> QED
    BY <1>b, <2>1, <2>2 DEF IInv, LioStages, VioStages, JointStages
<1>3. CASE JointIterate
  <2> DEFINE solves == LioResiduals \/ VioUsed
  <2> DEFINE H == (IF LioResiduals THEN {Evidence("lio")} ELSE {})
                  \cup (IF VioUsed THEN {Evidence("vio")} ELSE {})
  <2>1. /\ InLoop("joint", {"lio", "vio"}, mg.imu) /\ stage = "jointLoop"
        /\ stage' \in {"jointLoop", "jointEnd"} /\ UNCHANGED <<prior, mg>>
        /\ loop.solved /\ ~loop.contributed => \A t \in cached["joint"] : t.src = "lio"
    BY <1>0, <1>3 DEF JointIterate, JointStages
  <2>2. /\ loop'.solved <=> loop.solved \/ solves
        /\ loop'.contributed <=> loop.contributed \/ VioUsed
    BY <1>0, <1>3 DEF JointIterate, TypeOK, Loop
  <2>3. FromFrame(H, frame, {"lio", "vio"}) /\ (~VioUsed => \A t \in H : t.src = "lio")
    BY <1>0, EvidenceType DEF FromFrame, OnePer
  <2>4. CASE solves
    <3>1. ApplyMeanUpdate("joint", H)
      BY <1>3, <2>4 DEF JointIterate
    <3>2. /\ prior = mg.imu /\ cached'["joint"] = H
          /\ state'.mean = mg.imu.mean \cup H
          /\ state'.cov = mg.imu.cov
      BY <1>0, <2>1, <2>3, <3>1, IterationInLoop
    <3>3. FromFrame(cached'["joint"], frame', {"lio", "vio"})
      BY <1>a, <2>3, <3>2
    <3>4. loop'.solved /\ prior' = mg'.imu
      BY <2>1, <2>2, <2>4, <3>2
    <3>5. InLoop("joint", {"lio", "vio"}, mg.imu)'
      BY <1>a, <3>2, <3>3, <3>4 DEF InLoop
    <3>6. ~loop'.contributed => \A t \in cached'["joint"] : t.src = "lio"
      BY <2>2, <2>3, <3>2
    <3> QED
      BY <1>b, <2>1, <3>5, <3>6 DEF IInv, LioStages, VioStages, JointStages
  <2>5. CASE ~solves
    <3>1. UNCHANGED <<state, cached>> /\ ~VioUsed
      BY <1>3, <2>5 DEF JointIterate
    <3>2. InLoop("joint", {"lio", "vio"}, mg.imu)'
      BY <1>a, <2>1, <2>2, <2>5, <3>1 DEF InLoop
    <3> QED
      BY <1>b, <2>1, <2>2, <2>5, <3>1, <3>2 DEF IInv, LioStages, VioStages, JointStages
  <2> QED
    BY <2>4, <2>5
<1>4. CASE JointFinish
  <2> DEFINE bad == loop.contributed /\ FinalFit = "bad"
  <2>1. /\ InLoop("joint", {"lio", "vio"}, mg.imu)
        /\ loop.solved /\ ~loop.contributed => \A t \in cached["joint"] : t.src = "lio"
    BY <1>0, <1>4 DEF JointFinish, JointStages
  <2>2. CASE bad
    <3>1. stage' = "lio" /\ state' = mg'.imu
      BY <1>4, <1>a, <2>1, <2>2 DEF JointFinish, Restored, InLoop
    <3> QED
      BY <1>b, <3>1 DEF IInv, LioStages, VioStages, JointStages
  <2>3. CASE ~bad
    <3>1. /\ stage' = "finish" /\ state' = Posterior("joint") /\ mg'.lio = state'
          /\ ~loop'.rejected
      BY <1>0, <1>4, <2>3 DEF JointFinish, TypeOK, Loop
    <3>2. Builds(Posterior("joint"), mg.imu, frame, {"lio", "vio"})
      BY <1>0, <2>1, PosteriorBuilds
    <3>3. Builds(state', mg'.imu, frame', {"lio", "vio"})
      BY <1>a, <3>1, <3>2
    <3>4. state'.pose = state.pose /\ state'.mean = state.mean
      BY <1>0, <3>1, PosteriorType
    <3>5. VioFit' = VioFit
      BY <1>a, <3>4 DEF VioFit
    <3>6. CASE loop.contributed
      <4>1. VioFit # "bad"
        BY <2>3, <3>6 DEF FinalFit
      <4> QED
        BY <1>b, <3>1, <3>3, <3>5, <4>1
           DEF IInv, LioStages, VioStages, JointStages, Outcome
    <3>7. CASE ~loop.contributed
      <4>1. Builds(state', mg.imu, frame, {"lio"})
        <5>1. CASE loop.solved
          <6>1. cached["joint"] \in SUBSET Terms /\ FromFrame(cached["joint"], frame, {"lio"})
            BY <1>0, <2>1, <3>7, <5>1 DEF InLoop, FromFrame, TypeOK
          <6>2. /\ state'.mean = mg.imu.mean \cup cached["joint"]
                /\ state'.cov = mg.imu.cov \cup cached["joint"]
            BY <1>0, <2>1, <3>1, <5>1, PosteriorType DEF InLoop
          <6> QED
            BY <6>1, <6>2 DEF Builds
        <5>2. CASE ~loop.solved
          BY <1>0, <2>1, <3>1, <5>2, PosteriorType, BuildsNothing DEF InLoop
        <5> QED
          BY <5>1, <5>2
      <4>2. VioTerms(state'.mean \cup state'.cov) = {}
        BY <1>0, <4>1, BuildsOnSettled
      <4>3. VioTerms(state.mean)' = {}
        BY <1>a, <4>2 DEF VioTerms
      <4> QED
        BY <1>b, <3>1, <3>3, <4>3
           DEF IInv, LioStages, VioStages, JointStages, Outcome
    <3> QED
      BY <3>6, <3>7
  <2> QED
    BY <2>2, <2>3
<1> QED
  BY <1>1, <1>2, <1>3, <1>4

LEMMA QuietStep == IInv /\ TypeOK' /\ (FinishFrame \/ UNCHANGED vars) => IInv'
<1> SUFFICES ASSUME IInv, TypeOK', FinishFrame \/ UNCHANGED vars PROVE IInv'
  OBVIOUS
<1>1. UNCHANGED <<opts, frame, scene, state, prior, loop, cached, mg>>
  BY DEF FinishFrame, vars
<1>2. Settled'
  BY <1>1 DEF IInv, Settled
<1>3. ASSUME Outcome PROVE Outcome'
  BY <1>1, <1>3 DEF Outcome, VioTerms, VioFit
<1>4. CASE FinishFrame
  BY <1>2, <1>3, <1>4 DEF FinishFrame, IInv, LioStages, VioStages, JointStages
<1>5. CASE UNCHANGED vars
  <2>1. UNCHANGED stage
    BY <1>5 DEF vars
  <2> QED
    BY <1>1, <1>2, <1>3, <2>1
       DEF IInv, LioStages, VioStages, JointStages, InLoop
<1> QED
  BY <1>4, <1>5

\* The invariant holds in every reachable state.
THEOREM Invariant == Spec => []IInv
<1>1. IInv /\ [Next]_vars => IInv'
  <2>1. IInv => TypeOK
    BY DEF IInv
  <2> QED
    BY <2>1, NextTypeOK, StartFrameStep, LioStep, VioStep, JointStep, QuietStep DEF Next
<1> QED
  BY <1>1, InitIInv, PTL DEF Spec

-------------------------------------------------------------------------------
(* What follows from it.                                                       *)

LEMMA LioBuildsCov ==
  ASSUME IInv, stage \in {"vio", "vioLoop", "vioEnd", "vioDone"}
  PROVE  OnePer(mg.lio.cov)
  BY BuildsOnSettled DEF IInv, VioStages

\* No sensor's evidence of a frame enters the covariance twice (fixed prior, ekf.h).
THEOREM EvidenceCorrect == Spec => []EvidenceOnce
<1>1. ASSUME IInv PROVE OnePer(state.cov)
  <2> USE <1>1
  <2>1. TypeOK /\ Settled /\ stage \in Stages
    BY DEF IInv, TypeOK
  <2>2. CASE stage \in {"lio", "lioLoop", "joint", "jointLoop", "jointEnd"}
    <3>1. state.cov = mg.imu.cov
      BY <2>2 DEF IInv, LioStages, JointStages, InLoop
    <3> QED
      BY <2>1, <3>1 DEF Settled
  <2>3. CASE stage = "lioDone"
    BY <2>1, <2>3, BuildsOnSettled DEF IInv, LioStages
  <2>4. CASE stage \in {"vio", "vioLoop", "vioEnd"}
    <3>1. state.cov = mg.lio.cov
      BY <2>4 DEF IInv, VioStages, InLoop
    <3> QED
      BY <2>4, <3>1, LioBuildsCov
  <2>5. CASE stage = "vioDone"
    <3>1. Builds(mg.lio, mg.imu, frame, {"lio"}) /\ Builds(state, mg.lio, frame, {"vio"})
      BY <2>5 DEF IInv, VioStages
    <3>2. Builds(state, mg.imu, frame, {"lio", "vio"})
      BY <3>1, BuildsComposes
    <3> QED
      BY <2>1, <3>2, BuildsOnSettled
  <2>6. CASE stage \in {"finish", "idle"}
    BY <2>1, <2>6, BuildsOnSettled DEF IInv, Outcome
  <2> QED
    BY <2>1, <2>2, <2>3, <2>4, <2>5, <2>6 DEF Stages
<1>2. IInv => EvidenceOnce
  BY <1>1 DEF EvidenceOnce, OnePer
<1> QED
  BY <1>2, Invariant, PTL

\* At rest the covariance claims exactly the evidence that moved the mean.
THEOREM CovCorrect == Spec => []CovMatchesMean
<1>1. IInv => CovMatchesMean
  BY BuildsOnSettled DEF IInv, CovMatchesMean, AtRest, Outcome
<1> QED
  BY <1>1, Invariant, PTL

\* processLIO() starts from the propagated state, as the fallback too.
THEOREM LioCorrect == Spec => []LioFromPropagated
<1>1. IInv => LioFromPropagated
  BY DEF IInv, LioStages, InLoop, LioFromPropagated
<1> QED
  BY <1>1, Invariant, PTL

\* No evidence is given up, by LIO or by VIO.
THEOREM KeptCorrect == Spec => []EvidenceKept
<1>1. IInv => EvidenceKept
  BY DEF IInv, EvidenceKept, AtRest, Outcome, Builds
<1> QED
  BY <1>1, Invariant, PTL

\* A rejected or diagnostic visual correction leaves nothing behind.
THEOREM RollbackCorrect == Spec => []RollbackComplete
<1>1. IInv => RollbackComplete
  BY DEF IInv, RollbackComplete, AtRest, Outcome
<1> QED
  BY <1>1, Invariant, PTL

\* A committed joint update that used the camera fits it where it ended.
THEOREM JointFitCorrect == Spec => []JointFitGood
<1>1. IInv => JointFitGood
  BY DEF IInv, JointFitGood, AtRest, Outcome
<1> QED
  BY <1>1, Invariant, PTL

-------------------------------------------------------------------------------
(* The voxel map's scans.                                                      *)

InsertsEarly == opts.afterLio /\ ~opts.combined

\* Which frames are in the map, and at which pose the frame in work is.
MapInv ==
  /\ mg.inserted => InsertsEarly
  /\ stage \in {"lio", "lioLoop", "lioDone", "joint", "jointLoop", "jointEnd"} => ~mg.inserted
  /\ stage \in {"vio", "vioLoop", "vioEnd", "vioDone", "finish"} /\ InsertsEarly => mg.inserted
  /\ stage = "idle" /\ frame > 0 /\ InsertsEarly => mg.inserted
  /\ stage # "idle" => frame > 0
  /\ Len(map) = IF stage = "idle" \/ mg.inserted THEN frame ELSE frame - 1
  /\ \A i \in 1..Len(map) : map[i].frame = i
  /\ mg.inserted => frame > 0 /\ map[frame].pose = mg.lio.pose
  /\ stage = "idle" /\ frame > 0 /\ ~mg.inserted => map[frame].pose = state.pose

LEMMA AppendScan ==
  ASSUME TypeOK, MapInv, stage # "idle", ~mg.inserted,
         NEW scan, scan = [frame |-> frame, pose |-> state.pose]
  PROVE  /\ Len(Append(map, scan)) = frame
         /\ \A i \in 1..frame : Append(map, scan)[i].frame = i
         /\ Append(map, scan)[frame].pose = state.pose
<1>1. map \in Seq([frame : Nat, pose : Poses]) /\ frame \in Nat /\ frame > 0
      /\ scan \in [frame : Nat, pose : Poses]
  BY MaxFramesAssumption DEF TypeOK, MapInv, State
<1>2. Len(map) = frame - 1 /\ Len(map) \in Nat
  BY <1>1 DEF MapInv
<1>3. /\ Len(Append(map, scan)) = frame
      /\ \A i \in 1..(frame - 1) : Append(map, scan)[i] = map[i]
      /\ Append(map, scan)[frame] = scan
  BY <1>1, <1>2, AppendProperties
<1>4. \A i \in 1..(frame - 1) : map[i].frame = i
  BY <1>2 DEF MapInv
<1>5. \A i \in 1..frame : Append(map, scan)[i].frame = i
  <2> TAKE i \in 1..frame
  <2>1. CASE i = frame
    BY <2>1, <1>3
  <2>2. CASE i # frame
    <3>1. i \in 1..(frame - 1)
      BY <1>1, <2>2
    <3> QED
      BY <3>1, <1>3, <1>4
  <2> QED
    BY <2>1, <2>2
<1> QED
  BY <1>3, <1>5

LEMMA MapStep == IInv /\ MapInv /\ [Next]_vars => MapInv'
<1> SUFFICES ASSUME IInv, MapInv, [Next]_vars PROVE MapInv'
  OBVIOUS
<1>0. TypeOK /\ stage \in Stages /\ frame \in Nat /\ mg.inserted \in BOOLEAN
  BY MaxFramesAssumption DEF IInv, TypeOK
<1> DEFINE scan == [frame |-> frame, pose |-> state.pose]
<1>1. CASE StartFrame
  <2>1. /\ stage = "idle" /\ frame' = frame + 1 /\ stage' \in {"lio", "joint"}
        /\ ~mg'.inserted /\ UNCHANGED <<opts, map>>
    BY <1>1 DEF StartFrame
  <2>2. Len(map) = frame
    BY <2>1 DEF MapInv
  <2> QED
    BY <1>0, <2>1, <2>2 DEF MapInv, InsertsEarly
<1>2. CASE AfterLio
  <2>1. /\ stage = "lioDone" /\ ~mg.inserted /\ UNCHANGED <<opts, frame, state>>
        /\ mg'.lio = state
    BY <1>0, <1>2 DEF AfterLio, MapInv, TypeOK
  <2>2. CASE InsertsEarly
    <3>1. mg'.inserted /\ map' = Append(map, scan) /\ stage' = "vio"
      BY <1>0, <1>2, <2>2 DEF AfterLio, InsertsEarly, TypeOK
    <3>2. /\ Len(map') = frame
          /\ \A i \in 1..frame : map'[i].frame = i
          /\ map'[frame].pose = state.pose
      BY <1>0, <2>1, <3>1, AppendScan
    <3> QED
      BY <1>0, <2>1, <2>2, <3>1, <3>2 DEF MapInv, InsertsEarly
  <2>3. CASE ~InsertsEarly
    <3>1. ~mg'.inserted /\ UNCHANGED map /\ stage' \in {"vio", "finish"}
      BY <1>0, <1>2, <2>1, <2>3 DEF AfterLio, InsertsEarly, TypeOK
    <3> QED
      BY <1>0, <2>1, <2>3, <3>1 DEF MapInv, InsertsEarly
  <2> QED
    BY <2>2, <2>3
<1>3. CASE FinishFrame
  <2>1. stage = "finish" /\ stage' = "idle" /\ UNCHANGED <<opts, frame, state, mg>>
    BY <1>3 DEF FinishFrame
  <2>2. CASE mg.inserted
    <3>1. UNCHANGED map
      BY <1>3, <2>2 DEF FinishFrame, MapDue
    <3> QED
      BY <1>0, <2>1, <2>2, <3>1 DEF MapInv, InsertsEarly
  <2>3. CASE ~mg.inserted
    <3>1. map' = Append(map, scan)
      BY <1>3, <2>3 DEF FinishFrame, MapDue
    <3>2. /\ Len(map') = frame
          /\ \A i \in 1..frame : map'[i].frame = i
          /\ map'[frame].pose = state.pose
      BY <1>0, <2>1, <2>3, <3>1, AppendScan
    <3> QED
      BY <1>0, <2>1, <2>3, <3>1, <3>2 DEF MapInv, InsertsEarly
  <2> QED
    BY <2>2, <2>3
<1>4. CASE JointFinish
  <2>1. /\ stage = "jointEnd" /\ stage' \in {"lio", "finish"} /\ ~mg'.inserted
        /\ ~mg.inserted /\ opts.combined /\ UNCHANGED <<opts, frame, map>>
    BY <1>0, <1>4 DEF JointFinish, IInv, JointStages, MapInv, TypeOK
  <2> QED
    BY <1>0, <2>1 DEF MapInv, InsertsEarly
<1>5. CASE LioStart \/ LioIterate \/ LioFinish
  <2>1. /\ stage \in {"lio", "lioLoop"} /\ stage' \in {"lioLoop", "lioDone"}
        /\ UNCHANGED <<opts, frame, map, mg>>
    BY <1>5 DEF LioStart, LioIterate, LioFinish
  <2> QED
    BY <1>0, <2>1 DEF MapInv, InsertsEarly
<1>6. CASE VioStart \/ VioIterate \/ VioStop \/ VioFinish \/ AfterVio
  <2>1. /\ stage \in {"vio", "vioLoop", "vioEnd", "vioDone"}
        /\ stage' \in {"vioLoop", "vioEnd", "vioDone", "finish"}
        /\ UNCHANGED <<opts, frame, map, mg>>
    BY <1>6 DEF VioStart, VioIterate, VioStop, VioFinish, AfterVio
  <2> QED
    BY <1>0, <2>1 DEF MapInv, InsertsEarly
<1>7. CASE JointStart \/ JointIterate \/ JointStop
  <2>1. /\ stage \in {"joint", "jointLoop"} /\ stage' \in {"jointLoop", "jointEnd"}
        /\ UNCHANGED <<opts, frame, map, mg>>
    BY <1>7 DEF JointStart, JointIterate, JointStop
  <2> QED
    BY <1>0, <2>1 DEF MapInv, InsertsEarly
<1>8. CASE UNCHANGED vars
  BY <1>8 DEF vars, MapInv, InsertsEarly
<1> QED
  BY <1>1, <1>2, <1>3, <1>4, <1>5, <1>6, <1>7, <1>8 DEF Next

\* Each frame's scan is inserted exactly once, in order, at the pose configured.
THEOREM MapCorrect == Spec => []MapOncePerFrame
<1>1. Init => MapInv
  BY DEF Init, MapInv
<1>2. TypeOK /\ MapInv => MapOncePerFrame
  BY MaxFramesAssumption DEF TypeOK, MapInv, InsertsEarly, MapOncePerFrame, AtRest
<1>3. IInv => TypeOK
  BY DEF IInv
<1> QED
  BY <1>1, <1>2, <1>3, MapStep, Invariant, PTL DEF Spec

-------------------------------------------------------------------------------
(* A frame is one atomic fusion.                                               *)

Pairs(terms) == {<<t.src, t.frame>> : t \in terms}

LEMMA RefineInit == Init => Fused!Init
  BY DEF Init, Fused!Init, Committed

LEMMA FinishFuses == ASSUME IInv, FinishFrame PROVE Fused!Fuse
<1>1. /\ Builds(state, mg.imu, frame, {"lio", "vio"}) /\ frame \in Nat
      /\ stage = "finish" /\ stage' = "idle" /\ UNCHANGED <<state, frame, mg>>
  BY MaxFramesAssumption DEF IInv, Outcome, FinishFrame, TypeOK
<1>2. PICK H \in SUBSET Terms :
        FromFrame(H, frame, {"lio", "vio"}) /\ state.cov = mg.imu.cov \cup H
  BY <1>1 DEF Builds
<1> DEFINE used == {t.src : t \in H}
<1>3. used \in SUBSET {"lio", "vio"}
  BY <1>2 DEF FromFrame
<1>4. Pairs(H) = used \X {frame}
  BY <1>2 DEF FromFrame, Pairs
<1>5. Pairs(state.cov) = Pairs(mg.imu.cov) \cup Pairs(H)
  BY <1>2 DEF Pairs
<1>6. (frame - 1) + 1 = frame
  BY <1>1
<1>7. Committed = mg.imu /\ Committed' = state
  BY <1>1 DEF Committed
<1> QED
  BY <1>1, <1>3, <1>4, <1>5, <1>6, <1>7 DEF Fused!Fuse, Fused!Sensors, Pairs

LEMMA StartStutters == ASSUME IInv, StartFrame PROVE UNCHANGED Fused!vars
<1>1. /\ stage = "idle" /\ stage' # "idle" /\ frame' = frame + 1 /\ frame \in Nat
      /\ mg'.imu = state' /\ state'.cov = state.cov
  BY MaxFramesAssumption DEF IInv, TypeOK, StartFrame, State
<1>2. Committed = state /\ Committed' = state'
  BY <1>1 DEF Committed
<1>3. frame' - 1 = frame
  BY <1>1
<1> QED
  BY <1>1, <1>2, <1>3 DEF Fused!vars

LEMMA CorrectionStutters ==
  ASSUME IInv, [Next]_vars, ~StartFrame, ~FinishFrame PROVE UNCHANGED Fused!vars
<1>1. CASE UNCHANGED vars
  BY <1>1 DEF vars, Fused!vars, Committed
<1>2. CASE ~UNCHANGED vars
  <2>1. stage # "idle" /\ stage' # "idle" /\ UNCHANGED frame /\ mg'.imu = mg.imu
    BY <1>2 DEF Next, LioStart, LioIterate, LioFinish, AfterLio, VioStart, VioIterate,
                VioStop, VioFinish, AfterVio, JointStart, JointIterate, JointStop,
                JointFinish, IInv, TypeOK
  <2>2. Committed' = Committed
    BY <2>1 DEF Committed
  <2> QED
    BY <2>1, <2>2 DEF Fused!vars
<1> QED
  BY <1>1, <1>2

\* Every step is a fusion of at most one piece of evidence per sensor, or a stutter.
LEMMA RefineStep == IInv /\ [Next]_vars => [Fused!Next]_Fused!vars
<1> SUFFICES ASSUME IInv, [Next]_vars PROVE [Fused!Next]_Fused!vars
  OBVIOUS
<1>1. CASE StartFrame
  BY <1>1, StartStutters
<1>2. CASE FinishFrame
  BY <1>2, FinishFuses DEF Fused!Next
<1>3. CASE ~StartFrame /\ ~FinishFrame
  BY <1>3, CorrectionStutters
<1> QED
  BY <1>1, <1>2, <1>3

\* estimateState() and updateMaps(), with all their rollbacks, implement the atomic
\* fusion of Fusion.tla.
THEOREM ImplementsFusion == Spec => FusionSpec
  BY RefineInit, RefineStep, Invariant, PTL DEF Spec, FusionSpec, Fused!Spec

-----------------------------------------------------------------------------
Kinds == {"plane", "line0", "line1", "distance", "smooth0", "smooth1", "smooth2"}
Entry == [build : Nat, i : Int, r : Int]
Row   == [i : Int, c : Int, tier : {0, 1, 2}, kind : Kinds, r : Int, seen : SUBSET Entry]
Place == [i : Int, c : Int, tier : {0, 1, 2}, left : SUBSET Int, best : Seq(Row), near : BOOLEAN,
          base : BOOLEAN, reached : BOOLEAN, rejected : BOOLEAN, seen : SUBSET Entry, sum : Int]

-----------------------------------------------------------------------------
(* What a search knows.                                                    *)

\* The rows of point i from cell c.
IsBlock(rows, i, c) ==
  /\ Len(rows) = Len(RowsOf(i, c))
  /\ \A k \in DOMAIN rows :
       /\ rows[k].i = i /\ rows[k].c = c /\ rows[k].kind = RowsOf(i, c)[k]
       /\ rows[k].r = SquaredOffset(i, c)
       /\ rows[k].tier = 0 <=> c = Cell(i)
       /\ ~options.empirical => rows[k].seen = {}

First(i, c, d) == \/ SquaredOffset(i, c) < SquaredOffset(i, d)
                  \/ SquaredOffset(i, c) = SquaredOffset(i, d) /\ c <= d

\* The cells visited before the one at hand.
Before(at) ==
  CASE at.tier = 0 -> {}
    [] at.tier = 1 -> {Cell(at.i)}
    [] OTHER       -> {Cell(at.i), Cell(at.i) + Lean(at.i)} \cup {d \in Box(at.i) : d < at.c}

PlaceOK(at) ==
  /\ at.tier = 0 => at.c = Cell(at.i) /\ at.left = Box(at.i)
  /\ at.tier = 1 => Lean(at.i) # 0 /\ at.c = Cell(at.i) + Lean(at.i) /\ at.left = Box(at.i)
  /\ at.tier = 2 => at.c \in Box(at.i) /\ at.left = {d \in Box(at.i) : d > at.c}
  /\ \A d \in Before(at) \ Box(at.i) : ~Gives(at.i, d)
  /\ at.base <=> at.tier # 0 /\ HasPlane(Cell(at.i))
  /\ ~options.empirical => at.seen = {}

\* What it has found in the cells of V.
Knows(at, V) ==
  /\ at.near <=> \E d \in V : HasPlane(d)
  /\ at.best = <<>> => \A d \in V : ~Gives(at.i, d)
  /\ at.best # <<>> =>
       /\ at.reached
       /\ \E c \in V : /\ Gives(at.i, c) /\ IsBlock(at.best, at.i, c)
                       /\ options.empirical \/ \A d \in V : Gives(at.i, d) => First(at.i, c, d)
  /\ at.rejected => at.reached

SearchOK(at) == PlaceOK(at) /\ Knows(at, Before(at))

-----------------------------------------------------------------------------
(* What the counters count.                                                *)

Lacks(i) == Sources(i) = {}
Met(i) == \E c \in Footprint(i) \cup {Cell(i) + Lean(i)} : HasPlane(c)
Tallied == {"coverage", "mismatch", "tier0Coverage", "tier0Mismatch"}
Tally(k) ==
  {i \in 1..N : CASE k = "coverage"      -> Lacks(i) /\ ~Met(i)
                  [] k = "mismatch"      -> Lacks(i) /\ Met(i)
                  [] k = "tier0Coverage" -> ~Gives(i, Cell(i)) /\ ~HasPlane(Cell(i))
                  [] OTHER               -> ~Gives(i, Cell(i)) /\ HasPlane(Cell(i))}
Hits == {i \in 1..N : ~Lacks(i)}

CountsOK(cnt, first, last) ==
  /\ \A k \in Tallied : cnt[k] = Cardinality(Tally(k) \cap (first..last))
  /\ cnt["rejections"] <= cnt["candidates"]
  /\ cnt["candidates"] >= Cardinality(Hits \cap (first..last))

-----------------------------------------------------------------------------
(* The invariant.                                                          *)

\* The class a query decides again is the class of the fit.
PlaneOK(plane) ==
  plane.isPlane /\ options.tilt =>
    (options.form = "smooth" \/ (Hard(options) /\ IsLineVoxel(options, plane.n, plane.eig)) => plane.tilt)

BuildTypeOK ==
  /\ options \in OptionSet /\ pose \in Int /\ merged \in Nat /\ builds \in Nat
  /\ phase \in {"idle", "building", "built"}
  /\ DOMAIN planes \subseteq Int /\ DOMAIN stats = DOMAIN planes /\ DOMAIN taken = DOMAIN planes
  /\ \A c \in DOMAIN planes : planes[c].level \in Int /\ PlaneOK(planes[c])
  /\ \A c \in DOMAIN planes : stats[c] \in [n : Nat, sum : Int] /\ taken[c] \in Seq(Entry)
  /\ counts \in [Counters -> Nat] /\ residuals \in Seq(Row)

Thread == [pc : {"visit", "count", "exchange"}, rows : Seq(Row), counts : [Counters -> Nat],
           at : Place \cup {Idle}]

\* A thread with the points from `first' to `next' has rows and counts for those it is done with.
Front(th, next) == IF th.at = Idle THEN next ELSE th.at.i
ThreadOK(th, first, next) ==
  /\ th \in Thread
  /\ th.at # Idle => th.at.i \in first..(next - 1) /\ SearchOK(th.at)
  /\ th.pc # "visit" => th.at # Idle /\ options.empirical /\ Accepts(th.at.i, th.at.c)
  /\ InOrder(th.rows, first, Front(th, next) - 1)
  /\ CountsOK(th.counts, first, Front(th, next) - 1)

ThreadsInv ==
  phase = "building" =>
    /\ threads = [t \in 1..Threads |-> threads[t]]
    /\ \A t \in 1..Threads : ThreadOK(threads[t], ShareStart(t), ShareStart(t + 1))

MergeInv ==
  /\ phase = "building" => merged < Threads
  /\ phase = "building" /\ merged > 0 =>
       /\ \A t \in 1..Threads : threads[t].at = Idle
       /\ InOrder(residuals, 1, ShareStart(merged + 1) - 1)
       /\ CountsOK(counts, 1, ShareStart(merged + 1) - 1)
  /\ phase = "built" => InOrder(residuals, 1, N) /\ CountsOK(counts, 1, N)

\* A residual is counted before its square is added.
InFlight(c) ==
  IF phase = "building" THEN {t \in 1..Threads : threads[t].pc = "exchange" /\ threads[t].at.c = c} ELSE {}

StatsInv ==
  \A c \in DOMAIN planes :
    stats[c].n = Len(taken[c]) + Cardinality(InFlight(c)) /\ stats[c].sum = Total(taken[c])

\* A residual of this build is of a point, or a cell, that the search has left behind.
Past(entry, c, at, next) ==
  /\ entry.i \notin (at.i + 1)..(next - 1)
  /\ entry.i = at.i => c \in Before(at)

\* In a history, a point enters once in a build.
Single(s) == \A j, k \in DOMAIN s : j # k => <<s[j].build, s[j].i>> # <<s[k].build, s[k].i>>

HistoryInv ==
  \A c \in DOMAIN planes :
    /\ Single(taken[c])
    /\ \A k \in DOMAIN taken[c] :
         /\ taken[c][k].build <= builds
         /\ phase = "building" /\ taken[c][k].build = builds =>
              \A t \in 1..Threads : threads[t].at # Idle =>
                Past(taken[c][k], c, threads[t].at, ShareStart(t + 1))

BuildInv == BuildTypeOK /\ ThreadsInv /\ MergeInv /\ StatsInv /\ HistoryInv
-----------------------------------------------------------------------------
(* The scan and its shares.                                                *)

\* A set of natural numbers that is not empty has a least element; this replaces induction.
LEMMA LeastNatural ==
  ASSUME NEW S \in SUBSET Nat, S # {}
  PROVE  \E m \in S : \A k \in S : m <= k
<1> DEFINE segments == {1..s : s \in S}
<1>1. segments \subseteq FiniteSubsetsOf(Nat)
  <2> SUFFICES ASSUME NEW s \in S PROVE 1..s \in FiniteSubsetsOf(Nat)
    OBVIOUS
  <2>1. IsFiniteSet(1..s)
    BY FS_Interval
  <2> QED  BY <2>1 DEF FiniteSubsetsOf
<1>2. segments # {}
  OBVIOUS
<1>3. PICK x \in segments : \A y \in segments : ~(<<y, x>> \in StrictSubsetOrdering(Nat))
  <2> HIDE DEF segments
  <2> QED  BY <1>1, <1>2, FS_StrictSubsetOrderingWellFounded, WFMin
<1>4. PICK m \in S : x = 1..m
  OBVIOUS
<1>5. ASSUME NEW k \in S, k < m PROVE FALSE
  <2>1. 1..k \in segments
    OBVIOUS
  <2>2. 1..k \subseteq 1..m /\ m \in 1..m /\ m \notin 1..k /\ 1..k \in SUBSET Nat /\ 1..m \in SUBSET Nat
    BY <1>5
  <2> HIDE DEF segments
  <2> QED  BY <2>1, <2>2, <1>3, <1>4 DEF StrictSubsetOrdering
<1> QED  BY <1>5

LEMMA SeqFacts ==
  ASSUME NEW S, NEW s \in Seq(S)
  PROVE  /\ Len(s) \in Nat /\ DOMAIN s = 1..Len(s)
         /\ \A k \in 1..Len(s) : s[k] \in S
         /\ s = <<>> <=> Len(s) = 0
OBVIOUS

LEMMA AppendFacts ==
  ASSUME NEW S, NEW s \in Seq(S), NEW e \in S
  PROVE  /\ Append(s, e) \in Seq(S) /\ Len(Append(s, e)) = Len(s) + 1
         /\ DOMAIN Append(s, e) = 1..(Len(s) + 1)
         /\ \A k \in 1..Len(s) : Append(s, e)[k] = s[k]
         /\ Append(s, e)[Len(s) + 1] = e
OBVIOUS

LEMMA ConcatFacts ==
  ASSUME NEW S, NEW s \in Seq(S), NEW u \in Seq(S)
  PROVE  /\ s \o u \in Seq(S) /\ Len(s \o u) = Len(s) + Len(u)
         /\ DOMAIN (s \o u) = 1..(Len(s) + Len(u))
         /\ \A k \in 1..Len(s) : (s \o u)[k] = s[k]
         /\ \A k \in 1..Len(u) : (s \o u)[Len(s) + k] = u[k]
<1>1. /\ s \o u \in Seq(S) /\ Len(s \o u) = Len(s) + Len(u)
      /\ \A k \in 1..(Len(s) + Len(u)) :
           (s \o u)[k] = IF k <= Len(s) THEN s[k] ELSE u[k - Len(s)]
  BY ConcatProperties
<1>2. Len(s) \in Nat /\ Len(u) \in Nat
  OBVIOUS
<1>3. DOMAIN (s \o u) = 1..(Len(s) + Len(u))
  BY <1>1, LenProperties
<1>4. ASSUME NEW k \in 1..Len(s) PROVE (s \o u)[k] = s[k]
  <2>1. k \in 1..(Len(s) + Len(u)) /\ k <= Len(s)
    BY <1>2
  <2> QED  BY <1>1, <2>1
<1>5. ASSUME NEW k \in 1..Len(u) PROVE (s \o u)[Len(s) + k] = u[k]
  <2>1. Len(s) + k \in 1..(Len(s) + Len(u)) /\ ~(Len(s) + k <= Len(s)) /\ Len(s) + k - Len(s) = k
    BY <1>2
  <2> QED  BY <1>1, <2>1
<1> QED  BY <1>1, <1>3, <1>4, <1>5

LEMMA ScanFacts ==
  /\ N \in Nat /\ Threads \in Nat /\ Threads > 0
  /\ \A i \in 1..N : Points[i].p \in Int /\ Points[i].h \in Int /\ Points[i].s \in Int
<1>1. Points \in Seq([p : Int, h : Int, s : Int])
  BY BuildAssumption
<1>2. N \in Nat /\ \A i \in 1..N : Points[i] \in [p : Int, h : Int, s : Int]
  BY <1>1, SeqFacts DEF N
<1> QED  BY <1>2, BuildAssumption

LEMMA Product ==
  ASSUME NEW a \in Nat, NEW b \in Nat, NEW q \in Nat, a <= b
  PROVE  a * q <= b * q /\ a * q \in Nat /\ b * q \in Nat
<1>1. b * q = a * q + (b - a) * q /\ (b - a) * q >= 0
  OBVIOUS
<1> QED  BY <1>1

LEMMA Quotient ==
  ASSUME NEW n \in Nat, NEW d \in Nat, d > 0
  PROVE  n \div d \in Nat /\ n % d \in 0..(d - 1) /\ n = d * (n \div d) + (n % d)
OBVIOUS

LEMMA ShareFacts ==
  /\ \A t \in 1..(Threads + 1) : ShareStart(t) \in Nat /\ ShareStart(t) >= 1
  /\ ShareStart(1) = 1 /\ ShareStart(Threads + 1) = N + 1
  /\ \A t \in 1..(Threads + 1), u \in 1..(Threads + 1) : t <= u => ShareStart(t) <= ShareStart(u)
<1> DEFINE q == N \div Threads
           r == N % Threads
           extra(t) == IF t - 1 < r THEN t - 1 ELSE r
<1>1. q \in Nat /\ r \in 0..(Threads - 1) /\ N = Threads * q + r /\ Threads \in Nat /\ Threads > 0
  BY ScanFacts, Quotient
<1>2. \A t : ShareStart(t) = (t - 1) * q + extra(t) + 1
  BY DEF ShareStart
<1> HIDE DEF q, r
<1>3. \A t \in 1..(Threads + 1) : t - 1 \in Nat /\ extra(t) \in Nat
  BY <1>1
<1>4. \A t, u \in 1..(Threads + 1) : t <= u => extra(t) <= extra(u)
  BY <1>1
<1>5. \A t, u \in 1..(Threads + 1) :
        t <= u => (t - 1) * q <= (u - 1) * q /\ (t - 1) * q \in Nat /\ (u - 1) * q \in Nat
  BY <1>1, <1>3, Product
<1>6. extra(1) = 0 /\ extra(Threads + 1) = r /\ (1 - 1) * q = 0 /\ (Threads + 1 - 1) * q = Threads * q
  BY <1>1
<1>7. 1 \in 1..(Threads + 1) /\ Threads + 1 \in 1..(Threads + 1)
  BY <1>1
<1> HIDE DEF extra
<1>8. ShareStart(1) = 1 /\ ShareStart(Threads + 1) = N + 1
  <2>1. Threads * q \in Nat
    BY <1>1, Product
  <2> QED  BY <1>1, <1>2, <1>6, <2>1
<1>9. \A t \in 1..(Threads + 1) : ShareStart(t) \in Nat /\ ShareStart(t) >= 1
  <2> TAKE t \in 1..(Threads + 1)
  <2>1. (t - 1) * q \in Nat /\ extra(t) \in Nat /\ ShareStart(t) = (t - 1) * q + extra(t) + 1
    BY <1>1, <1>2, <1>3, <1>5
  <2> QED  BY <2>1
<1>10. \A t \in 1..(Threads + 1), u \in 1..(Threads + 1) : t <= u => ShareStart(t) <= ShareStart(u)
  <2> TAKE t \in 1..(Threads + 1), u \in 1..(Threads + 1)
  <2> HAVE t <= u
  <2>1. (t - 1) * q \in Nat /\ extra(t) \in Nat /\ ShareStart(t) = (t - 1) * q + extra(t) + 1
    BY <1>1, <1>2, <1>3, <1>5
  <2>2. (u - 1) * q \in Nat /\ extra(u) \in Nat /\ ShareStart(u) = (u - 1) * q + extra(u) + 1
    BY <1>1, <1>2, <1>3, <1>5
  <2>3. (t - 1) * q <= (u - 1) * q /\ extra(t) <= extra(u)
    BY <1>4, <1>5
  <2> QED  BY <2>1, <2>2, <2>3
<1> QED  BY <1>8, <1>9, <1>10

-----------------------------------------------------------------------------
(* The cells of a search and the rows they give.                           *)

World ==
  /\ options \in OptionSet /\ pose \in Int
  /\ DOMAIN planes \subseteq Int /\ \A c \in DOMAIN planes : planes[c].level \in Int

LEMMA Quarters ==
  ASSUME NEW p \in Int
  PROVE  p \div 4 \in Int /\ p % 4 \in 0..3
OBVIOUS

LEMMA CellFacts ==
  ASSUME World, NEW i \in 1..N
  PROVE  /\ Cell(i) \in Int /\ Lean(i) \in {-1, 0, 1}
         /\ Footprint(i) \subseteq Int /\ Cell(i) \in Footprint(i)
         /\ Box(i) = Footprint(i) \ {Cell(i), Cell(i) + Lean(i)}
         /\ Footprint(i) = (Cell(i) - options.size)..(Cell(i) + options.size)
         /\ options.size \in Nat
<1>1. Position(i) \in Int
  BY ScanFacts DEF World, Position
<1>2. Cell(i) \in Int
  BY <1>1, Quarters DEF Cell
<1>3. options.size \in Nat
  BY BuildAssumption DEF World
<1>4. Lean(i) \in {-1, 0, 1}
  BY DEF Lean
<1> QED  BY <1>2, <1>3, <1>4 DEF Footprint, Box

LEMMA RowsType == \A i, c : RowsOf(i, c) \in Seq(Kinds)
<1>1. \A o, plane, pt : Rows(o, plane, pt) \in Seq(Kinds)
  <2> TAKE o, plane, pt
  <2>1. \A a, b, d \in Kinds : <<a>> \in Seq(Kinds) /\ <<a, b>> \in Seq(Kinds) /\ <<a, b, d>> \in Seq(Kinds)
    OBVIOUS
  <2>2. <<>> \in Seq(Kinds)
    OBVIOUS
  <2>3. <<"smooth0", "smooth1", "smooth2">> \in Seq(Kinds)
    BY <2>1 DEF Kinds
  <2>4. <<"distance">> \in Seq(Kinds) /\ <<"line0">> \in Seq(Kinds) /\ <<"plane">> \in Seq(Kinds)
        /\ <<"line0", "line1">> \in Seq(Kinds)
    BY <2>1 DEF Kinds
  <2> DEFINE line == Hard(o) /\ IsLineVoxel(o, plane.n, plane.eig)
  <2> HIDE DEF line
  <2>5. CASE o.form = "smooth"
    BY <2>3, <2>5 DEF Rows, Hard
  <2>6. CASE o.form # "smooth" /\ line /\ o.distance
    BY <2>2, <2>4, <2>6 DEF Rows, line
  <2>7. CASE o.form # "smooth" /\ line /\ ~o.distance
    BY <2>4, <2>7 DEF Rows, line
  <2>8. CASE o.form # "smooth" /\ ~line
    BY <2>4, <2>8 DEF Rows, line
  <2> QED  BY <2>5, <2>6, <2>7, <2>8
<1> QED  BY <1>1 DEF RowsOf

LEMMA RowFacts ==
  ASSUME World, NEW i \in 1..N, NEW c \in Int
  PROVE  /\ RowsOf(i, c) \in Seq(Kinds)
         /\ Gives(i, c) => HasPlane(c) /\ Accepts(i, c) /\ Reaches(i, c) /\ c \in DOMAIN planes
         /\ HasPlane(c) => SquaredOffset(i, c) \in Int
<1>2. RowsOf(i, c) \in Seq(Kinds)
  BY RowsType
<1>3. Gives(i, c) => HasPlane(c) /\ Accepts(i, c) /\ Reaches(i, c) /\ c \in DOMAIN planes
  BY DEF Gives, RowsOf, Accepts, HasPlane, Reaches, GateAccepts
<1>4. ASSUME HasPlane(c) PROVE SquaredOffset(i, c) \in Int
  <2>1. planes[c].level \in Int /\ Points[i].h \in Int
    BY <1>4, ScanFacts DEF World, HasPlane
  <2>2. Offset(planes[c], Points[i]) \in Int
    BY <2>1 DEF Offset
  <2> QED  BY <2>2 DEF SquaredOffset
<1> QED  BY <1>2, <1>3, <1>4

LEMMA TaggedFacts ==
  ASSUME World, NEW at \in Place, at.i \in 1..N, PlaceOK(at)
  PROVE  /\ Tagged(at) \in Seq(Row) /\ IsBlock(Tagged(at), at.i, at.c)
         /\ Tagged(at) # <<>> <=> Gives(at.i, at.c)
<1> DEFINE rows == RowsOf(at.i, at.c)
           new == Tagged(at)
<1>1. /\ at.c \in Int /\ at.tier \in {0, 1, 2} /\ at.seen \in SUBSET Entry /\ at.i \in Int
      /\ rows \in Seq(Kinds)
      /\ Gives(at.i, at.c) => SquaredOffset(at.i, at.c) \in Int
  BY RowFacts DEF Place
<1>2. Len(rows) \in Nat /\ DOMAIN rows = 1..Len(rows) /\ \A k \in 1..Len(rows) : rows[k] \in Kinds
  BY <1>1, SeqFacts
<1>3. rows # <<>> <=> Gives(at.i, at.c)
  BY DEF Gives
<1>4. at.tier = 0 <=> at.c = Cell(at.i)
  <2>1. Cell(at.i) \in Int /\ Lean(at.i) \in Int /\ Cell(at.i) \notin Box(at.i)
    BY CellFacts
  <2>2. CASE at.tier = 0
    BY <2>2 DEF PlaceOK
  <2>3. CASE at.tier = 1
    BY <2>1, <2>3 DEF PlaceOK
  <2>4. CASE at.tier = 2
    BY <2>1, <2>4 DEF PlaceOK
  <2> QED  BY <1>1, <2>2, <2>3, <2>4
<1> DEFINE row(k) ==
     [i |-> at.i, c |-> at.c, tier |-> at.tier, kind |-> rows[k], r |-> SquaredOffset(at.i, at.c),
      seen |-> IF rows[k] \in {"plane", "line0"} THEN at.seen ELSE {}]
<1>5. new = [k \in 1..Len(rows) |-> row(k)]
  BY <1>2 DEF Tagged
<1>6. \A k \in 1..Len(rows) : row(k) \in Row
  <2> TAKE k \in 1..Len(rows)
  <2>1. rows # <<>>
    BY <1>1, <1>2, SeqFacts
  <2>2. rows[k] \in Kinds /\ SquaredOffset(at.i, at.c) \in Int
    BY <1>1, <1>2, <1>3, <2>1
  <2> HIDE DEF rows
  <2> QED  BY <1>1, <2>2 DEF Row
<1>7. new \in Seq(Row) /\ Len(new) = Len(rows) /\ DOMAIN new = 1..Len(rows)
  <2> HIDE DEF rows, row, new
  <2> QED  BY <1>2, <1>5, <1>6
<1>8. \A k \in 1..Len(rows) : new[k] = row(k)
  BY <1>5
<1>9. \A k \in 1..Len(rows) :
        /\ new[k].i = at.i /\ new[k].c = at.c /\ new[k].kind = rows[k]
        /\ new[k].r = SquaredOffset(at.i, at.c) /\ new[k].tier = at.tier
        /\ at.seen = {} => new[k].seen = {}
  <2> TAKE k \in 1..Len(rows)
  <2>1. new[k] = row(k)
    BY <1>8
  <2> HIDE DEF rows, new
  <2>2. /\ row(k).i = at.i /\ row(k).c = at.c /\ row(k).kind = rows[k]
        /\ row(k).r = SquaredOffset(at.i, at.c) /\ row(k).tier = at.tier
    OBVIOUS
  <2>3. row(k).seen = IF rows[k] \in {"plane", "line0"} THEN at.seen ELSE {}
    OBVIOUS
  <2> QED  BY <2>1, <2>2, <2>3
<1>10. ~options.empirical => at.seen = {}
  BY DEF PlaceOK
<1> HIDE DEF new
<1>11. IsBlock(new, at.i, at.c)
  BY <1>4, <1>7, <1>9, <1>10 DEF IsBlock
<1>12. new # <<>> <=> rows # <<>>
  BY <1>1, <1>7, SeqFacts
<1> QED  BY <1>3, <1>7, <1>11, <1>12 DEF new

-----------------------------------------------------------------------------
(* One step of a search.                                                   *)

LEMMA LeastFacts ==
  ASSUME NEW lo \in Int, NEW S, S # {}, \A d \in S : d \in Int /\ d >= lo
  PROVE  Least(S) \in S /\ \A d \in S : Least(S) <= d
<1> DEFINE T == {n \in Nat : n + lo \in S}
<1>1. T # {}
  <2>1. PICK d \in S : d \in Int /\ d >= lo
    OBVIOUS
  <2>2. d - lo \in Nat /\ d - lo + lo = d
    BY <2>1
  <2> QED  BY <2>1, <2>2
<1>2. T \in SUBSET Nat
  OBVIOUS
<1>3. PICK m \in T : \A k \in T : m <= k
  <2> HIDE DEF T
  <2> QED  BY <1>1, <1>2, LeastNatural
<1>4. ASSUME NEW d \in S PROVE m + lo <= d
  <2>1. d \in Int /\ d - lo \in Nat /\ d - lo + lo = d
    OBVIOUS
  <2>2. d - lo \in T
    BY <2>1
  <2> QED  BY <1>3, <2>1, <2>2
<1>5. m + lo \in S
  OBVIOUS
<1> QED  BY <1>4, <1>5 DEF Least

\* The place of a search before the cell at hand.
SearchAt(at) == World /\ at \in Place /\ at.i \in 1..N /\ SearchOK(at)

\* The rows of the cell at hand, and a choice the search may make.
Choice(at, prefer) ==
  prefer \in IF Tagged(at) = <<>> THEN {FALSE} ELSE Preferred(at.best, Tagged(at))

LEMMA LookedType ==
  ASSUME NEW at \in Place, NEW rows \in Seq(Row), NEW prefer \in BOOLEAN
  PROVE  LET lk == Looked(at, rows, prefer) IN
         /\ lk \in Place /\ lk.i = at.i /\ lk.c = at.c /\ lk.tier = at.tier /\ lk.left = at.left
         /\ lk.best = (IF prefer THEN rows ELSE at.best)
         /\ lk.near <=> at.near \/ HasPlane(at.c)
         /\ lk.base <=> IF at.tier = 0 THEN HasPlane(at.c) ELSE at.base
         /\ lk.reached <=> at.reached \/ Reaches(at.i, at.c)
         /\ lk.rejected <=> at.rejected \/ (Reaches(at.i, at.c) /\ ~Accepts(at.i, at.c))
         /\ lk.seen = {}
<1>1. /\ HasPlane(at.c) \in BOOLEAN /\ Reaches(at.i, at.c) \in BOOLEAN /\ Accepts(at.i, at.c) \in BOOLEAN
  BY DEF HasPlane, Reaches, Accepts
<1>2. Near(at) = (at.near \/ HasPlane(at.c))
  BY DEF Near
<1> DEFINE lk == Looked(at, rows, prefer)
           best == IF prefer THEN rows ELSE at.best
           near == Near(at)
           base == IF at.tier = 0 THEN HasPlane(at.c) ELSE at.base
           reached == at.reached \/ Reaches(at.i, at.c)
           rejected == at.rejected \/ (Reaches(at.i, at.c) /\ ~Accepts(at.i, at.c))
<1>3. lk = [at EXCEPT !.best = best, !.near = near, !.base = base, !.reached = reached,
                      !.rejected = rejected, !.seen = {}, !.sum = 0]
  BY DEF Looked
<1>4. /\ at.near \in BOOLEAN /\ at.base \in BOOLEAN /\ at.reached \in BOOLEAN
      /\ at.rejected \in BOOLEAN /\ at.best \in Seq(Row)
  BY DEF Place
<1>5. /\ best \in Seq(Row) /\ near \in BOOLEAN /\ base \in BOOLEAN /\ reached \in BOOLEAN
      /\ rejected \in BOOLEAN /\ {} \in SUBSET Entry /\ 0 \in Int
  BY <1>1, <1>2, <1>4
<1> HIDE DEF best, near, base, reached, rejected, lk
<1>6. lk \in Place
  BY <1>3, <1>5, ZenonT(30) DEF Place
<1>7. /\ lk.i = at.i /\ lk.c = at.c /\ lk.tier = at.tier /\ lk.left = at.left
      /\ lk.best = best /\ lk.near = near /\ lk.base = base /\ lk.reached = reached
      /\ lk.rejected = rejected /\ lk.seen = {}
  BY <1>3 DEF Place
<1> QED  BY <1>2, <1>6, <1>7 DEF best, near, base, reached, rejected, lk

LEMMA ChoiceType ==
  ASSUME NEW at, NEW prefer, Choice(at, prefer)
  PROVE  prefer \in BOOLEAN /\ (prefer => Tagged(at) # <<>>)
         /\ (~prefer => Tagged(at) = <<>> \/ at.best # <<>>)
<1>1. Preferred(at.best, Tagged(at)) \subseteq BOOLEAN
  <2> DEFINE less == Tagged(at)[1].r < at.best[1].r
             open == (at.best[1].seen \cup Tagged(at)[1].seen) = {}
  <2>1. less \in BOOLEAN
    OBVIOUS
  <2>2. Preferred(at.best, Tagged(at)) =
          CASE at.best = <<>> -> {TRUE} [] at.best # <<>> /\ open -> {less} [] OTHER -> BOOLEAN
    BY DEF Preferred
  <2> HIDE DEF less, open
  <2> QED  BY <2>1, <2>2
<1>2. at.best = <<>> => Preferred(at.best, Tagged(at)) = {TRUE}
  BY DEF Preferred
<1> QED  BY <1>1, <1>2 DEF Choice

LEMMA PlaceFacts ==
  ASSUME NEW at, SearchAt(at)
  PROVE  /\ at.i \in 1..N /\ at.c \in Int /\ at.tier \in {0, 1, 2}
         /\ Before(at) \subseteq Int /\ at.c \notin Before(at)
         /\ \A d \in Before(at) \cap Box(at.i) : d < at.c
         /\ Before(at) \cup {at.c} \subseteq Footprint(at.i) \cup {Cell(at.i) + Lean(at.i)}
<1>1. /\ at.i \in 1..N /\ at.c \in Int /\ at.tier \in {0, 1, 2} /\ PlaceOK(at) /\ World
  BY DEF SearchAt, SearchOK, Place
<1>2. /\ Cell(at.i) \in Int /\ Lean(at.i) \in {-1, 0, 1} /\ Footprint(at.i) \subseteq Int
      /\ Cell(at.i) \in Footprint(at.i) /\ Box(at.i) = Footprint(at.i) \ {Cell(at.i), Cell(at.i) + Lean(at.i)}
  BY <1>1, CellFacts
<1>3. CASE at.tier = 0
  BY <1>1, <1>2, <1>3 DEF Before, PlaceOK
<1>4. CASE at.tier = 1
  BY <1>1, <1>2, <1>4 DEF Before, PlaceOK
<1>5. CASE at.tier = 2
  BY <1>1, <1>2, <1>5 DEF Before, PlaceOK
<1> QED  BY <1>1, <1>3, <1>4, <1>5

LEMMA LookedKnows ==
  ASSUME NEW at, SearchAt(at), NEW prefer, Choice(at, prefer)
  PROVE  Knows(Looked(at, Tagged(at), prefer), Before(at) \cup {at.c})
<1> DEFINE rows == Tagged(at)
           lk == Looked(at, rows, prefer)
           V == Before(at)
           W == V \cup {at.c}
           i == at.i
<1>1. /\ World /\ at \in Place /\ i \in 1..N /\ PlaceOK(at) /\ Knows(at, V)
  BY DEF SearchAt, SearchOK
<1>2. /\ rows \in Seq(Row) /\ IsBlock(rows, i, at.c) /\ (rows # <<>> <=> Gives(i, at.c))
  BY <1>1, TaggedFacts
<1>3. prefer \in BOOLEAN /\ (prefer => rows # <<>>) /\ (~prefer => rows = <<>> \/ at.best # <<>>)
  BY ChoiceType
<1>4. /\ lk.i = i /\ lk.best = (IF prefer THEN rows ELSE at.best)
      /\ lk.near <=> at.near \/ HasPlane(at.c)
      /\ lk.reached <=> at.reached \/ Reaches(i, at.c)
      /\ lk.rejected <=> at.rejected \/ (Reaches(i, at.c) /\ ~Accepts(i, at.c))
  BY <1>1, <1>2, <1>3, LookedType
<1>5. /\ i \in 1..N /\ at.c \in Int /\ V \subseteq Int /\ at.c \notin V
      /\ \A d \in V \cap Box(i) : d < at.c
  BY PlaceFacts
<1>6. Gives(i, at.c) => Reaches(i, at.c)
  BY <1>1, <1>5, RowFacts
<1>7. lk.near <=> \E d \in W : HasPlane(d)
  BY <1>1, <1>4 DEF Knows
<1>8. lk.best = <<>> => \A d \in W : ~Gives(i, d)
  BY <1>1, <1>2, <1>3, <1>4 DEF Knows
<1>9. lk.best # <<>> => lk.reached
  BY <1>1, <1>2, <1>3, <1>4, <1>6 DEF Knows
<1>10. lk.rejected => lk.reached
  BY <1>1, <1>4 DEF Knows
<1>11. ASSUME lk.best # <<>>
       PROVE  \E c \in W : /\ Gives(i, c) /\ IsBlock(lk.best, i, c)
                           /\ options.empirical \/ \A d \in W : Gives(i, d) => First(i, c, d)
  <2> DEFINE Best(b, c, S) == /\ Gives(i, c) /\ IsBlock(b, i, c)
                              /\ options.empirical \/ \A d \in S : Gives(i, d) => First(i, c, d)
  <2>1. at.best # <<>> => \E c \in V : Best(at.best, c, V)
    BY <1>1 DEF Knows
  <2>2. \A d \in W : Gives(i, d) => SquaredOffset(i, d) \in Int /\ d \in Int
    BY <1>1, <1>5, RowFacts
  <2>3. at.best \in Seq(Row) /\ (at.best # <<>> => 1 \in DOMAIN at.best)
    <3>1. at.best \in Seq(Row)
      BY <1>1 DEF Place
    <3> QED  BY <3>1, SeqFacts
  <2>4. rows # <<>> => 1 \in DOMAIN rows
    BY <1>2, SeqFacts
  <2>5. CASE prefer
    <3>1. lk.best = rows /\ Gives(i, at.c)
      BY <1>2, <1>3, <1>4, <2>5
    <3>2. CASE at.best = <<>> \/ options.empirical
      <4>1. Best(rows, at.c, W)
        <5>1. First(i, at.c, at.c)
          BY <2>2, <3>1 DEF First
        <5>2. at.best = <<>> => \A d \in V : ~Gives(i, d)
          BY <1>1 DEF Knows
        <5> QED  BY <1>2, <3>1, <3>2, <5>1, <5>2
      <4> QED  BY <3>1, <4>1
    <3>3. CASE at.best # <<>> /\ ~options.empirical
      <4>1. PICK c \in V : Best(at.best, c, V)
        BY <2>1, <3>3
      <4>2. rows[1].seen = {} /\ at.best[1].seen = {}
        BY <1>2, <2>3, <2>4, <3>1, <3>3, <4>1 DEF IsBlock
      <4>3. rows[1].r = SquaredOffset(i, at.c) /\ at.best[1].r = SquaredOffset(i, c)
        BY <1>2, <2>3, <2>4, <3>1, <3>3, <4>1 DEF IsBlock
      <4>4. Preferred(at.best, rows) = {rows[1].r < at.best[1].r}
        BY <3>3, <4>2 DEF Preferred
      <4>5. SquaredOffset(i, at.c) < SquaredOffset(i, c)
        BY <1>3, <2>5, <3>1, <4>3, <4>4 DEF Choice
      <4>6. \A d \in W : Gives(i, d) => First(i, at.c, d)
        <5> TAKE d \in W
        <5> HAVE Gives(i, d)
        <5>1. CASE d = at.c
          BY <2>2, <3>1, <5>1 DEF First
        <5>2. CASE d \in V
          <6>1. First(i, c, d)
            BY <3>3, <4>1, <5>2
          <6>2. SquaredOffset(i, at.c) \in Int /\ SquaredOffset(i, c) \in Int /\ SquaredOffset(i, d) \in Int
            BY <2>2, <3>1, <4>1
          <6> QED  BY <4>5, <6>1, <6>2 DEF First
        <5> QED  BY <5>1, <5>2
      <4> QED  BY <1>2, <3>1, <4>6
    <3> QED  BY <3>2, <3>3
  <2>6. CASE ~prefer
    <3>1. lk.best = at.best
      BY <1>4, <2>6
    <3>2. PICK c \in V : Best(at.best, c, V)
      BY <1>11, <2>1, <3>1
    <3>3. ASSUME ~options.empirical, Gives(i, at.c) PROVE First(i, c, at.c)
      <4>1. rows # <<>> /\ at.best # <<>>
        BY <1>2, <1>11, <3>1, <3>3
      <4>2. rows[1].seen = {} /\ at.best[1].seen = {}
        BY <1>2, <2>3, <2>4, <3>2, <3>3, <4>1 DEF IsBlock
      <4>3. rows[1].r = SquaredOffset(i, at.c) /\ at.best[1].r = SquaredOffset(i, c)
        BY <1>2, <2>3, <2>4, <3>2, <3>3, <4>1 DEF IsBlock
      <4>4. Preferred(at.best, rows) = {rows[1].r < at.best[1].r}
        BY <4>1, <4>2 DEF Preferred
      <4>5. ~(SquaredOffset(i, at.c) < SquaredOffset(i, c))
        BY <1>3, <2>6, <4>1, <4>3, <4>4 DEF Choice
      <4>6. c < at.c
        <5>1. c \in Box(i)
          BY <1>1, <3>2 DEF PlaceOK
        <5> QED  BY <1>5, <5>1
      <4>7. SquaredOffset(i, at.c) \in Int /\ SquaredOffset(i, c) \in Int /\ c \in Int
        BY <2>2, <3>2, <3>3
      <4> QED  BY <1>5, <4>5, <4>6, <4>7 DEF First
    <3>4. \A d \in W : Gives(i, d) => options.empirical \/ First(i, c, d)
      BY <3>2, <3>3
    <3> QED  BY <3>1, <3>2, <3>4
  <2> QED  BY <1>3, <2>5, <2>6
<1> HIDE DEF lk, W
<1> QED  BY <1>4, <1>7, <1>8, <1>9, <1>10, <1>11 DEF Knows, W, lk

-----------------------------------------------------------------------------
(* The end of a search.                                                    *)

SearchedOut(at) ==
  /\ at \in Place /\ at.i \in 1..N
  /\ at.best = <<>> <=> Lacks(at.i)
  /\ at.best # <<>> => \E c \in Sources(at.i) : IsBlock(at.best, at.i, c)
  /\ at.best = <<>> => (at.near <=> Met(at.i))
  /\ at.base <=> HasPlane(Cell(at.i))
  /\ at.best # <<>> => at.reached
  /\ at.rejected => at.reached

LEMMA OverStep ==
  ASSUME NEW at, SearchAt(at), NEW prefer, Choice(at, prefer), Over(at, Tagged(at))
  PROVE  SearchedOut(Looked(at, Tagged(at), prefer))
<1> DEFINE rows == Tagged(at)
           lk == Looked(at, rows, prefer)
           V == Before(at)
           W == V \cup {at.c}
           i == at.i
           own == Cell(i)
           side == Cell(i) + Lean(i)
<1>1. /\ World /\ at \in Place /\ i \in 1..N /\ PlaceOK(at) /\ Knows(at, V)
  BY DEF SearchAt, SearchOK
<1>2. /\ rows \in Seq(Row) /\ IsBlock(rows, i, at.c) /\ (rows # <<>> <=> Gives(i, at.c))
  BY <1>1, TaggedFacts
<1>3. prefer \in BOOLEAN /\ (prefer => rows # <<>>) /\ (~prefer => rows = <<>> \/ at.best # <<>>)
  BY ChoiceType
<1>4. /\ lk \in Place /\ lk.i = i /\ lk.best = (IF prefer THEN rows ELSE at.best)
      /\ lk.base <=> IF at.tier = 0 THEN HasPlane(at.c) ELSE at.base
  BY <1>1, <1>2, <1>3, LookedType
<1>5. Knows(lk, W)
  BY LookedKnows
<1>6. /\ at.c \in Int /\ at.tier \in {0, 1, 2} /\ V \subseteq Int /\ at.c \notin V
      /\ W \subseteq Footprint(i) \cup {side}
  BY PlaceFacts
<1>7. /\ own \in Int /\ Lean(i) \in {-1, 0, 1} /\ Footprint(i) \subseteq Int /\ own \in Footprint(i)
      /\ Box(i) = Footprint(i) \ {own, side}
  BY <1>1, CellFacts
<1>8. lk.base <=> HasPlane(own)
  BY <1>1, <1>4, <1>6 DEF PlaceOK
<1>9. \A d \in V \ Box(i) : ~Gives(i, d)
  BY <1>1 DEF PlaceOK
<1>10. CASE at.tier < 2 /\ rows # <<>>
  <2>1. V \subseteq {own} /\ V \cap Box(i) = {}
    BY <1>6, <1>7, <1>10 DEF Before
  <2>2. at.best = <<>>
    BY <1>1, <1>9, <2>1 DEF Knows
  <2>3. lk.best = rows /\ Gives(i, at.c)
    BY <1>2, <1>3, <1>4, <1>10, <2>2
  <2>4. Sources(i) = {at.c}
    <3>1. CASE at.tier = 0
      BY <1>1, <2>3, <3>1 DEF PlaceOK, Sources
    <3>2. CASE at.tier = 1
      <4>1. at.c = side /\ own \in V
        BY <1>1, <3>2 DEF PlaceOK, Before
      <4>2. ~Gives(i, own)
        BY <1>7, <1>9, <4>1
      <4> QED  BY <2>3, <4>1, <4>2 DEF Sources
    <3> QED  BY <1>6, <1>10, <3>1, <3>2
  <2>5. lk.reached /\ (lk.rejected => lk.reached)
    BY <1>5, <1>10, <2>3 DEF Knows
  <2> HIDE DEF lk
  <2>6. lk.best # <<>> /\ ~Lacks(i) /\ at.c \in Sources(i) /\ IsBlock(lk.best, i, at.c)
    BY <1>2, <1>10, <2>3, <2>4 DEF Lacks
  <2>7. lk.base <=> HasPlane(Cell(i))
    BY <1>8
  <2>8. lk \in Place /\ lk.i = i /\ i \in 1..N
    BY <1>1, <1>4
  <2> HIDE DEF i
  <2> QED  BY <2>5, <2>6, <2>7, <2>8 DEF SearchedOut, lk
<1>11. CASE ~(at.tier < 2 /\ rows # <<>>)
  <2>1. at.left = {} /\ (at.tier = 0 => Lean(i) = 0)
    BY <1>11 DEF Over
  <2>2. Footprint(i) \cup {own, side} = W
    <3>1. CASE at.tier = 0
      <4>1. at.c = own /\ Box(i) = {} /\ side = own
        BY <1>1, <1>7, <2>1, <3>1 DEF PlaceOK
      <4> QED  BY <1>6, <1>7, <4>1
    <3>2. CASE at.tier = 1
      <4>1. at.c = side /\ Box(i) = {} /\ V = {own}
        BY <1>1, <2>1, <3>2 DEF PlaceOK, Before
      <4> QED  BY <1>6, <1>7, <4>1
    <3>3. CASE at.tier = 2
      <4>1. at.c \in Box(i) /\ \A d \in Box(i) : ~(d > at.c)
        BY <1>1, <2>1, <3>3 DEF PlaceOK
      <4>2. V = {own, side} \cup {d \in Box(i) : d < at.c}
        BY <3>3 DEF Before
      <4>3. \A d \in Box(i) : d \in W
        <5> TAKE d \in Box(i)
        <5>1. d \in Int /\ at.c \in Int
          BY <1>6, <1>7
        <5>2. d < at.c \/ d = at.c
          BY <4>1, <5>1
        <5> QED  BY <4>2, <5>2
      <4> QED  BY <1>6, <1>7, <4>2, <4>3
    <3> QED  BY <1>6, <3>1, <3>2, <3>3
  <2>3. ~Gives(i, own) /\ ~Gives(i, side)
    <3>1. own \in W \ Box(i) /\ side \in W \ Box(i)
      BY <1>7, <2>2
    <3>2. at.c \notin Box(i) => ~Gives(i, at.c)
      BY <1>1, <1>2, <1>6, <1>11 DEF PlaceOK
    <3> QED  BY <1>9, <3>1, <3>2
  <2>4. Sources(i) =
          {c \in Footprint(i) :
             /\ Gives(i, c)
             /\ options.empirical \/ \A d \in Footprint(i) : Gives(i, d) => First(i, c, d)}
    <3>1. Sources(i) =
            {c \in Footprint(i) :
               /\ Gives(i, c)
               /\ options.empirical \/ \A d \in Footprint(i) : Gives(i, d) =>
                    \/ SquaredOffset(i, c) < SquaredOffset(i, d)
                    \/ SquaredOffset(i, c) = SquaredOffset(i, d) /\ c <= d}
      BY <2>3 DEF Sources
    <3> HIDE DEF i
    <3> QED  BY <3>1 DEF First
  <2> HIDE DEF lk, W
  <2>5. lk.best = <<>> => Lacks(i)
    <3>1. lk.best = <<>> => \A d \in W : ~Gives(i, d)
      BY <1>4, <1>5 DEF Knows
    <3>2. Footprint(i) \subseteq W
      BY <2>2
    <3>3. lk.best = <<>> => \A d \in Footprint(i) : ~Gives(i, d)
      BY <3>1, <3>2
    <3> HIDE DEF i
    <3> QED  BY <2>4, <3>3 DEF Lacks
  <2>6. ASSUME lk.best # <<>> PROVE \E c \in Sources(i) : IsBlock(lk.best, i, c)
    <3>1. PICK c \in W : /\ Gives(i, c) /\ IsBlock(lk.best, i, c)
                         /\ options.empirical \/ \A d \in W : Gives(i, d) => First(i, c, d)
      BY <1>4, <1>5, <2>6 DEF Knows
    <3>2. c \in Footprint(i)
      BY <2>2, <2>3, <3>1
    <3>3. c \in Sources(i)
      BY <2>2, <2>4, <3>1, <3>2
    <3> QED  BY <3>1, <3>3
  <2>7. lk.near <=> Met(i)
    <3>1. lk.near <=> \E d \in W : HasPlane(d)
      BY <1>5 DEF Knows
    <3>2. W = Footprint(i) \cup {Cell(i) + Lean(i)}
      BY <1>7, <2>2
    <3> QED  BY <3>1, <3>2 DEF Met
  <2>8. (lk.best # <<>> => lk.reached) /\ (lk.rejected => lk.reached)
    BY <1>5 DEF Knows
  <2>9. lk.best = <<>> <=> Lacks(i)
    BY <2>5, <2>6 DEF Lacks
  <2> HIDE DEF i
  <2>10. lk \in Place /\ lk.i = i /\ i \in 1..N
    BY <1>1, <1>4
  <2>11. lk.base <=> HasPlane(Cell(i))
    BY <1>8
  <2> QED  BY <2>6, <2>7, <2>8, <2>9, <2>10, <2>11 DEF SearchedOut, lk
<1> QED  BY <1>10, <1>11

LEMMA OnwardStep ==
  ASSUME NEW at, SearchAt(at), NEW prefer, Choice(at, prefer), ~Over(at, Tagged(at))
  PROVE  LET nx == Onward(Looked(at, Tagged(at), prefer)) IN
         /\ SearchAt(nx) /\ nx.i = at.i
         /\ Before(nx) = Before(at) \cup {at.c}
<1> DEFINE rows == Tagged(at)
           lk == Looked(at, rows, prefer)
           nx == Onward(lk)
           V == Before(at)
           W == V \cup {at.c}
           i == at.i
           own == Cell(i)
           side == Cell(i) + Lean(i)
<1>1. /\ World /\ at \in Place /\ i \in 1..N /\ PlaceOK(at) /\ Knows(at, V)
  BY DEF SearchAt, SearchOK
<1>2. /\ rows \in Seq(Row) /\ (rows # <<>> <=> Gives(i, at.c))
  BY <1>1, TaggedFacts
<1>3. prefer \in BOOLEAN
  BY ChoiceType
<1>4. /\ lk \in Place /\ lk.i = i /\ lk.c = at.c /\ lk.tier = at.tier /\ lk.left = at.left
      /\ lk.base <=> IF at.tier = 0 THEN HasPlane(at.c) ELSE at.base
      /\ lk.seen = {}
  BY <1>1, <1>2, <1>3, LookedType
<1>5. Knows(lk, W)
  BY LookedKnows
<1>6. /\ at.c \in Int /\ at.tier \in {0, 1, 2} /\ V \subseteq Int
  BY PlaceFacts
<1>7. /\ own \in Int /\ Lean(i) \in {-1, 0, 1} /\ Footprint(i) \subseteq Int /\ own \in Footprint(i)
      /\ Box(i) = Footprint(i) \ {own, side}
      /\ Footprint(i) = (own - options.size)..(own + options.size) /\ options.size \in Nat
  BY <1>1, CellFacts
<1>8. lk.base <=> HasPlane(own)
  BY <1>1, <1>4, <1>6 DEF PlaceOK
<1>9. \A d \in V \ Box(i) : ~Gives(i, d)
  BY <1>1 DEF PlaceOK
<1>10. at.tier < 2 => ~Gives(i, at.c)
  BY <1>2 DEF Over
<1>11. at.c \in Box(i) \/ ~Gives(i, at.c)
  BY <1>1, <1>6, <1>10 DEF PlaceOK
<1> HIDE DEF lk
<1>12. CASE at.tier = 0 /\ Lean(i) # 0
  <2>1. nx = [lk EXCEPT !.tier = 1, !.c = lk.c + Lean(lk.i)]
    BY <1>4, <1>12 DEF Onward
  <2>2. at.c = own /\ at.left = Box(i) /\ W = {own}
    BY <1>1, <1>12 DEF PlaceOK, Before
  <2>3. 1 \in {0, 1, 2} /\ lk.c + Lean(lk.i) \in Int
    BY <1>4, <1>6, <1>7
  <2>4. nx \in Place
    BY <1>4, <2>1, <2>3 DEF Place
  <2>5. /\ nx.tier = 1 /\ nx.c = side /\ nx.i = i /\ nx.left = Box(i) /\ nx.base = lk.base /\ nx.seen = {}
        /\ nx.near = lk.near /\ nx.best = lk.best /\ nx.reached = lk.reached /\ nx.rejected = lk.rejected
    BY <1>4, <2>1, <2>2 DEF Place
  <2> HIDE DEF nx
  <2>6. Before(nx) = W
    BY <2>2, <2>5 DEF Before
  <2>7. PlaceOK(nx)
    BY <1>7, <1>8, <1>9, <1>11, <1>12, <2>2, <2>5, <2>6 DEF PlaceOK
  <2>8. Knows(nx, W)
    BY <1>4, <1>5, <2>5 DEF Knows
  <2> QED  BY <1>1, <2>4, <2>5, <2>6, <2>7, <2>8 DEF SearchAt, SearchOK, nx, lk
<1>13. CASE ~(at.tier = 0 /\ Lean(i) # 0)
  <2> DEFINE least == Least(at.left)
  <2>1. nx = [lk EXCEPT !.tier = 2, !.c = least, !.left = lk.left \ {least}]
    BY <1>4, <1>13 DEF Onward
  <2>2. at.left # {} /\ at.left \subseteq Box(i)
    BY <1>1, <1>6, <1>10, <1>13 DEF Over, PlaceOK
  <2>3. least \in at.left /\ \A d \in at.left : least <= d
    <3>1. \A d \in at.left : d \in Int /\ d >= own - options.size
      BY <1>7, <2>2
    <3>2. own - options.size \in Int
      BY <1>7
    <3> QED  BY <2>2, <3>1, <3>2, LeastFacts
  <2> HIDE DEF least
  <2>4. 2 \in {0, 1, 2} /\ least \in Int /\ least \in Box(i) /\ at.left \ {least} \in SUBSET Int
    BY <1>7, <2>2, <2>3
  <2>5. nx \in Place
    BY <1>4, <2>1, <2>4 DEF Place
  <2>6. /\ nx.tier = 2 /\ nx.c = least /\ nx.i = i /\ nx.left = at.left \ {least} /\ nx.base = lk.base
        /\ nx.seen = {} /\ nx.near = lk.near /\ nx.best = lk.best /\ nx.reached = lk.reached
        /\ nx.rejected = lk.rejected
    BY <1>4, <2>1 DEF Place
  <2> HIDE DEF nx
  <2>7. W = {own, side} \cup {d \in Box(i) : d < least} /\ at.left \ {least} = {d \in Box(i) : d > least}
    <3>1. CASE at.tier # 2
      <4>1. at.left = Box(i) /\ W = {own, side}
        BY <1>1, <1>6, <1>7, <1>13, <3>1 DEF PlaceOK, Before
      <4>2. \A d \in Box(i) : d \in Int /\ least <= d
        BY <1>7, <2>3, <4>1
      <4> QED  BY <2>4, <4>1, <4>2
    <3>2. CASE at.tier = 2
      <4>1. at.left = {d \in Box(i) : d > at.c} /\ at.c \in Box(i)
        BY <1>1, <3>2 DEF PlaceOK
      <4>2. V = {own, side} \cup {d \in Box(i) : d < at.c}
        BY <3>2 DEF Before
      <4>3. \A d \in Box(i) : d \in Int /\ (d > at.c => least <= d)
        BY <1>7, <2>3, <4>1
      <4>4. least > at.c
        BY <2>3, <4>1
      <4>5. \A d \in Box(i) : d < least <=> d < at.c \/ d = at.c
        BY <1>6, <2>4, <4>3, <4>4
      <4>6. \A d \in Box(i) : d > least <=> d > at.c /\ d # least
        BY <1>6, <2>4, <4>3, <4>4
      <4> QED  BY <4>1, <4>2, <4>5, <4>6
    <3> QED  BY <3>1, <3>2
  <2>8. Before(nx) = W
    BY <2>6, <2>7 DEF Before
  <2>9. PlaceOK(nx)
    BY <1>8, <1>9, <1>11, <2>4, <2>6, <2>7, <2>8 DEF PlaceOK
  <2>10. Knows(nx, W)
    BY <1>4, <1>5, <2>6 DEF Knows
  <2> QED  BY <1>1, <2>5, <2>6, <2>8, <2>9, <2>10 DEF SearchAt, SearchOK, nx, lk
<1> QED  BY <1>12, <1>13

LEMMA BeginStep ==
  ASSUME World, NEW i \in 1..N
  PROVE  SearchAt(Begin(i)) /\ Begin(i).i = i /\ Before(Begin(i)) = {}
<1> DEFINE at == Begin(i)
<1>1. Cell(i) \in Int /\ Box(i) \subseteq Int /\ i \in Int
  BY CellFacts, ScanFacts
<1>2. at = [i |-> i, c |-> Cell(i), tier |-> 0, left |-> Box(i), best |-> <<>>, near |-> FALSE,
            base |-> FALSE, reached |-> FALSE, rejected |-> FALSE, seen |-> {}, sum |-> 0]
  BY DEF Begin
<1>3. <<>> \in Seq(Row) /\ {} \in SUBSET Entry /\ Box(i) \in SUBSET Int
  BY <1>1
<1> HIDE DEF at
<1>4. at \in Place
  BY <1>1, <1>2, <1>3 DEF Place
<1>5. /\ at.i = i /\ at.c = Cell(i) /\ at.tier = 0 /\ at.left = Box(i) /\ at.best = <<>> /\ ~at.near
      /\ ~at.base /\ ~at.reached /\ ~at.rejected /\ at.seen = {}
  BY <1>2
<1>6. Before(at) = {}
  BY <1>5 DEF Before
<1>7. PlaceOK(at)
  BY <1>5, <1>6 DEF PlaceOK
<1>8. Knows(at, {})
  BY <1>5 DEF Knows
<1> QED  BY <1>4, <1>5, <1>6, <1>7, <1>8 DEF SearchAt, SearchOK, at

-----------------------------------------------------------------------------
(* Rows and counts of adjoining points.                                    *)

LEMMA SourcesFacts ==
  ASSUME World, NEW i \in 1..N
  PROVE  /\ \A c \in Sources(i) : c \in Int /\ Gives(i, c)
         /\ Gives(i, Cell(i)) => Sources(i) = {Cell(i)}
<1>1. Cell(i) \in Int /\ Lean(i) \in {-1, 0, 1} /\ Footprint(i) \subseteq Int
  BY CellFacts
<1>2. CASE Gives(i, Cell(i))
  BY <1>1, <1>2 DEF Sources
<1>3. CASE ~Gives(i, Cell(i)) /\ Gives(i, Cell(i) + Lean(i))
  BY <1>1, <1>3 DEF Sources
<1>4. CASE ~Gives(i, Cell(i)) /\ ~Gives(i, Cell(i) + Lean(i))
  BY <1>1, <1>4 DEF Sources
<1> QED  BY <1>2, <1>3, <1>4

LEMMA EmptyInOrder == ASSUME NEW f \in Int PROVE InOrder(<<>>, f, f - 1)
<1>1. f..(f - 1) = {} /\ DOMAIN <<>> = {}
  OBVIOUS
<1> QED  BY <1>1 DEF InOrder

LEMMA BlockInOrder ==
  ASSUME NEW at, SearchedOut(at)
  PROVE  InOrder(at.best, at.i, at.i)
<1> DEFINE b == at.best
           i == at.i
<1>1. b \in Seq(Row) /\ i \in Int /\ i..i = {i}
  BY ScanFacts DEF SearchedOut, Place
<1>2. Len(b) \in Nat /\ DOMAIN b = 1..Len(b) /\ (b = <<>> <=> Len(b) = 0)
  BY <1>1, SeqFacts
<1>3. b = <<>> <=> Sources(i) = {}
  BY DEF SearchedOut, Lacks
<1>4. CASE b = <<>>
  <2>1. DOMAIN b = {}
    BY <1>2, <1>4
  <2> HIDE DEF b, i
  <2> QED  BY <1>1, <1>3, <1>4, <2>1 DEF InOrder, b, i
<1>5. CASE b # <<>>
  <2>1. PICK c \in Sources(i) : IsBlock(b, i, c)
    BY <1>5 DEF SearchedOut
  <2>2. Len(RowsOf(i, c)) = Len(b) /\ DOMAIN RowsOf(i, c) = 1..Len(b)
    BY <2>1, RowsType, SeqFacts DEF IsBlock
  <2>3. \A k \in DOMAIN b : b[k].i = i /\ b[k].c = c /\ b[k].kind = RowsOf(i, c)[k]
    BY <2>1 DEF IsBlock
  <2> HIDE DEF b, i
  <2>4. Together(b, i, c, 0)
    BY <1>2, <2>2, <2>3 DEF Together
  <2>5. 0 \in 0..Len(b) /\ 0 + Len(RowsOf(i, c)) <= Len(b)
    BY <1>2, <2>2
  <2>6. \A j, k \in DOMAIN b : j < k => b[j].i <= b[k].i
    BY <1>1, <2>3
  <2>7. InOrder(b, i, i)
    BY <1>1, <1>3, <1>5, <2>1, <2>3, <2>4, <2>5, <2>6 DEF InOrder
  <2> QED  BY <2>7 DEF b, i
<1> QED  BY <1>4, <1>5

LEMMA JoinInOrder ==
  ASSUME NEW a \in Seq(Row), NEW b \in Seq(Row), NEW f \in Int, NEW m \in Int, NEW l \in Int,
         f <= m + 1, m <= l, InOrder(a, f, m), InOrder(b, m + 1, l)
  PROVE  InOrder(a \o b, f, l)
<1> DEFINE c == a \o b
           la == Len(a)
           lb == Len(b)
<1>1. /\ la \in Nat /\ lb \in Nat /\ Len(c) = la + lb
      /\ DOMAIN a = 1..la /\ DOMAIN b = 1..lb /\ DOMAIN c = 1..(la + lb)
      /\ \A k \in 1..la : c[k] = a[k]
      /\ \A k \in 1..lb : c[la + k] = b[k]
  BY SeqFacts, ConcatFacts
<1> HIDE DEF c, la, lb
<1>2. \A k \in 1..la : a[k].i \in f..m
  BY <1>1 DEF InOrder
<1>3. \A k \in 1..lb : b[k].i \in (m + 1)..l
  BY <1>1 DEF InOrder
<1>4. \A k \in 1..(la + lb) : k \in 1..la \/ (k - la \in 1..lb /\ k = la + (k - la))
  BY <1>1
<1>5. \A k \in 1..(la + lb) :
        (k \in 1..la /\ c[k] = a[k]) \/ (k - la \in 1..lb /\ k > la /\ c[k] = b[k - la])
  <2> TAKE k \in 1..(la + lb)
  <2>1. CASE k \in 1..la
    BY <1>1, <2>1
  <2>2. CASE k - la \in 1..lb
    <3>1. c[la + (k - la)] = b[k - la] /\ la + (k - la) = k /\ k > la
      BY <1>1, <2>2
    <3> QED  BY <2>2, <3>1
  <2> QED  BY <1>4, <2>1, <2>2
<1>6. \A k \in DOMAIN c : c[k].i \in f..l
  <2> TAKE k \in DOMAIN c
  <2>1. CASE k \in 1..la /\ c[k] = a[k]
    <3>1. c[k].i \in f..m
      BY <1>2, <2>1
    <3> QED  BY <3>1
  <2>2. CASE k - la \in 1..lb /\ c[k] = b[k - la]
    <3>1. c[k].i \in (m + 1)..l
      BY <1>3, <2>2
    <3> QED  BY <3>1
  <2> QED  BY <1>1, <1>5, <2>1, <2>2
<1>7. \A j, k \in DOMAIN c : j < k => c[j].i <= c[k].i
  <2> TAKE j, k \in DOMAIN c
  <2> HAVE j < k
  <2>1. j \in Nat /\ k \in Nat
    BY <1>1
  <2>2. CASE k \in 1..la
    <3>1. j \in 1..la
      BY <1>1, <2>1, <2>2
    <3>2. a[j].i <= a[k].i
      BY <1>1, <2>2, <3>1 DEF InOrder
    <3> QED  BY <1>1, <2>2, <3>1, <3>2
  <2>3. CASE j \in 1..la /\ k \notin 1..la
    <3>1. c[j].i \in f..m /\ c[k].i \in (m + 1)..l
      BY <1>1, <1>2, <1>3, <1>5, <2>3
    <3> QED  BY <3>1
  <2>4. CASE j \notin 1..la
    <3>1. j - la \in 1..lb /\ k - la \in 1..lb /\ c[j] = b[j - la] /\ c[k] = b[k - la] /\ j - la < k - la
      BY <1>1, <1>5, <2>1, <2>4
    <3>2. b[j - la].i <= b[k - la].i
      BY <1>1, <3>1 DEF InOrder
    <3> QED  BY <3>1, <3>2
  <2> QED  BY <2>2, <2>3, <2>4
<1>8. ASSUME NEW i \in f..l
      PROVE  IF Sources(i) = {} THEN \A k \in DOMAIN c : c[k].i # i
             ELSE \E d \in Sources(i), s \in 0..Len(c) :
                    s + Len(RowsOf(i, d)) <= Len(c) /\ Together(c, i, d, s)
  <2>1. i \in Int /\ (i <= m => i \in f..m) /\ (i > m => i \in (m + 1)..l)
    OBVIOUS
  <2>2. \A d : Len(RowsOf(i, d)) \in Nat /\ DOMAIN RowsOf(i, d) = 1..Len(RowsOf(i, d))
    BY RowsType, SeqFacts
  <2>3. \A k \in 1..la : c[k].i = a[k].i /\ a[k].i <= m /\ a[k].i \in Int
    <3> TAKE k \in 1..la
    <3>1. a[k].i \in f..m /\ c[k] = a[k]
      BY <1>1, <1>2
    <3> QED  BY <3>1
  <2>4. \A k \in 1..lb : c[la + k].i = b[k].i /\ b[k].i > m /\ b[k].i \in Int
    <3> TAKE k \in 1..lb
    <3>1. b[k].i \in (m + 1)..l /\ c[la + k] = b[k]
      BY <1>1, <1>3
    <3> QED  BY <3>1
  <2>5. CASE i <= m /\ Sources(i) = {}
    <3>1. \A k \in 1..la : a[k].i # i
      BY <1>1, <2>1, <2>5 DEF InOrder
    <3>2. \A k \in DOMAIN c : c[k].i # i
      <4> TAKE k \in DOMAIN c
      <4>1. CASE k \in 1..la
        BY <2>3, <3>1, <4>1
      <4>2. CASE k - la \in 1..lb /\ c[k] = b[k - la]
        <5>1. b[k - la].i > m /\ b[k - la].i \in Int
          BY <2>4, <4>2
        <5> QED  BY <2>1, <2>5, <4>2, <5>1
      <4> QED  BY <1>1, <1>5, <4>1, <4>2
    <3> QED  BY <2>5, <3>2
  <2>6. CASE i <= m /\ Sources(i) # {}
    <3>1. PICK d \in Sources(i), s \in 0..la : s + Len(RowsOf(i, d)) <= la /\ Together(a, i, d, s)
      BY <2>1, <2>6 DEF InOrder, la
    <3> DEFINE n == Len(RowsOf(i, d))
    <3>2. n \in Nat /\ s \in Nat /\ s + n <= la /\ s \in 0..Len(c) /\ s + n <= Len(c)
      BY <1>1, <2>2, <3>1
    <3>3. /\ \A k \in 1..la : a[k].i = i <=> k \in (s + 1)..(s + n)
          /\ \A k \in 1..n : a[s + k].c = d /\ a[s + k].kind = RowsOf(i, d)[k]
      BY <1>1, <2>2, <3>1 DEF Together
    <3> HIDE DEF n
    <3>4. \A k \in DOMAIN c : c[k].i = i <=> k \in (s + 1)..(s + n)
      <4> TAKE k \in DOMAIN c
      <4>1. CASE k \in 1..la
        BY <2>3, <3>3, <4>1
      <4>2. CASE k - la \in 1..lb /\ k > la /\ c[k] = b[k - la]
        <5>1. b[k - la].i > m /\ b[k - la].i \in Int
          BY <2>4, <4>2
        <5>2. k \notin (s + 1)..(s + n)
          BY <1>1, <3>2, <4>2
        <5> QED  BY <2>1, <2>6, <4>2, <5>1, <5>2
      <4> QED  BY <1>1, <1>5, <4>1, <4>2
    <3>5. \A k \in 1..n : c[s + k].c = d /\ c[s + k].kind = RowsOf(i, d)[k]
      <4> TAKE k \in 1..n
      <4>1. s + k \in 1..la
        <5>1. la \in Nat /\ n \in Nat /\ s \in Nat /\ s + n <= la /\ k \in 1..n
          BY <1>1, <3>2
        <5>2. s + k \in Nat /\ s + k <= la /\ s + k >= 1
          BY <5>1
        <5> QED  BY <5>1, <5>2
      <4>2. c[s + k] = a[s + k]
        BY <1>1, <4>1
      <4> QED  BY <3>3, <4>2
    <3>6. Together(c, i, d, s)
      BY <2>2, <3>4, <3>5 DEF Together, n
    <3> QED  BY <2>6, <3>1, <3>2, <3>6 DEF n
  <2>7. CASE i > m /\ Sources(i) = {}
    <3>1. \A k \in 1..lb : b[k].i # i
      BY <1>1, <2>1, <2>7 DEF InOrder
    <3>2. \A k \in DOMAIN c : c[k].i # i
      <4> TAKE k \in DOMAIN c
      <4>1. CASE k \in 1..la
        <5>1. c[k].i <= m /\ c[k].i \in Int
          BY <2>3, <4>1
        <5> QED  BY <2>1, <2>7, <5>1
      <4>2. CASE k - la \in 1..lb /\ c[k] = b[k - la]
        BY <3>1, <4>2
      <4> QED  BY <1>1, <1>5, <4>1, <4>2
    <3> QED  BY <2>7, <3>2
  <2>8. CASE i > m /\ Sources(i) # {}
    <3>1. PICK d \in Sources(i), s \in 0..lb : s + Len(RowsOf(i, d)) <= lb /\ Together(b, i, d, s)
      BY <2>1, <2>8 DEF InOrder, lb
    <3> DEFINE n == Len(RowsOf(i, d))
               t == la + s
    <3>2. n \in Nat /\ s \in Nat /\ s + n <= lb /\ t \in 0..Len(c) /\ t + n <= Len(c) /\ t \in Nat /\ t = la + s
      BY <1>1, <2>2, <3>1
    <3>3. /\ \A k \in 1..lb : b[k].i = i <=> k \in (s + 1)..(s + n)
          /\ \A k \in 1..n : b[s + k].c = d /\ b[s + k].kind = RowsOf(i, d)[k]
      BY <1>1, <2>2, <3>1 DEF Together
    <3> HIDE DEF n, t
    <3>4. \A k \in DOMAIN c : c[k].i = i <=> k \in (t + 1)..(t + n)
      <4> TAKE k \in DOMAIN c
      <4>0. k \in Nat
        BY <1>1
      <4>1. CASE k \in 1..la
        <5>1. c[k].i <= m /\ c[k].i \in Int
          BY <2>3, <4>1
        <5>2. k \notin (t + 1)..(t + n)
          BY <1>1, <3>2, <4>1
        <5> QED  BY <2>1, <2>8, <5>1, <5>2
      <4>2. CASE k - la \in 1..lb /\ k > la /\ c[k] = b[k - la]
        <5>1. k - la \in (s + 1)..(s + n) <=> k \in (t + 1)..(t + n)
          <6>1. la \in Int /\ s \in Int /\ n \in Int /\ k \in Int /\ t = la + s
            BY <1>1, <3>2, <4>0
          <6>2. k - la >= s + 1 <=> k >= t + 1
            BY <6>1
          <6>3. k - la <= s + n <=> k <= t + n
            BY <6>1
          <6> QED  BY <6>1, <6>2, <6>3
        <5> QED  BY <3>3, <4>2, <5>1
      <4> QED  BY <1>1, <1>5, <4>1, <4>2
    <3>5. \A k \in 1..n : c[t + k].c = d /\ c[t + k].kind = RowsOf(i, d)[k]
      <4> TAKE k \in 1..n
      <4>1. s + k \in 1..lb /\ t + k = la + (s + k)
        <5>1. la \in Nat /\ lb \in Nat /\ n \in Nat /\ s \in Nat /\ s + n <= lb /\ t = la + s /\ k \in 1..n
          BY <1>1, <3>2
        <5>2. s + k \in Nat /\ s + k <= lb /\ s + k >= 1
          BY <5>1
        <5> QED  BY <5>1, <5>2
      <4>2. c[t + k] = b[s + k]
        BY <1>1, <4>1
      <4> QED  BY <3>3, <4>2
    <3>6. Together(c, i, d, t)
      BY <2>2, <3>4, <3>5 DEF Together, n
    <3> QED  BY <2>8, <3>1, <3>2, <3>6 DEF n
  <2> QED  BY <2>1, <2>5, <2>6, <2>7, <2>8
<1>9. InOrder(c, f, l)
  BY <1>6, <1>7, <1>8 DEF InOrder
<1> QED  BY <1>9 DEF c

LEMMA Adjoining ==
  ASSUME NEW f \in Int, NEW m \in Int, NEW l \in Int, f <= m + 1, m <= l
  PROVE  \A S :
           /\ Cardinality(S \cap (f..m)) \in Nat /\ Cardinality(S \cap ((m + 1)..l)) \in Nat
           /\ Cardinality(S \cap (f..l)) = Cardinality(S \cap (f..m)) + Cardinality(S \cap ((m + 1)..l))
<1> TAKE S
<1> DEFINE a == S \cap (f..m)
           b == S \cap ((m + 1)..l)
<1>1. IsFiniteSet(f..m) /\ IsFiniteSet((m + 1)..l)
  BY FS_Interval
<1>2. IsFiniteSet(a) /\ IsFiniteSet(b)
  BY <1>1, FS_Intersection
<1>3. Cardinality(a) \in Nat /\ Cardinality(b) \in Nat
  BY <1>2, FS_CardinalityType
<1>4. a \cap b = {} /\ S \cap (f..l) = a \cup b
  <2>1. \A x : x \in f..l <=> x \in f..m \/ x \in (m + 1)..l
    OBVIOUS
  <2>2. \A x : ~(x \in f..m /\ x \in (m + 1)..l)
    OBVIOUS
  <2> QED  BY <2>1, <2>2
<1> HIDE DEF a, b
<1>5. Cardinality(a \cup b) = Cardinality(a) + Cardinality(b) - Cardinality(a \cap b)
  BY <1>2, FS_Union
<1>6. Cardinality(a \cap b) = 0
  BY <1>4, FS_EmptySet
<1>7. Cardinality(a \cup b) = Cardinality(a) + Cardinality(b)
  BY <1>3, <1>5, <1>6
<1> QED  BY <1>3, <1>4, <1>7 DEF a, b

LEMMA NoCountsFacts ==
  ASSUME NEW f \in Int
  PROVE  NoCounts \in [Counters -> Nat] /\ CountsOK(NoCounts, f, f - 1)
<1>1. f..(f - 1) = {}
  OBVIOUS
<1>2. \A S : S \cap (f..(f - 1)) = {}
  BY <1>1
<1>3. \A k \in Counters : NoCounts[k] = 0
  BY DEF NoCounts
<1>4. Cardinality({}) = 0
  BY FS_EmptySet
<1>5. NoCounts \in [Counters -> Nat]
  BY DEF NoCounts
<1>6. \A k \in Tallied : NoCounts[k] = Cardinality(Tally(k) \cap (f..(f - 1)))
  BY <1>2, <1>3, <1>4 DEF Tallied, Counters
<1>7. NoCounts["rejections"] = 0 /\ NoCounts["candidates"] = 0
  BY <1>3 DEF Counters
<1>8. Cardinality(Hits \cap (f..(f - 1))) = 0
  BY <1>2, <1>4
<1> QED  BY <1>5, <1>6, <1>7, <1>8 DEF CountsOK

Once(at) == [k \in Counters |-> IF Bumped(at, k) THEN 1 ELSE 0]

LEMMA BumpedFacts ==
  ASSUME NEW at
  PROVE  /\ Bumped(at, "coverage") <=> at.best = <<>> /\ ~at.near
         /\ Bumped(at, "mismatch") <=> at.best = <<>> /\ at.near
         /\ Bumped(at, "tier0Coverage") <=> ~(at.best # <<>> /\ at.best[1].tier = 0) /\ ~at.base
         /\ Bumped(at, "tier0Mismatch") <=> ~(at.best # <<>> /\ at.best[1].tier = 0) /\ at.base
         /\ Bumped(at, "candidates") <=> at.reached
         /\ Bumped(at, "rejections") <=> at.best = <<>> /\ at.rejected
BY DEF Bumped

LEMMA OnceCounts ==
  ASSUME NEW at, World, SearchedOut(at)
  PROVE  Once(at) \in [Counters -> Nat] /\ CountsOK(Once(at), at.i, at.i)
<1> DEFINE b == at.best
           i == at.i
           one == Once(at)
<1>1. /\ b \in Seq(Row) /\ i \in 1..N /\ i \in Int /\ i..i = {i}
      /\ at.near \in BOOLEAN /\ at.base \in BOOLEAN /\ at.reached \in BOOLEAN /\ at.rejected \in BOOLEAN
  BY ScanFacts DEF SearchedOut, Place
<1>2. /\ b = <<>> <=> Lacks(i)
      /\ b = <<>> => (at.near <=> Met(i))
      /\ at.base <=> HasPlane(Cell(i))
      /\ b # <<>> => at.reached
      /\ at.rejected => at.reached
  BY DEF SearchedOut
<1>3. (b # <<>> /\ b[1].tier = 0) <=> Gives(i, Cell(i))
  <2>1. CASE b = <<>>
    BY <1>1, <1>2, <2>1, SourcesFacts DEF Lacks
  <2>2. CASE b # <<>>
    <3>1. PICK c \in Sources(i) : IsBlock(b, i, c)
      BY <2>2 DEF SearchedOut
    <3>2. 1 \in DOMAIN b
      BY <1>1, <2>2, SeqFacts
    <3>3. b[1].tier = 0 <=> c = Cell(i)
      BY <3>1, <3>2 DEF IsBlock
    <3>4. Gives(i, Cell(i)) <=> c = Cell(i)
      BY <1>1, <3>1, SourcesFacts
    <3> QED  BY <2>2, <3>3, <3>4
  <2> QED  BY <2>1, <2>2
<1>4. one \in [Counters -> Nat] /\ \A k \in Counters : one[k] = IF Bumped(at, k) THEN 1 ELSE 0
  BY DEF Once
<1> HIDE DEF b, i, one
<1>5. \A S : Cardinality(S \cap (i..i)) = IF i \in S THEN 1 ELSE 0
  <2> TAKE S
  <2>1. CASE i \in S
    <3>1. S \cap (i..i) = {i}
      BY <1>1, <2>1
    <3> QED  BY <2>1, <3>1, FS_Singleton
  <2>2. CASE i \notin S
    <3>1. S \cap (i..i) = {}
      BY <1>1, <2>2
    <3> QED  BY <2>2, <3>1, FS_EmptySet
  <2> QED  BY <2>1, <2>2
<1>6. /\ i \in Tally("coverage") <=> Lacks(i) /\ ~Met(i)
      /\ i \in Tally("mismatch") <=> Lacks(i) /\ Met(i)
      /\ i \in Tally("tier0Coverage") <=> ~Gives(i, Cell(i)) /\ ~HasPlane(Cell(i))
      /\ i \in Tally("tier0Mismatch") <=> ~Gives(i, Cell(i)) /\ HasPlane(Cell(i))
      /\ i \in Hits <=> ~Lacks(i)
  BY <1>1 DEF Tally, Hits
<1>7. /\ Bumped(at, "coverage") <=> i \in Tally("coverage")
      /\ Bumped(at, "mismatch") <=> i \in Tally("mismatch")
      /\ Bumped(at, "tier0Coverage") <=> i \in Tally("tier0Coverage")
      /\ Bumped(at, "tier0Mismatch") <=> i \in Tally("tier0Mismatch")
  BY <1>2, <1>3, <1>6, BumpedFacts DEF b
<1>8. /\ {"coverage", "mismatch", "tier0Coverage", "tier0Mismatch", "candidates", "rejections"} = Counters
      /\ Tallied \subseteq Counters
  BY DEF Counters, Tallied
<1>9. \A k \in Tallied : one[k] = Cardinality(Tally(k) \cap (i..i))
  BY <1>4, <1>5, <1>7 DEF Tallied, Counters
<1>10. one["rejections"] <= one["candidates"]
  <2>1. Bumped(at, "rejections") => Bumped(at, "candidates")
    BY <1>2, BumpedFacts DEF b
  <2> QED  BY <1>4, <1>8, <2>1
<1>11. one["candidates"] >= Cardinality(Hits \cap (i..i))
  <2>1. i \in Hits => Bumped(at, "candidates")
    BY <1>2, <1>6, BumpedFacts DEF b
  <2> QED  BY <1>4, <1>5, <1>8, <2>1
<1>12. CountsOK(one, i, i)
  BY <1>9, <1>10, <1>11 DEF CountsOK
<1> QED  BY <1>4, <1>12 DEF one, i

Summed(x, y) == [k \in Counters |-> x[k] + y[k]]

LEMMA JoinCounts ==
  ASSUME NEW x \in [Counters -> Nat], NEW y \in [Counters -> Nat],
         NEW f \in Int, NEW m \in Int, NEW l \in Int, f <= m + 1, m <= l,
         CountsOK(x, f, m), CountsOK(y, m + 1, l)
  PROVE  Summed(x, y) \in [Counters -> Nat] /\ CountsOK(Summed(x, y), f, l)
<1> DEFINE z == Summed(x, y)
<1>1. z \in [Counters -> Nat] /\ \A k \in Counters : z[k] = x[k] + y[k] /\ x[k] \in Nat /\ y[k] \in Nat
  BY DEF Summed
<1>2. Tallied \subseteq Counters /\ "candidates" \in Counters /\ "rejections" \in Counters
  BY DEF Tallied, Counters
<1>0. \A S :
        /\ Cardinality(S \cap (f..m)) \in Nat /\ Cardinality(S \cap ((m + 1)..l)) \in Nat
        /\ Cardinality(S \cap (f..l)) = Cardinality(S \cap (f..m)) + Cardinality(S \cap ((m + 1)..l))
  BY Adjoining, ZenonT(60)
<1> HIDE DEF z
<1>3. ASSUME NEW k \in Tallied PROVE z[k] = Cardinality(Tally(k) \cap (f..l))
  <2>1. x[k] = Cardinality(Tally(k) \cap (f..m)) /\ y[k] = Cardinality(Tally(k) \cap ((m + 1)..l))
    BY DEF CountsOK
  <2>2. /\ Cardinality(Tally(k) \cap (f..m)) \in Nat /\ Cardinality(Tally(k) \cap ((m + 1)..l)) \in Nat
        /\ Cardinality(Tally(k) \cap (f..l)) =
             Cardinality(Tally(k) \cap (f..m)) + Cardinality(Tally(k) \cap ((m + 1)..l))
    BY <1>0, Zenon
  <2> QED  BY <1>1, <1>2, <2>1, <2>2
<1>4. z["rejections"] <= z["candidates"]
  <2>1. x["rejections"] <= x["candidates"] /\ y["rejections"] <= y["candidates"]
    BY DEF CountsOK
  <2> QED  BY <1>1, <1>2, <2>1
<1>5. z["candidates"] >= Cardinality(Hits \cap (f..l))
  <2>1. /\ x["candidates"] >= Cardinality(Hits \cap (f..m))
        /\ y["candidates"] >= Cardinality(Hits \cap ((m + 1)..l))
    BY DEF CountsOK
  <2>2. /\ Cardinality(Hits \cap (f..m)) \in Nat /\ Cardinality(Hits \cap ((m + 1)..l)) \in Nat
        /\ Cardinality(Hits \cap (f..l)) = Cardinality(Hits \cap (f..m)) + Cardinality(Hits \cap ((m + 1)..l))
    BY <1>0, Zenon
  <2> QED  BY <1>1, <1>2, <2>1, <2>2
<1>6. CountsOK(z, f, l)
  BY <1>3, <1>4, <1>5 DEF CountsOK
<1> QED  BY <1>1, <1>6 DEF z

-----------------------------------------------------------------------------
(* The sum of a history.                                                   *)

Sum(f, s, k) == IF k = 0 THEN 0 ELSE f[k - 1] + s[k].r
IsSum(f, s, n) == f = [k \in 0..n |-> Sum(f, s, k)]
Running(s) == CHOOSE f : IsSum(f, s, Len(s))

LEMMA TotalIsLast == \A s : Total(s) = Running(s)[Len(s)]
BY DEF Total, Running, IsSum, Sum

LEMMA SumExists == ASSUME NEW s PROVE \A n \in Nat : \E f : IsSum(f, s, n)
<1> DEFINE Bad == {n \in Nat : ~\E f : IsSum(f, s, n)}
<1> SUFFICES ASSUME Bad # {} PROVE FALSE
  OBVIOUS
<1>1. PICK m \in Bad : \A k \in Bad : m <= k
  BY LeastNatural
<1>2. m # 0
  <2> DEFINE f == [k \in 0..0 |-> 0]
  <2>1. f = [k \in 0..0 |-> Sum(f, s, k)]
    BY DEF Sum
  <2>2. 0 \notin Bad
    BY <2>1 DEF IsSum
  <2> QED  BY <2>2
<1>3. m - 1 \in Nat /\ m - 1 \notin Bad
  BY <1>1, <1>2
<1>4. PICK f : IsSum(f, s, m - 1)
  BY <1>3
<1> DEFINE g == [k \in 0..m |-> Sum(f, s, k)]
<1>5. \A k \in 0..(m - 1) : f[k] = g[k]
  BY <1>3, <1>4 DEF IsSum
<1>6. ASSUME NEW k \in 0..m PROVE Sum(f, s, k) = Sum(g, s, k)
  <2>1. CASE k = 0
    BY <2>1 DEF Sum
  <2>2. CASE k # 0
    <3> HIDE DEF g
    <3>1. k - 1 \in 0..(m - 1)
      BY <1>3, <2>2
    <3>2. f[k - 1] = g[k - 1]
      BY <1>5, <3>1
    <3> QED  BY <2>2, <3>2 DEF Sum
  <2> QED  BY <2>1, <2>2
<1>7. g = [k \in 0..m |-> Sum(g, s, k)]
  <2>1. \A k \in 0..m : g[k] = Sum(g, s, k)
    BY <1>6
  <2> QED  BY <2>1
<1>8. m \notin Bad
  BY <1>7 DEF IsSum
<1> QED  BY <1>1, <1>8

LEMMA RunningFacts ==
  ASSUME NEW s \in Seq(Entry)
  PROVE  /\ Running(s)[0] = 0
         /\ \A k \in 1..Len(s) : Running(s)[k] = Running(s)[k - 1] + s[k].r
         /\ \A k \in 0..Len(s) : Running(s)[k] \in Int
<1> DEFINE f == Running(s)
           n == Len(s)
<1>1. n \in Nat /\ \A k \in 1..n : s[k].r \in Int
  <2>1. n \in Nat /\ \A k \in 1..n : s[k] \in Entry
    BY SeqFacts
  <2> QED  BY <2>1 DEF Entry
<1>2. IsSum(f, s, n)
  BY <1>1, SumExists DEF Running
<1> HIDE DEF f, n
<1>3. \A k \in 0..n : f[k] = Sum(f, s, k)
  BY <1>2 DEF IsSum
<1>4. f[0] = 0
  BY <1>1, <1>3 DEF Sum
<1>5. \A k \in 1..n : f[k] = f[k - 1] + s[k].r
  BY <1>1, <1>3 DEF Sum
<1> DEFINE Bad == {k \in Nat : k <= n /\ f[k] \notin Int}
<1>6. Bad = {}
  <2> SUFFICES ASSUME Bad # {} PROVE FALSE
    OBVIOUS
  <2>1. PICK m \in Bad : \A k \in Bad : m <= k
    <3>1. Bad \in SUBSET Nat
      OBVIOUS
    <3> HIDE DEF Bad
    <3> QED  BY <3>1, LeastNatural
  <2>2. m \in Nat /\ m # 0 /\ m <= n
    BY <1>4, <2>1
  <2>3. m - 1 \in Nat /\ m - 1 <= n /\ m - 1 \notin Bad
    BY <1>1, <2>1, <2>2
  <2>4. f[m - 1] \in Int /\ m \in 1..n
    BY <1>1, <2>2, <2>3
  <2>5. f[m] \in Int
    <3>1. f[m] = f[m - 1] + s[m].r
      BY <1>5, <2>4
    <3>2. s[m].r \in Int
      BY <1>1, <2>4
    <3> QED  BY <2>4, <3>1, <3>2
  <2> QED  BY <2>1, <2>5
<1>7. \A k \in 0..n : f[k] \in Int
  BY <1>1, <1>6
<1> QED  BY <1>4, <1>5, <1>7 DEF f, n

LEMMA TotalEmpty == Total(<<>>) = 0
<1>1. <<>> \in Seq(Entry) /\ Len(<<>>) = 0
  OBVIOUS
<1> QED  BY <1>1, RunningFacts, TotalIsLast

LEMMA TotalAppend ==
  ASSUME NEW s \in Seq(Entry), NEW e \in Entry
  PROVE  Total(Append(s, e)) = Total(s) + e.r /\ Total(s) \in Int
<1> DEFINE t == Append(s, e)
           f == Running(s)
           g == Running(t)
           n == Len(s)
<1>1. /\ n \in Nat /\ t \in Seq(Entry) /\ Len(t) = n + 1 /\ t[n + 1] = e
      /\ \A k \in 1..n : t[k] = s[k]
  BY SeqFacts, AppendFacts
<1>2. /\ f[0] = 0 /\ \A k \in 1..n : f[k] = f[k - 1] + s[k].r
      /\ \A k \in 0..n : f[k] \in Int
  BY RunningFacts
<1>3. g[0] = 0 /\ \A k \in 1..(n + 1) : g[k] = g[k - 1] + t[k].r
  BY <1>1, RunningFacts
<1>4. Total(s) = f[n] /\ Total(t) = g[n + 1]
  BY <1>1, TotalIsLast
<1> HIDE DEF t, f, g, n
<1> DEFINE Bad == {k \in Nat : k <= n /\ f[k] # g[k]}
<1>5. Bad = {}
  <2> SUFFICES ASSUME Bad # {} PROVE FALSE
    OBVIOUS
  <2>1. PICK m \in Bad : \A k \in Bad : m <= k
    <3>1. Bad \in SUBSET Nat
      OBVIOUS
    <3> HIDE DEF Bad
    <3> QED  BY <3>1, LeastNatural
  <2>2. m \in Nat /\ m # 0 /\ m <= n
    BY <1>2, <1>3, <2>1
  <2>3. m - 1 \in Nat /\ m - 1 <= n /\ m - 1 \notin Bad
    BY <1>1, <2>1, <2>2
  <2>4. f[m - 1] = g[m - 1] /\ m \in 1..n /\ m \in 1..(n + 1)
    BY <1>1, <2>2, <2>3
  <2>5. f[m] = f[m - 1] + s[m].r /\ g[m] = g[m - 1] + t[m].r /\ t[m] = s[m]
    BY <1>1, <1>2, <1>3, <2>4
  <2>6. f[m] = g[m]
    BY <2>4, <2>5
  <2> QED  BY <2>1, <2>6
<1>6. f[n] = g[n] /\ f[n] \in Int
  BY <1>1, <1>2, <1>5
<1>7. g[n + 1] = g[n] + e.r
  <2> DEFINE k == n + 1
  <2>1. k \in 1..(n + 1) /\ k - 1 = n /\ n + 1 = k
    BY <1>1
  <2>2. t[k] = e
    BY <1>1
  <2> HIDE DEF k
  <2>3. g[k] = g[k - 1] + t[k].r
    BY <1>3, <2>1
  <2>4. g[k] = g[n] + e.r
    BY <2>1, <2>2, <2>3
  <2> QED  BY <2>1, <2>4
<1> QED  BY <1>4, <1>6, <1>7 DEF t

-----------------------------------------------------------------------------
(* A build leaves alone what its searches rest on.                         *)

LEMMA SameCells ==
  ASSUME UNCHANGED <<options, planes, pose>>
  PROVE  /\ World' <=> World
         /\ \A i : Cell(i)' = Cell(i) /\ Lean(i)' = Lean(i) /\ Footprint(i)' = Footprint(i)
         /\ \A i : Box(i)' = Box(i)
         /\ \A c : HasPlane(c)' <=> HasPlane(c)
         /\ \A i, c : RowsOf(i, c)' = RowsOf(i, c) /\ SquaredOffset(i, c)' = SquaredOffset(i, c)
         /\ \A i, c : Gives(i, c)' <=> Gives(i, c)
         /\ \A i, c : Accepts(i, c)' <=> Accepts(i, c)
<1>1. World' <=> World
  BY DEF World
<1>2. \A i : Position(i)' = Position(i)
  BY DEF Position
<1>3. \A i : Cell(i)' = Cell(i) /\ Lean(i)' = Lean(i)
  BY <1>2 DEF Cell, Lean
<1>4. \A i : Footprint(i)' = Footprint(i)
  BY <1>3 DEF Footprint
<1>5. \A i : Box(i)' = Box(i)
  BY <1>3, <1>4 DEF Box
<1>6. \A c : HasPlane(c)' <=> HasPlane(c)
  BY DEF HasPlane
<1>7. \A i, c : Far(i, c)' = Far(i, c)
  BY <1>2 DEF Far
<1>8. \A i, c : Accepts(i, c)' <=> Accepts(i, c)
  BY <1>6, <1>7 DEF Accepts
<1>9. \A i, c : RowsOf(i, c)' = RowsOf(i, c)
  BY <1>8 DEF RowsOf
<1>10. \A i, c : SquaredOffset(i, c)' = SquaredOffset(i, c)
  BY DEF SquaredOffset
<1>11. \A i, c : Gives(i, c)' <=> Gives(i, c)
  BY <1>9 DEF Gives
<1> QED  BY <1>1, <1>3, <1>4, <1>5, <1>6, <1>8, <1>9, <1>10, <1>11

LEMMA SameSearch ==
  ASSUME UNCHANGED <<options, planes, pose>>
  PROVE  /\ \A at : Before(at)' = Before(at)
         /\ \A at : SearchOK(at)' <=> SearchOK(at)
<1>1. \A at : Before(at)' = Before(at)
  BY SameCells DEF Before
<1>2. \A at : PlaceOK(at)' <=> PlaceOK(at)
  BY <1>1, SameCells DEF PlaceOK
<1>3. \A i, c, d : First(i, c, d)' <=> First(i, c, d)
  BY SameCells DEF First
<1>4. \A rows, i, c : IsBlock(rows, i, c)' <=> IsBlock(rows, i, c)
  BY SameCells DEF IsBlock
<1>5. \A at, V : Knows(at, V)' <=> Knows(at, V)
  BY <1>3, <1>4, SameCells DEF Knows
<1> QED  BY <1>1, <1>2, <1>5 DEF SearchOK

LEMMA SameSources ==
  ASSUME UNCHANGED <<options, planes, pose>>
  PROVE  \A i : Sources(i)' = Sources(i)
BY SameCells DEF Sources

LEMMA SameResults ==
  ASSUME UNCHANGED <<options, planes, pose>>
  PROVE  /\ \A rows, f, l : InOrder(rows, f, l)' <=> InOrder(rows, f, l)
         /\ \A cnt, f, l : CountsOK(cnt, f, l)' <=> CountsOK(cnt, f, l)
<1>1. \A rows, i, c, s : Together(rows, i, c, s)' <=> Together(rows, i, c, s)
  BY SameCells DEF Together
<1>2. \A rows, f, l : InOrder(rows, f, l)' <=> InOrder(rows, f, l)
  BY <1>1, SameCells, SameSources DEF InOrder
<1>3. \A i : (Lacks(i)' <=> Lacks(i)) /\ (Met(i)' <=> Met(i))
  BY SameCells, SameSources DEF Lacks, Met
<1>4. \A k : Tally(k)' = Tally(k)
  BY <1>3, SameCells DEF Tally
<1>5. Hits' = Hits
  BY <1>3 DEF Hits
<1>6. \A cnt, f, l : CountsOK(cnt, f, l)' <=> CountsOK(cnt, f, l)
  BY <1>4, <1>5 DEF CountsOK
<1> QED  BY <1>2, <1>6

LEMMA SameThread ==
  ASSUME UNCHANGED <<options, planes, pose>>
  PROVE  \A th, f, n : ThreadOK(th, f, n)' <=> ThreadOK(th, f, n)
<1>1. \A th, n : Front(th, n)' = Front(th, n)
  BY DEF Front
<1> QED  BY <1>1, SameCells, SameSearch, SameResults DEF ThreadOK

-----------------------------------------------------------------------------
(* A thread goes on.                                                       *)

\* What a thread is after the cell at hand.
After(th, t, prefer) ==
  LET lk == Looked(th.at, Tagged(th.at), prefer)
  IN  IF Over(th.at, Tagged(th.at)) THEN Finished(th, t, lk)
      ELSE [th EXCEPT !.pc = "visit", !.at = Onward(lk)]

LEMMA NotIdle == ASSUME NEW at \in Place, at.i \in 1..N PROVE at # Idle
<1>1. at.i # 0
  OBVIOUS
<1>2. Idle.i = 0
  BY DEF Idle
<1> QED  BY <1>1, <1>2

LEMMA InShare ==
  ASSUME NEW t \in 1..Threads, NEW i \in ShareStart(t)..(ShareStart(t + 1) - 1)
  PROVE  /\ i \in 1..N /\ i \in Int
         /\ ShareStart(t) \in Nat /\ ShareStart(t + 1) \in Nat
         /\ ShareStart(t) >= 1 /\ ShareStart(t + 1) <= N + 1
<1>1. t \in 1..(Threads + 1) /\ t + 1 \in 1..(Threads + 1) /\ Threads + 1 \in 1..(Threads + 1)
  BY ScanFacts
<1>2. t + 1 <= Threads + 1
  BY ScanFacts
<1>3. /\ ShareStart(t) \in Nat /\ ShareStart(t) >= 1 /\ ShareStart(t + 1) \in Nat
      /\ ShareStart(Threads + 1) = N + 1
  BY <1>1, ShareFacts
<1>4. ShareStart(t + 1) <= ShareStart(Threads + 1)
  BY <1>1, <1>2, ShareFacts
<1> QED  BY <1>3, <1>4, ScanFacts

LEMMA AfterStep ==
  ASSUME World, NEW t \in 1..Threads, NEW th,
         ThreadOK(th, ShareStart(t), ShareStart(t + 1)), th.at # Idle,
         NEW prefer, Choice(th.at, prefer)
  PROVE  LET new == After(th, t, prefer) IN
         /\ ThreadOK(new, ShareStart(t), ShareStart(t + 1)) /\ new.pc = "visit"
         /\ new.at # Idle =>
              \/ new.at.i = th.at.i /\ Before(new.at) = Before(th.at) \cup {th.at.c}
              \/ new.at.i = th.at.i + 1 /\ Before(new.at) = {}
<1> DEFINE f == ShareStart(t)
           n == ShareStart(t + 1)
           at == th.at
           i == th.at.i
           lk == Looked(at, Tagged(at), prefer)
           new == After(th, t, prefer)
<1>1. /\ th \in Thread /\ i \in f..(n - 1) /\ SearchOK(at)
      /\ InOrder(th.rows, f, Front(th, n) - 1) /\ CountsOK(th.counts, f, Front(th, n) - 1)
  BY DEF ThreadOK
<1>2. /\ i \in 1..N /\ i \in Int /\ f \in Nat /\ n \in Nat /\ n <= N + 1 /\ f >= 1
  BY <1>1, InShare
<1>3. /\ th.rows \in Seq(Row) /\ th.counts \in [Counters -> Nat] /\ at \in Place
      /\ th.pc \in {"visit", "count", "exchange"}
  BY <1>1 DEF Thread
<1>4. SearchAt(at)
  BY <1>1, <1>2, <1>3 DEF SearchAt
<1>5. Front(th, n) = i
  BY DEF Front
<1>6. InOrder(th.rows, f, i - 1) /\ CountsOK(th.counts, f, i - 1)
  BY <1>1, <1>5
<1> HIDE DEF f, n
<1>7. CASE ~Over(at, Tagged(at))
  <2> DEFINE nx == Onward(lk)
  <2>1. SearchAt(nx) /\ nx.i = i /\ Before(nx) = Before(at) \cup {at.c}
    BY <1>4, <1>7, OnwardStep
  <2>2. new = [th EXCEPT !.pc = "visit", !.at = nx]
    BY <1>7 DEF After
  <2> HIDE DEF nx, new, lk
  <2>3. nx \in Place /\ nx.i \in 1..N /\ SearchOK(nx)
    BY <2>1 DEF SearchAt
  <2>4. nx # Idle
    BY <2>3, NotIdle
  <2>5. /\ new.pc = "visit" /\ new.at = nx /\ new.rows = th.rows /\ new.counts = th.counts /\ new \in Thread
    BY <1>1, <2>2, <2>3 DEF Thread
  <2>6. Front(new, n) = i
    BY <2>1, <2>4, <2>5 DEF Front
  <2>7. ThreadOK(new, f, n)
    BY <1>1, <1>6, <2>1, <2>3, <2>4, <2>5, <2>6 DEF ThreadOK
  <2> QED  BY <2>1, <2>5, <2>7 DEF new, f, n
<1>8. CASE Over(at, Tagged(at))
  <2> DEFINE nx == IF i + 1 < n THEN Begin(i + 1) ELSE Idle
             rows == th.rows \o lk.best
             cnt == Summed(th.counts, Once(lk))
  <2>1. SearchedOut(lk)
    BY <1>4, <1>8, OverStep
  <2>2. lk.i = i
    <3>1. Tagged(at) \in Seq(Row)
      BY <1>1, <1>2, <1>3, TaggedFacts DEF SearchOK
    <3>2. prefer \in BOOLEAN
      BY ChoiceType
    <3> QED  BY <1>3, <3>1, <3>2, LookedType
  <2> HIDE DEF lk
  <2>3. lk.best \in Seq(Row)
    BY <2>1 DEF SearchedOut, Place
  <2>4. new = [pc |-> "visit", at |-> nx, rows |-> rows, counts |-> cnt]
    <3>1. new = Finished(th, t, lk)
      BY <1>8 DEF After, lk
    <3>2. Once(lk) = [k \in Counters |-> IF Bumped(lk, k) THEN 1 ELSE 0]
      BY DEF Once
    <3>3. cnt = [k \in Counters |-> th.counts[k] + (IF Bumped(lk, k) THEN 1 ELSE 0)]
      BY <3>2 DEF Summed
    <3> HIDE DEF new, cnt
    <3> QED  BY <2>2, <3>1, <3>3 DEF Finished, n
  <2> HIDE DEF new, rows, cnt
  <2>5. InOrder(rows, f, i)
    <3>1. InOrder(lk.best, i - 1 + 1, i)
      <4>1. InOrder(lk.best, i, i)
        BY <2>1, <2>2, BlockInOrder
      <4>2. i - 1 + 1 = i
        BY <1>2
      <4> QED  BY <4>1, <4>2
    <3>2. f \in Int /\ i - 1 \in Int /\ f <= i - 1 + 1 /\ i - 1 <= i
      BY <1>1, <1>2
    <3> QED  BY <1>2, <1>3, <1>6, <2>3, <3>1, <3>2, JoinInOrder DEF rows
  <2>6. CountsOK(cnt, f, i) /\ cnt \in [Counters -> Nat]
    <3>1. Once(lk) \in [Counters -> Nat] /\ CountsOK(Once(lk), i - 1 + 1, i)
      <4>1. Once(lk) \in [Counters -> Nat] /\ CountsOK(Once(lk), i, i)
        BY <2>1, <2>2, OnceCounts
      <4>2. i - 1 + 1 = i
        BY <1>2
      <4> QED  BY <4>1, <4>2
    <3>2. f \in Int /\ i - 1 \in Int /\ f <= i - 1 + 1 /\ i - 1 <= i
      BY <1>1, <1>2
    <3> QED  BY <1>2, <1>3, <1>6, <3>1, <3>2, JoinCounts DEF cnt
  <2>7. rows \in Seq(Row)
    BY <1>3, <2>3, ConcatFacts DEF rows
  <2>8. CASE i + 1 < n
    <3>1. i + 1 \in 1..N /\ i + 1 \in f..(n - 1)
      BY <1>1, <1>2, <2>8, ScanFacts
    <3>2. SearchAt(Begin(i + 1)) /\ Begin(i + 1).i = i + 1 /\ Before(Begin(i + 1)) = {}
      BY <3>1, BeginStep
    <3>3. nx = Begin(i + 1)
      BY <2>8
    <3> HIDE DEF nx
    <3>4. nx \in Place /\ nx.i \in 1..N /\ SearchOK(nx) /\ nx.i = i + 1 /\ Before(nx) = {}
      BY <3>1, <3>2, <3>3 DEF SearchAt
    <3>5. nx # Idle
      BY <3>4, NotIdle
    <3>6. new.pc = "visit" /\ new.at = nx /\ new.rows = rows /\ new.counts = cnt /\ new \in Thread
      BY <2>4, <2>6, <2>7, <3>4 DEF Thread
    <3>7. Front(new, n) = i + 1 /\ Front(new, n) - 1 = i
      BY <1>2, <3>4, <3>5, <3>6 DEF Front
    <3>8. ThreadOK(new, f, n)
      BY <2>5, <2>6, <3>1, <3>4, <3>6, <3>7 DEF ThreadOK
    <3> QED  BY <3>4, <3>6, <3>8 DEF new, f, n
  <2>9. CASE ~(i + 1 < n)
    <3>1. nx = Idle /\ n - 1 = i
      BY <1>1, <1>2, <2>9
    <3> HIDE DEF nx
    <3>2. new.pc = "visit" /\ new.at = Idle /\ new.rows = rows /\ new.counts = cnt /\ new \in Thread
      BY <2>4, <2>6, <2>7, <3>1 DEF Thread
    <3>3. Front(new, n) - 1 = i
      BY <3>1, <3>2 DEF Front
    <3>4. ThreadOK(new, f, n)
      BY <2>5, <2>6, <3>2, <3>3 DEF ThreadOK
    <3> QED  BY <3>2, <3>4 DEF new, f, n
  <2> QED  BY <2>8, <2>9
<1> QED  BY <1>7, <1>8

LEMMA PastStays ==
  ASSUME NEW e, NEW c, NEW a, NEW b, NEW n \in Int, a.i \in Int, b.i \in Int, b.i < n, Past(e, c, a, n),
         \/ b.i = a.i /\ Before(a) \subseteq Before(b)
         \/ b.i = a.i + 1
  PROVE  Past(e, c, b, n)
<1>1. (b.i + 1)..(n - 1) \subseteq (a.i + 1)..(n - 1)
  OBVIOUS
<1>2. b.i = a.i + 1 => e.i # b.i
  <2>1. b.i = a.i + 1 => b.i \in (a.i + 1)..(n - 1)
    OBVIOUS
  <2> QED  BY <2>1 DEF Past
<1>3. b.i = a.i + 1 => b.i # a.i
  OBVIOUS
<1> QED  BY <1>1, <1>2, <1>3 DEF Past

-----------------------------------------------------------------------------
(* The steps of a thread.                                                  *)

LEMMA BuildWorld == ASSUME BuildTypeOK PROVE World
BY DEF BuildTypeOK, World

\* What holds of a thread that is at a point.
LEMMA Standing ==
  ASSUME BuildInv, phase = "building", NEW t \in 1..Threads, threads[t].at # Idle
  PROVE  /\ World /\ merged = 0
         /\ ThreadOK(threads[t], ShareStart(t), ShareStart(t + 1))
         /\ threads[t] \in Thread /\ threads[t].at \in Place
         /\ threads[t].at.i \in 1..N /\ threads[t].at.i \in Int /\ SearchAt(threads[t].at)
         /\ threads[t].at.i \in ShareStart(t)..(ShareStart(t + 1) - 1)
         /\ threads[t].at.c \in Int
<1>1. World
  BY BuildWorld DEF BuildInv
<1>2. merged = 0
  <2>1. merged \in Nat /\ ~(merged > 0)
    BY DEF BuildInv, BuildTypeOK, MergeInv
  <2> QED  BY <2>1
<1>3. ThreadOK(threads[t], ShareStart(t), ShareStart(t + 1))
  BY DEF BuildInv, ThreadsInv
<1>4. /\ threads[t] \in Thread /\ threads[t].at.i \in ShareStart(t)..(ShareStart(t + 1) - 1)
      /\ SearchOK(threads[t].at)
  BY <1>3 DEF ThreadOK
<1>5. threads[t].at \in Place /\ threads[t].at.c \in Int
  BY <1>4 DEF Thread, Place
<1>6. threads[t].at.i \in 1..N /\ threads[t].at.i \in Int
  BY <1>4, InShare
<1>7. SearchAt(threads[t].at)
  BY <1>1, <1>4, <1>5, <1>6 DEF SearchAt
<1> QED  BY <1>1, <1>2, <1>3, <1>4, <1>5, <1>6, <1>7

LEMMA ThreadUpdate ==
  ASSUME BuildInv, phase = "building", NEW t \in 1..Threads, threads[t].at # Idle, UnchangedByThread,
         NEW new, threads' = [threads EXCEPT ![t] = new], ThreadOK(new, ShareStart(t), ShareStart(t + 1))
  PROVE  /\ ThreadsInv' /\ MergeInv'
         /\ threads'[t] = new /\ \A u \in 1..Threads : u # t => threads'[u] = threads[u]
<1>1. /\ threads = [u \in 1..Threads |-> threads[u]]
      /\ \A u \in 1..Threads : ThreadOK(threads[u], ShareStart(u), ShareStart(u + 1))
  BY DEF BuildInv, ThreadsInv
<1>2. threads' = [u \in 1..Threads |-> IF u = t THEN new ELSE threads[u]]
  BY <1>1
<1>3. \A u \in 1..Threads : threads'[u] = IF u = t THEN new ELSE threads[u]
  BY <1>2
<1>4. UNCHANGED <<options, planes, pose, phase, merged, residuals, counts>>
  BY DEF UnchangedByThread
<1>5. \A u \in 1..Threads : ThreadOK(threads'[u], ShareStart(u), ShareStart(u + 1))
  BY <1>1, <1>3
<1>6. \A th, f, n : ThreadOK(th, f, n)' <=> ThreadOK(th, f, n)
  BY <1>4, SameThread
<1>7. threads' = [u \in 1..Threads |-> threads'[u]]
  BY <1>2
<1>8. ThreadsInv'
  BY <1>5, <1>6, <1>7 DEF ThreadsInv, ShareStart
<1>9. merged = 0 /\ merged < Threads
  BY Standing DEF BuildInv, MergeInv
<1>10. MergeInv'
  BY <1>4, <1>9 DEF MergeInv
<1> QED  BY <1>3, <1>8, <1>10

\* The other threads stand still, and this one has moved on, if at all.
Progress(t) ==
  /\ \A u \in 1..Threads : u # t => threads'[u] = threads[u]
  /\ threads'[t].at # Idle =>
       /\ threads'[t].at.i \in Int /\ threads'[t].at.i < ShareStart(t + 1)
       /\ \/ /\ threads'[t].at.i = threads[t].at.i
             /\ Before(threads[t].at) \subseteq Before(threads'[t].at)
          \/ threads'[t].at.i = threads[t].at.i + 1

\* The search is done with the cell at hand.
LEMMA SearchedStep ==
  ASSUME BuildInv, phase = "building", NEW t \in 1..Threads, threads[t].at # Idle, UnchangedByThread,
         Searched(t, Tagged(threads[t].at))
  PROVE  /\ ThreadsInv' /\ MergeInv'
         /\ threads'[t].pc = "visit" /\ Progress(t)
         /\ threads'[t].at # Idle =>
              \/ threads'[t].at.i = threads[t].at.i /\ threads[t].at.c \in Before(threads'[t].at)
              \/ threads'[t].at.i = threads[t].at.i + 1
<1> DEFINE th == threads[t]
           at == th.at
<1>1. PICK prefer \in IF Tagged(at) = <<>> THEN {FALSE} ELSE Preferred(at.best, Tagged(at)) :
        threads' = [threads EXCEPT ![t] = After(th, t, prefer)]
  BY DEF Searched, After
<1>2. Choice(at, prefer)
  BY DEF Choice
<1> DEFINE new == After(th, t, prefer)
<1>3. /\ ThreadOK(new, ShareStart(t), ShareStart(t + 1)) /\ new.pc = "visit"
      /\ new.at # Idle =>
           \/ new.at.i = at.i /\ Before(new.at) = Before(at) \cup {at.c}
           \/ new.at.i = at.i + 1 /\ Before(new.at) = {}
  BY <1>2, Standing, AfterStep
<1> HIDE DEF new
<1>4. /\ ThreadsInv' /\ MergeInv'
      /\ threads'[t] = new /\ \A u \in 1..Threads : u # t => threads'[u] = threads[u]
  BY <1>1, <1>3, ThreadUpdate DEF new
<1>5. new.at # Idle => new.at.i \in Int /\ new.at.i < ShareStart(t + 1)
  <2>1. new.at # Idle => new.at.i \in ShareStart(t)..(ShareStart(t + 1) - 1)
    BY <1>3 DEF ThreadOK
  <2> QED  BY <2>1, InShare
<1>6. Progress(t)
  BY <1>3, <1>4, <1>5 DEF Progress
<1> QED  BY <1>3, <1>4, <1>6

\* A thread that only notes something about the statistics stays where it is.
Noted(th, pc, seen, sum) == [th EXCEPT !.pc = pc, !.at = [th.at EXCEPT !.seen = seen, !.sum = sum]]

LEMMA NotedStep ==
  ASSUME BuildInv, phase = "building", NEW t \in 1..Threads, threads[t].at # Idle, Shared(t),
         NEW seen \in SUBSET Entry, NEW sum \in Int, NEW pc \in {"count", "exchange"}
  PROVE  LET new == Noted(threads[t], pc, seen, sum) IN
         /\ ThreadOK(new, ShareStart(t), ShareStart(t + 1)) /\ new.pc = pc
         /\ new.at # Idle /\ new.at.i = threads[t].at.i /\ new.at.c = threads[t].at.c
         /\ Before(new.at) = Before(threads[t].at)
<1> DEFINE b == [threads[t].at EXCEPT !.seen = seen, !.sum = sum]
           new == Noted(threads[t], pc, seen, sum)
           th == threads[t]
           at == th.at
           f == ShareStart(t)
           n == ShareStart(t + 1)
<1>1. /\ World /\ th \in Thread /\ at \in Place /\ at.i \in 1..N /\ at.i \in f..(n - 1)
      /\ ThreadOK(th, f, n) /\ SearchOK(at)
  BY Standing DEF SearchAt
<1>2. b \in Place
  BY <1>1 DEF Place
<1>3. /\ b.i = at.i /\ b.c = at.c /\ b.tier = at.tier /\ b.left = at.left /\ b.best = at.best
      /\ b.near = at.near /\ b.base = at.base /\ b.reached = at.reached /\ b.rejected = at.rejected
  BY <1>1 DEF Place
<1>10. options.empirical \/ b.seen = {}
  BY DEF Shared
<1> HIDE DEF b
<1>4. options.empirical /\ Accepts(at.i, at.c)
  BY DEF Shared, CellOf
<1>5. SearchOK(b) /\ Before(b) = Before(at)
  <2>1. Before(b) = Before(at)
    BY <1>3 DEF Before
  <2>2. PlaceOK(b)
    BY <1>1, <1>3, <1>4, <2>1 DEF SearchOK, PlaceOK
  <2>3. Knows(b, Before(b))
    BY <1>1, <1>3, <2>1 DEF SearchOK, Knows
  <2> QED  BY <2>1, <2>2, <2>3 DEF SearchOK
<1>6. b # Idle
  BY <1>1, <1>2, <1>3, NotIdle
<1>7. new \in Thread /\ new.pc = pc /\ new.at = b /\ new.rows = th.rows /\ new.counts = th.counts
  BY <1>1, <1>2 DEF Thread, Noted, b
<1> HIDE DEF new
<1>8. Front(new, n) = Front(th, n)
  BY <1>3, <1>6, <1>7 DEF Front
<1>9. ThreadOK(new, f, n)
  BY <1>1, <1>3, <1>4, <1>5, <1>6, <1>7, <1>8 DEF ThreadOK
<1> QED  BY <1>3, <1>5, <1>6, <1>7, <1>9 DEF new

-----------------------------------------------------------------------------
(* The statistics.                                                         *)

LEMMA PastUnmoved ==
  ASSUME UNCHANGED <<options, planes, pose>>
  PROVE  \A e, c, at, n : Past(e, c, at, n)' <=> Past(e, c, at, n)
BY SameSearch DEF Past

\* What a step of a thread leaves of a history entry.
LEMMA EntryStays ==
  ASSUME BuildInv, phase = "building", NEW t \in 1..Threads, threads[t].at # Idle, UnchangedByThread,
         Progress(t), NEW e, NEW c,
         \A u \in 1..Threads : threads[u].at # Idle => Past(e, c, threads[u].at, ShareStart(u + 1))
  PROVE  \A u \in 1..Threads : threads'[u].at # Idle => Past(e, c, threads'[u].at, ShareStart(u + 1))
<1>2. ASSUME NEW u \in 1..Threads, threads'[u].at # Idle
      PROVE  Past(e, c, threads'[u].at, ShareStart(u + 1))
  <2>1. CASE u # t
    BY <1>2, <2>1 DEF Progress
  <2>2. CASE u = t
    <3>1. /\ threads[t].at.i \in ShareStart(t)..(ShareStart(t + 1) - 1) /\ threads[t].at.i \in Int
      BY Standing
    <3>2. ShareStart(t + 1) \in Int
      BY <3>1, InShare
    <3>3. Past(e, c, threads[t].at, ShareStart(t + 1))
      OBVIOUS
    <3>4. /\ threads'[t].at.i \in Int /\ threads'[t].at.i < ShareStart(t + 1)
          /\ \/ threads'[t].at.i = threads[t].at.i /\ Before(threads[t].at) \subseteq Before(threads'[t].at)
             \/ threads'[t].at.i = threads[t].at.i + 1
      BY <1>2, <2>2 DEF Progress
    <3>5. Past(e, c, threads'[t].at, ShareStart(t + 1))
      BY <3>1, <3>2, <3>3, <3>4, PastStays
    <3> QED  BY <2>2, <3>5
  <2> QED  BY <2>1, <2>2
<1> QED  BY <1>2

LEMMA HistoryStep ==
  ASSUME BuildInv, phase = "building", NEW t \in 1..Threads, threads[t].at # Idle, UnchangedByThread,
         Progress(t), UNCHANGED taken
  PROVE  HistoryInv'
<1>1. UNCHANGED <<planes, phase, builds, taken>>
  BY DEF UnchangedByThread
<1>2. \A c \in DOMAIN planes :
        /\ Single(taken[c])
        /\ \A k \in DOMAIN taken[c] :
             /\ taken[c][k].build <= builds
             /\ taken[c][k].build = builds =>
                  \A u \in 1..Threads : threads[u].at # Idle =>
                    Past(taken[c][k], c, threads[u].at, ShareStart(u + 1))
  BY DEF BuildInv, HistoryInv
<1>3. \A c \in DOMAIN planes : \A k \in DOMAIN taken[c] :
        taken[c][k].build = builds =>
          \A u \in 1..Threads : threads'[u].at # Idle =>
            Past(taken[c][k], c, threads'[u].at, ShareStart(u + 1))
  <2> TAKE c \in DOMAIN planes
  <2> TAKE k \in DOMAIN taken[c]
  <2> HAVE taken[c][k].build = builds
  <2>1. PICK e : e = taken[c][k]
    OBVIOUS
  <2>2. \A u \in 1..Threads : threads[u].at # Idle => Past(e, c, threads[u].at, ShareStart(u + 1))
    BY <1>2, <2>1
  <2>3. \A u \in 1..Threads : threads'[u].at # Idle => Past(e, c, threads'[u].at, ShareStart(u + 1))
    BY <2>2, EntryStays
  <2> QED  BY <2>1, <2>3
<1>4. \A e, c, at, n : Past(e, c, at, n)' <=> Past(e, c, at, n)
  BY PastUnmoved DEF UnchangedByThread
<1> QED  BY <1>1, <1>2, <1>3, <1>4 DEF HistoryInv, Single, ShareStart

LEMMA FlightFacts ==
  ASSUME NEW c
  PROVE  IsFiniteSet(InFlight(c)) /\ Cardinality(InFlight(c)) \in Nat
<1>1. InFlight(c) \subseteq 1..Threads
  BY DEF InFlight
<1>2. IsFiniteSet(1..Threads)
  BY ScanFacts, FS_Interval
<1>3. IsFiniteSet(InFlight(c))
  BY <1>1, <1>2, FS_Subset
<1> QED  BY <1>3, FS_CardinalityType

\* What a step of one thread does to the number of residuals between count and sum.
LEMMA FlightStep ==
  ASSUME phase = "building", phase' = "building", NEW t \in 1..Threads,
         \A u \in 1..Threads : u # t => threads'[u] = threads[u], NEW c
  PROVE  LET in  == threads[t].pc = "exchange" /\ threads[t].at.c = c
             now == threads'[t].pc = "exchange" /\ threads'[t].at.c = c
         IN  Cardinality(InFlight(c))' =
               CASE in /\ ~now -> Cardinality(InFlight(c)) - 1
                 [] ~in /\ now -> Cardinality(InFlight(c)) + 1
                 [] OTHER      -> Cardinality(InFlight(c))
<1> DEFINE in  == threads[t].pc = "exchange" /\ threads[t].at.c = c
           now == threads'[t].pc = "exchange" /\ threads'[t].at.c = c
           A == InFlight(c)
           B == InFlight(c)'
<1>1. A = {u \in 1..Threads : threads[u].pc = "exchange" /\ threads[u].at.c = c}
  BY DEF InFlight
<1>2. B = {u \in 1..Threads : threads'[u].pc = "exchange" /\ threads'[u].at.c = c}
  BY DEF InFlight
<1>3. (t \in A <=> in) /\ (t \in B <=> now)
  BY <1>1, <1>2
<1>4. \A u : u # t => (u \in A <=> u \in B)
  BY <1>1, <1>2
<1>5. IsFiniteSet(A) /\ Cardinality(A) \in Nat
  BY FlightFacts
<1>6. Cardinality(InFlight(c))' = Cardinality(B)
  OBVIOUS
<1> HIDE DEF A, B, in, now
<1>7. CASE in /\ ~now
  <2>1. B = A \ {t}
    BY <1>3, <1>4, <1>7
  <2>2. Cardinality(B) = Cardinality(A) - 1
    BY <1>3, <1>5, <1>7, <2>1, FS_RemoveElement
  <2> QED  BY <1>6, <1>7, <2>2 DEF A, in, now
<1>8. CASE ~in /\ now
  <2>1. B = A \cup {t}
    BY <1>3, <1>4, <1>8
  <2>2. Cardinality(B) = Cardinality(A) + 1
    BY <1>3, <1>5, <1>8, <2>1, FS_AddElement
  <2> QED  BY <1>6, <1>8, <2>2 DEF A, in, now
<1>9. CASE in <=> now
  <2>1. B = A
    BY <1>3, <1>4, <1>9
  <2> QED  BY <1>6, <1>9, <2>1 DEF A, in, now
<1> QED  BY <1>7, <1>8, <1>9

-----------------------------------------------------------------------------
(* Each action of a thread keeps the invariant.                            *)

LEMMA SharedCell ==
  ASSUME BuildInv, phase = "building", NEW t \in 1..Threads, threads[t].at # Idle, Shared(t)
  PROVE  /\ CellOf(t) \in DOMAIN planes /\ CellOf(t) = threads[t].at.c /\ RSquared(t) \in Int
         /\ stats[CellOf(t)] \in [n : Nat, sum : Int] /\ taken[CellOf(t)] \in Seq(Entry)
         /\ stats[CellOf(t)].n \in Nat /\ stats[CellOf(t)].sum \in Int
<1>1. World /\ threads[t].at.i \in 1..N /\ threads[t].at.c \in Int
  BY Standing
<1>2. HasPlane(threads[t].at.c)
  BY DEF Shared, CellOf, Accepts
<1>3. CellOf(t) \in DOMAIN planes /\ CellOf(t) = threads[t].at.c /\ RSquared(t) \in Int
  BY <1>1, <1>2, RowFacts DEF CellOf, RSquared, HasPlane
<1>4. stats[CellOf(t)] \in [n : Nat, sum : Int] /\ taken[CellOf(t)] \in Seq(Entry)
  BY <1>3 DEF BuildInv, BuildTypeOK
<1> QED  BY <1>3, <1>4

LEMMA SearchKeeps == ASSUME BuildInv, NEW t \in 1..Threads, Search(t) PROVE BuildInv'
<1>1. /\ phase = "building" /\ phase' = "building" /\ threads[t].at # Idle /\ threads[t].pc = "visit"
      /\ UnchangedByThread /\ UNCHANGED <<stats, taken>> /\ Searched(t, Tagged(threads[t].at))
  BY DEF Search, At, UnchangedByThread
<1>2. UNCHANGED <<options, planes, pose, phase, merged, residuals, counts, builds>>
  BY <1>1 DEF UnchangedByThread
<1>3. BuildTypeOK'
  BY <1>1, <1>2 DEF BuildInv, BuildTypeOK, PlaneOK
<1>4. ThreadsInv' /\ MergeInv' /\ threads'[t].pc = "visit" /\ Progress(t)
  BY <1>1, SearchedStep
<1>5. StatsInv'
  <2>1. \A u \in 1..Threads : u # t => threads'[u] = threads[u]
    BY <1>4 DEF Progress
  <2>2. \A c : Cardinality(InFlight(c))' = Cardinality(InFlight(c))
    BY <1>1, <1>4, <2>1, FlightStep
  <2> QED  BY <1>1, <1>2, <2>2 DEF BuildInv, StatsInv
<1>6. HistoryInv'
  BY <1>1, <1>4, HistoryStep
<1> QED  BY <1>3, <1>4, <1>5, <1>6 DEF BuildInv

LEMMA NotedKeeps ==
  ASSUME BuildInv, phase = "building", NEW t \in 1..Threads, threads[t].at # Idle, Shared(t),
         UnchangedByThread,
         NEW seen \in SUBSET Entry, NEW sum \in Int, NEW pc \in {"count", "exchange"},
         threads' = [threads EXCEPT ![t] = Noted(threads[t], pc, seen, sum)]
  PROVE  /\ ThreadsInv' /\ MergeInv' /\ Progress(t)
         /\ threads'[t].pc = pc /\ threads'[t].at.c = threads[t].at.c
<1> DEFINE new == Noted(threads[t], pc, seen, sum)
<1>1. /\ ThreadOK(new, ShareStart(t), ShareStart(t + 1)) /\ new.pc = pc
      /\ new.at # Idle /\ new.at.i = threads[t].at.i /\ new.at.c = threads[t].at.c
      /\ Before(new.at) = Before(threads[t].at)
  BY NotedStep
<1> HIDE DEF new
<1>2. /\ ThreadsInv' /\ MergeInv'
      /\ threads'[t] = new /\ \A u \in 1..Threads : u # t => threads'[u] = threads[u]
  BY <1>1, ThreadUpdate DEF new
<1>3. threads[t].at.i \in ShareStart(t)..(ShareStart(t + 1) - 1)
  BY Standing
<1>4. threads[t].at.i \in Int /\ threads[t].at.i < ShareStart(t + 1)
  BY <1>3, InShare
<1>5. Progress(t)
  BY <1>1, <1>2, <1>4 DEF Progress
<1> QED  BY <1>1, <1>2, <1>5

LEMMA WeighKeeps == ASSUME BuildInv, NEW t \in 1..Threads, Weigh(t) PROVE BuildInv'
<1> DEFINE seen == IF stats[CellOf(t)].n >= MinPoints THEN Entries(taken[CellOf(t)]) ELSE {}
           sum == threads[t].at.sum
<1>1. /\ phase = "building" /\ phase' = "building" /\ threads[t].at # Idle /\ threads[t].pc = "visit"
      /\ UnchangedByThread /\ UNCHANGED <<stats, taken>> /\ Shared(t)
      /\ threads' = [threads EXCEPT ![t].pc = "count", ![t].at.seen = seen]
  BY DEF Weigh, At, UnchangedByThread
<1>2. UNCHANGED <<options, planes, pose, phase, merged, residuals, counts, builds>>
  BY <1>1 DEF UnchangedByThread
<1>3. BuildTypeOK'
  BY <1>1, <1>2 DEF BuildInv, BuildTypeOK, PlaneOK
<1>4. seen \in SUBSET Entry
  <2>1. taken[CellOf(t)] \in Seq(Entry)
    BY <1>1, SharedCell
  <2>2. Entries(taken[CellOf(t)]) \in SUBSET Entry
    BY <2>1, SeqFacts DEF Entries
  <2> QED  BY <2>2
<1>5. threads[t] \in Thread /\ threads[t].at \in Place /\ sum \in Int
  BY <1>1, Standing DEF Place
<1> HIDE DEF seen
<1>6. threads' = [threads EXCEPT ![t] = Noted(threads[t], "count", seen, sum)]
  <2> DEFINE b == [threads[t].at EXCEPT !.seen = seen, !.sum = sum]
             new == Noted(threads[t], "count", seen, sum)
  <2>1. b = [threads[t].at EXCEPT !.seen = seen]
    BY <1>5 DEF Place
  <2>2. new = [threads[t] EXCEPT !.pc = "count", !.at = b]
    BY DEF Noted
  <2> HIDE DEF b, new
  <2>3. threads' = [threads EXCEPT ![t] = new]
    BY <1>1, <1>5, <2>1, <2>2 DEF Thread
  <2> QED  BY <2>3 DEF new
<1>7. /\ ThreadsInv' /\ MergeInv' /\ Progress(t)
      /\ threads'[t].pc = "count" /\ threads'[t].at.c = threads[t].at.c
  BY <1>1, <1>4, <1>5, <1>6, NotedKeeps, ZenonT(30)
<1>8. StatsInv'
  <2>1. \A c : Cardinality(InFlight(c))' = Cardinality(InFlight(c))
    BY <1>1, <1>7, FlightStep DEF Progress
  <2> QED  BY <1>1, <1>2, <2>1 DEF BuildInv, StatsInv
<1>9. HistoryInv'
  BY <1>1, <1>7, HistoryStep
<1> QED  BY <1>3, <1>7, <1>8, <1>9 DEF BuildInv

LEMMA CountKeeps == ASSUME BuildInv, NEW t \in 1..Threads, Count(t) PROVE BuildInv'
<1>0. PICK c : c = CellOf(t)
  OBVIOUS
<1> DEFINE seen == threads[t].at.seen
           sum == stats[c].sum
<1>1. /\ phase = "building" /\ phase' = "building" /\ threads[t].at # Idle /\ threads[t].pc = "count"
      /\ UnchangedByThread /\ UNCHANGED taken
      /\ threads' = [threads EXCEPT ![t].pc = "exchange", ![t].at.sum = sum]
      /\ stats' = [stats EXCEPT ![c].n = @ + 1]
  BY <1>0 DEF Count, At, UnchangedByThread
<1>2. UNCHANGED <<options, planes, pose, phase, merged, residuals, counts, builds>>
  BY <1>1 DEF UnchangedByThread
<1>3. /\ threads[t] \in Thread /\ threads[t].at \in Place /\ seen \in SUBSET Entry
      /\ ThreadOK(threads[t], ShareStart(t), ShareStart(t + 1))
  BY <1>1, Standing DEF Place
<1>4. Shared(t)
  BY <1>1, <1>3 DEF ThreadOK, Shared, CellOf
<1>5. /\ c \in DOMAIN planes /\ c = threads[t].at.c /\ stats[c] \in [n : Nat, sum : Int]
      /\ stats[c].n \in Nat /\ sum \in Int
  BY <1>0, <1>1, <1>4, SharedCell
<1>6. /\ DOMAIN stats = DOMAIN planes /\ DOMAIN stats' = DOMAIN stats
      /\ stats'[c] = [stats[c] EXCEPT !.n = stats[c].n + 1]
      /\ \A d \in DOMAIN planes : d # c => stats'[d] = stats[d]
  <2>1. DOMAIN stats = DOMAIN planes
    BY DEF BuildInv, BuildTypeOK
  <2> QED  BY <1>1, <1>5, <2>1
<1>7. stats'[c] \in [n : Nat, sum : Int] /\ stats'[c].n = stats[c].n + 1 /\ stats'[c].sum = sum
  BY <1>5, <1>6
<1>8. BuildTypeOK'
  <2>1. \A d \in DOMAIN planes : stats'[d] \in [n : Nat, sum : Int] /\ taken[d] \in Seq(Entry)
    BY <1>6, <1>7 DEF BuildInv, BuildTypeOK
  <2> QED  BY <1>1, <1>2, <1>6, <2>1 DEF BuildInv, BuildTypeOK, PlaneOK
<1>9. threads' = [threads EXCEPT ![t] = Noted(threads[t], "exchange", seen, sum)]
  <2> DEFINE b == [threads[t].at EXCEPT !.seen = seen, !.sum = sum]
             new == Noted(threads[t], "exchange", seen, sum)
  <2>1. b = [threads[t].at EXCEPT !.sum = sum]
    BY <1>3 DEF Place
  <2>2. new = [threads[t] EXCEPT !.pc = "exchange", !.at = b]
    BY DEF Noted
  <2> HIDE DEF b, new, sum
  <2>3. threads' = [threads EXCEPT ![t] = new]
    BY <1>1, <1>3, <2>1, <2>2 DEF Thread
  <2> QED  BY <2>3 DEF new
<1>10. /\ ThreadsInv' /\ MergeInv' /\ Progress(t)
       /\ threads'[t].pc = "exchange" /\ threads'[t].at.c = c
  <2>1. phase = "building" /\ threads[t].at # Idle /\ UnchangedByThread
    BY <1>1
  <2>2. seen \in SUBSET Entry /\ sum \in Int
    BY <1>3, <1>5
  <2> HIDE DEF sum, seen
  <2>3. /\ ThreadsInv' /\ MergeInv' /\ Progress(t)
        /\ threads'[t].pc = "exchange" /\ threads'[t].at.c = threads[t].at.c
    BY <1>4, <1>9, <2>1, <2>2, NotedKeeps
  <2> QED  BY <1>5, <2>3
<1>11. StatsInv'
  <2>0. /\ phase = "building" /\ phase' = "building" /\ threads[t].pc = "count" /\ threads[t].at.c = c
        /\ threads'[t].pc = "exchange" /\ threads'[t].at.c = c
    BY <1>1, <1>5, <1>10
  <2>1. \A u \in 1..Threads : u # t => threads'[u] = threads[u]
    BY <1>10 DEF Progress
  <2>2. Cardinality(InFlight(c))' = Cardinality(InFlight(c)) + 1
    BY <2>0, <2>1, FlightStep
  <2>3. \A d \in DOMAIN planes : d # c => Cardinality(InFlight(d))' = Cardinality(InFlight(d))
    BY <2>0, <2>1, FlightStep
  <2>4. \A d \in DOMAIN planes : /\ stats[d].n = Len(taken[d]) + Cardinality(InFlight(d))
                                 /\ stats[d].sum = Total(taken[d])
    BY DEF BuildInv, StatsInv
  <2>5. stats'[c].n = Len(taken[c]) + Cardinality(InFlight(c))' /\ stats'[c].sum = Total(taken[c])
    <3>1. Len(taken[c]) \in Nat /\ Cardinality(InFlight(c)) \in Nat
      BY <1>5, FlightFacts, SeqFacts DEF BuildInv, BuildTypeOK
    <3>2. stats[c].n = Len(taken[c]) + Cardinality(InFlight(c)) /\ stats[c].sum = Total(taken[c])
      BY <1>5, <2>4
    <3> QED  BY <1>7, <2>2, <3>1, <3>2
  <2>6. \A d \in DOMAIN planes :
          stats'[d].n = Len(taken[d]) + Cardinality(InFlight(d))' /\ stats'[d].sum = Total(taken[d])
    <3> TAKE d \in DOMAIN planes
    <3>1. CASE d = c
      BY <2>5, <3>1
    <3>2. CASE d # c
      BY <1>6, <2>3, <2>4, <3>2
    <3> QED  BY <3>1, <3>2
  <2> QED  BY <1>1, <1>2, <2>6 DEF StatsInv
<1>12. HistoryInv'
  BY <1>1, <1>10, HistoryStep
<1> QED  BY <1>8, <1>10, <1>11, <1>12 DEF BuildInv

LEMMA RetryKeeps ==
  ASSUME BuildInv, NEW t \in 1..Threads, Exchange(t), ~ExchangeSucceeds(t)
  PROVE  BuildInv'
<1> DEFINE seen == threads[t].at.seen
           sum == stats[CellOf(t)].sum
<1>1. /\ phase = "building" /\ phase' = "building" /\ threads[t].at # Idle /\ threads[t].pc = "exchange"
      /\ UnchangedByThread /\ UNCHANGED <<stats, taken>>
      /\ threads' = [threads EXCEPT ![t].at.sum = sum]
  BY DEF Exchange, At, UnchangedByThread
<1>2. UNCHANGED <<options, planes, pose, phase, merged, residuals, counts, builds>>
  BY <1>1 DEF UnchangedByThread
<1>3. BuildTypeOK'
  BY <1>1, <1>2 DEF BuildInv, BuildTypeOK, PlaneOK
<1>4. /\ threads[t] \in Thread /\ threads[t].at \in Place /\ seen \in SUBSET Entry
      /\ ThreadOK(threads[t], ShareStart(t), ShareStart(t + 1))
  BY <1>1, Standing DEF Place
<1>5. Shared(t)
  BY <1>1, <1>4 DEF ThreadOK, Shared, CellOf
<1>6. sum \in Int
  BY <1>1, <1>5, SharedCell
<1> HIDE DEF sum
<1>7. threads' = [threads EXCEPT ![t] = Noted(threads[t], "exchange", seen, sum)]
  <2> DEFINE b == [threads[t].at EXCEPT !.seen = seen, !.sum = sum]
             new == Noted(threads[t], "exchange", seen, sum)
  <2>1. b = [threads[t].at EXCEPT !.sum = sum]
    BY <1>4 DEF Place
  <2>2. new = [threads[t] EXCEPT !.pc = "exchange", !.at = b]
    BY DEF Noted
  <2> HIDE DEF b, new
  <2>3. new = [threads[t] EXCEPT !.at = b]
    BY <1>1, <1>4, <2>2 DEF Thread
  <2>4. threads' = [threads EXCEPT ![t] = new]
    BY <1>1, <1>4, <2>1, <2>3 DEF Thread
  <2> QED  BY <2>4 DEF new
<1>8. /\ ThreadsInv' /\ MergeInv' /\ Progress(t)
      /\ threads'[t].pc = "exchange" /\ threads'[t].at.c = threads[t].at.c
  <2> HIDE DEF seen
  <2> QED  BY <1>1, <1>4, <1>5, <1>6, <1>7, NotedKeeps
<1>9. StatsInv'
  <2>1. \A c : Cardinality(InFlight(c))' = Cardinality(InFlight(c))
    BY <1>1, <1>8, FlightStep DEF Progress
  <2> QED  BY <1>1, <1>2, <2>1 DEF BuildInv, StatsInv
<1>10. HistoryInv'
  BY <1>1, <1>8, HistoryStep
<1> QED  BY <1>3, <1>8, <1>9, <1>10 DEF BuildInv

\* Two threads never have a point in common.
LEMMA SharesApart ==
  ASSUME NEW t \in 1..Threads, NEW u \in 1..Threads, t # u,
         NEW i \in ShareStart(t)..(ShareStart(t + 1) - 1), NEW j \in ShareStart(u)..(ShareStart(u + 1) - 1)
  PROVE  i # j /\ i \notin (j + 1)..(ShareStart(u + 1) - 1)
<1>1. /\ t \in 1..(Threads + 1) /\ t + 1 \in 1..(Threads + 1)
      /\ u \in 1..(Threads + 1) /\ u + 1 \in 1..(Threads + 1)
  BY ScanFacts
<1>2. /\ ShareStart(t) \in Nat /\ ShareStart(t + 1) \in Nat
      /\ ShareStart(u) \in Nat /\ ShareStart(u + 1) \in Nat
  BY <1>1, ShareFacts
<1>3. CASE t < u
  <2>1. t + 1 <= u
    BY <1>3
  <2>2. ShareStart(t + 1) <= ShareStart(u)
    BY <1>1, <2>1, ShareFacts
  <2> QED  BY <1>2, <2>2
<1>4. CASE u < t
  <2>1. u + 1 <= t
    BY <1>4
  <2>2. ShareStart(u + 1) <= ShareStart(t)
    BY <1>1, <2>1, ShareFacts
  <2> QED  BY <1>2, <2>2
<1> QED  BY <1>3, <1>4

LEMMA DoneHistory ==
  ASSUME BuildInv, phase = "building", NEW t \in 1..Threads, threads[t].at # Idle, UnchangedByThread,
         Progress(t),
         threads'[t].at # Idle =>
           \/ threads'[t].at.i = threads[t].at.i /\ threads[t].at.c \in Before(threads'[t].at)
           \/ threads'[t].at.i = threads[t].at.i + 1,
         NEW c \in DOMAIN planes, c = threads[t].at.c,
         NEW e \in Entry, e.build = builds, e.i = threads[t].at.i,
         taken' = [taken EXCEPT ![c] = Append(taken[c], e)]
  PROVE  HistoryInv'
<1> DEFINE n(u) == ShareStart(u + 1)
           at == threads[t].at
           old == taken[c]
           new == Append(taken[c], e)
<1>1. UNCHANGED <<planes, phase, builds>>
  BY DEF UnchangedByThread
<1>2. \A d \in DOMAIN planes :
        /\ Single(taken[d])
        /\ \A k \in DOMAIN taken[d] :
             /\ taken[d][k].build <= builds
             /\ taken[d][k].build = builds =>
                  \A u \in 1..Threads : threads[u].at # Idle => Past(taken[d][k], d, threads[u].at, n(u))
  BY DEF BuildInv, HistoryInv
<1>3. /\ DOMAIN taken = DOMAIN planes /\ \A d \in DOMAIN planes : taken[d] \in Seq(Entry)
      /\ builds \in Nat
  BY DEF BuildInv, BuildTypeOK
<1>4. /\ taken'[c] = new /\ \A d \in DOMAIN planes : d # c => taken'[d] = taken[d]
  BY <1>3
<1>5. /\ old \in Seq(Entry) /\ Len(old) \in Nat /\ DOMAIN old = 1..Len(old)
      /\ DOMAIN new = 1..(Len(old) + 1) /\ new[Len(old) + 1] = e
      /\ \A k \in 1..Len(old) : new[k] = old[k]
  BY <1>3, SeqFacts, AppendFacts
<1>6. /\ at.i \in Int /\ at.i \in ShareStart(t)..(n(t) - 1) /\ SearchAt(at) /\ n(t) \in Int
  <2>1. at.i \in Int /\ at.i \in ShareStart(t)..(n(t) - 1) /\ SearchAt(at)
    BY Standing
  <2> QED  BY <2>1, InShare
<1>7. c \notin Before(at)
  BY <1>6, PlaceFacts
<1> HIDE DEF n, new, old
<1>8. Single(new)
  <2>1. \A k \in 1..Len(old) : <<old[k].build, old[k].i>> # <<e.build, e.i>>
    <3> SUFFICES ASSUME NEW k \in 1..Len(old), old[k].build = builds, old[k].i = at.i PROVE FALSE
      OBVIOUS
    <3>1. Past(old[k], c, at, n(t))
      BY <1>2, <1>5 DEF old
    <3> QED  BY <1>7, <3>1 DEF Past
  <2>2. \A k \in 1..(Len(old) + 1) : k \in 1..Len(old) \/ k = Len(old) + 1
    BY <1>5
  <2>3. \A j, k \in 1..Len(old) : j # k => <<old[j].build, old[j].i>> # <<old[k].build, old[k].i>>
    <3>1. Single(old)
      BY <1>2 DEF old
    <3> QED  BY <1>5, <3>1 DEF Single
  <2> SUFFICES ASSUME NEW j \in 1..(Len(old) + 1), NEW k \in 1..(Len(old) + 1), j # k
               PROVE  <<new[j].build, new[j].i>> # <<new[k].build, new[k].i>>
    BY <1>5 DEF Single
  <2>4. CASE j \in 1..Len(old) /\ k \in 1..Len(old)
    BY <1>5, <2>3, <2>4
  <2>5. CASE j \in 1..Len(old) /\ k = Len(old) + 1
    BY <1>5, <2>1, <2>5
  <2>6. CASE j = Len(old) + 1 /\ k \in 1..Len(old)
    BY <1>5, <2>1, <2>6
  <2> QED  BY <2>2, <2>4, <2>5, <2>6
<1>9. \A u \in 1..Threads : threads'[u].at # Idle => Past(e, c, threads'[u].at, n(u))
  <2> TAKE u \in 1..Threads
  <2> HAVE threads'[u].at # Idle
  <2>1. CASE u # t
    <3>1. threads'[u] = threads[u] /\ threads[u].at # Idle
      BY <2>1 DEF Progress
    <3>2. threads[u].at.i \in ShareStart(u)..(n(u) - 1)
      BY <3>1, Standing DEF n
    <3>3. at.i # threads[u].at.i /\ at.i \notin (threads[u].at.i + 1)..(n(u) - 1)
      BY <1>6, <2>1, <3>2, SharesApart DEF n
    <3> QED  BY <3>1, <3>3 DEF Past
  <2>2. CASE u = t
    <3>1. CASE threads'[t].at.i = at.i /\ c \in Before(threads'[t].at)
      <4>1. at.i \notin (at.i + 1)..(n(t) - 1)
        BY <1>6
      <4> QED  BY <2>2, <3>1, <4>1 DEF Past
    <3>2. CASE threads'[t].at.i = at.i + 1
      <4>1. at.i \notin (at.i + 1 + 1)..(n(t) - 1) /\ at.i # at.i + 1
        BY <1>6
      <4> QED  BY <2>2, <3>2, <4>1 DEF Past
    <3> QED  BY <2>2, <3>1, <3>2
  <2> QED  BY <2>1, <2>2
<1>10. \A d \in DOMAIN planes : \A k \in DOMAIN taken[d] :
         taken[d][k].build = builds =>
           \A u \in 1..Threads : threads'[u].at # Idle => Past(taken[d][k], d, threads'[u].at, n(u))
  <2> TAKE d \in DOMAIN planes
  <2> TAKE k \in DOMAIN taken[d]
  <2> HAVE taken[d][k].build = builds
  <2>1. PICK x : x = taken[d][k]
    OBVIOUS
  <2>2. \A u \in 1..Threads : threads[u].at # Idle => Past(x, d, threads[u].at, ShareStart(u + 1))
    BY <1>2, <2>1 DEF n
  <2>3. \A u \in 1..Threads : threads'[u].at # Idle => Past(x, d, threads'[u].at, ShareStart(u + 1))
    BY <2>2, EntryStays
  <2> QED  BY <2>1, <2>3 DEF n
<1>11. \A d \in DOMAIN planes :
         /\ Single(taken'[d])
         /\ \A k \in DOMAIN taken'[d] :
              /\ taken'[d][k].build <= builds
              /\ taken'[d][k].build = builds =>
                   \A u \in 1..Threads : threads'[u].at # Idle => Past(taken'[d][k], d, threads'[u].at, n(u))
  <2> TAKE d \in DOMAIN planes
  <2>1. CASE d # c
    BY <1>2, <1>4, <1>10, <2>1
  <2>2. CASE d = c
    <3> SUFFICES ASSUME NEW k \in DOMAIN new
                 PROVE  /\ new[k].build <= builds
                        /\ new[k].build = builds =>
                             \A u \in 1..Threads : threads'[u].at # Idle => Past(new[k], c, threads'[u].at, n(u))
      BY <1>4, <1>8, <2>2, ZenonT(30)
    <3>1. CASE k \in 1..Len(old)
      BY <1>2, <1>5, <1>10, <3>1 DEF old
    <3>2. CASE k = Len(old) + 1
      BY <1>3, <1>5, <1>9, <3>2
    <3> QED  BY <1>5, <3>1, <3>2
  <2> QED  BY <2>1, <2>2
<1>12. \A x, d, a, m : Past(x, d, a, m)' <=> Past(x, d, a, m)
  BY PastUnmoved DEF UnchangedByThread
<1> QED  BY <1>1, <1>11, <1>12, ZenonT(30) DEF HistoryInv, Single, ShareStart, n

LEMMA ExchangeKeeps == ASSUME BuildInv, NEW t \in 1..Threads, Exchange(t) PROVE BuildInv'
<1>1. CASE ~ExchangeSucceeds(t)
  BY <1>1, RetryKeeps
<1>2. CASE ExchangeSucceeds(t)
  <2>0. PICK c, e : c = CellOf(t) /\ e = [build |-> builds, i |-> threads[t].at.i, r |-> RSquared(t)]
    OBVIOUS
  <2>1. /\ phase = "building" /\ phase' = "building" /\ threads[t].at # Idle /\ threads[t].pc = "exchange"
        /\ UnchangedByThread /\ Searched(t, Tagged(threads[t].at))
        /\ stats' = [stats EXCEPT ![c].sum = threads[t].at.sum + RSquared(t)]
        /\ taken' = [taken EXCEPT ![c] = Append(@, e)]
    BY <1>2, <2>0 DEF Exchange, At, UnchangedByThread
  <2>2. UNCHANGED <<options, planes, pose, phase, merged, residuals, counts, builds>>
    BY <2>1 DEF UnchangedByThread
  <2>3. ThreadOK(threads[t], ShareStart(t), ShareStart(t + 1)) /\ threads[t].at.i \in Int
    BY <2>1, Standing
  <2>4. Shared(t)
    BY <2>1, <2>3 DEF ThreadOK, Shared, CellOf
  <2>5. /\ c \in DOMAIN planes /\ c = threads[t].at.c /\ RSquared(t) \in Int
        /\ stats[c] \in [n : Nat, sum : Int] /\ stats[c].n \in Nat /\ stats[c].sum \in Int
        /\ taken[c] \in Seq(Entry)
    BY <2>0, <2>1, <2>4, SharedCell
  <2>6. e \in Entry /\ e.build = builds /\ e.i = threads[t].at.i /\ e.r = RSquared(t)
    BY <2>0, <2>3, <2>5 DEF Entry, BuildInv, BuildTypeOK
  <2>7. threads[t].at.sum = stats[c].sum
    BY <1>2, <2>0 DEF ExchangeSucceeds
  <2>8. /\ DOMAIN stats = DOMAIN planes /\ DOMAIN taken = DOMAIN planes
        /\ DOMAIN stats' = DOMAIN planes /\ DOMAIN taken' = DOMAIN planes
        /\ stats'[c] = [stats[c] EXCEPT !.sum = stats[c].sum + e.r]
        /\ taken'[c] = Append(taken[c], e)
        /\ \A d \in DOMAIN planes : d # c => stats'[d] = stats[d] /\ taken'[d] = taken[d]
    <3>1. DOMAIN stats = DOMAIN planes /\ DOMAIN taken = DOMAIN planes
      BY DEF BuildInv, BuildTypeOK
    <3> QED  BY <2>1, <2>5, <2>6, <2>7, <3>1
  <2>9. stats'[c] \in [n : Nat, sum : Int] /\ stats'[c].n = stats[c].n /\ stats'[c].sum = stats[c].sum + e.r
    BY <2>5, <2>6, <2>8, SMTT(30)
  <2>10. taken'[c] \in Seq(Entry) /\ Len(taken'[c]) = Len(taken[c]) + 1 /\ Len(taken[c]) \in Nat
         /\ Total(taken'[c]) = Total(taken[c]) + e.r
    <3>1. Append(taken[c], e) \in Seq(Entry) /\ Len(Append(taken[c], e)) = Len(taken[c]) + 1
      BY <2>5, <2>6, AppendFacts
    <3>2. Total(Append(taken[c], e)) = Total(taken[c]) + e.r
      BY <2>5, <2>6, TotalAppend
    <3>3. Len(taken[c]) \in Nat
      BY <2>5, SeqFacts
    <3> QED  BY <2>8, <3>1, <3>2, <3>3
  <2>11. BuildTypeOK'
    <3>1. \A d \in DOMAIN planes : stats'[d] \in [n : Nat, sum : Int] /\ taken'[d] \in Seq(Entry)
      BY <2>8, <2>9, <2>10 DEF BuildInv, BuildTypeOK
    <3> QED  BY <2>2, <2>8, <3>1 DEF BuildInv, BuildTypeOK, PlaneOK
  <2>12. /\ ThreadsInv' /\ MergeInv' /\ threads'[t].pc = "visit" /\ Progress(t)
         /\ threads'[t].at # Idle =>
              \/ threads'[t].at.i = threads[t].at.i /\ threads[t].at.c \in Before(threads'[t].at)
              \/ threads'[t].at.i = threads[t].at.i + 1
    BY <2>1, SearchedStep
  <2>13. StatsInv'
    <3>0. /\ phase = "building" /\ phase' = "building" /\ threads[t].pc = "exchange" /\ threads[t].at.c = c
          /\ threads'[t].pc = "visit"
      BY <2>1, <2>5, <2>12
    <3>1. \A u \in 1..Threads : u # t => threads'[u] = threads[u]
      BY <2>12 DEF Progress
    <3>2. Cardinality(InFlight(c))' = Cardinality(InFlight(c)) - 1
      BY <3>0, <3>1, FlightStep
    <3>3. \A d \in DOMAIN planes : d # c => Cardinality(InFlight(d))' = Cardinality(InFlight(d))
      BY <3>0, <3>1, FlightStep
    <3>4. \A d \in DOMAIN planes : /\ stats[d].n = Len(taken[d]) + Cardinality(InFlight(d))
                                   /\ stats[d].sum = Total(taken[d])
      BY DEF BuildInv, StatsInv
    <3>5. /\ stats'[c].n = Len(taken'[c]) + Cardinality(InFlight(c))'
          /\ stats'[c].sum = Total(taken'[c])
      <4>1. Cardinality(InFlight(c)) \in Nat
        BY FlightFacts
      <4>2. stats[c].n = Len(taken[c]) + Cardinality(InFlight(c)) /\ stats[c].sum = Total(taken[c])
        BY <2>5, <3>4
      <4> QED  BY <2>9, <2>10, <3>2, <4>1, <4>2
    <3>6. \A d \in DOMAIN planes : /\ stats'[d].n = Len(taken'[d]) + Cardinality(InFlight(d))'
                                   /\ stats'[d].sum = Total(taken'[d])
      <4> TAKE d \in DOMAIN planes
      <4>1. CASE d = c
        BY <3>5, <4>1
      <4>2. CASE d # c
        BY <2>8, <3>3, <3>4, <4>2
      <4> QED  BY <4>1, <4>2
    <3>7. \A d : Total(taken[d])' = Total(taken'[d])
      BY DEF Total
    <3> QED  BY <2>2, <3>6, <3>7 DEF StatsInv
  <2>14. taken' = [taken EXCEPT ![c] = Append(taken[c], e)]
    BY <2>1
  <2>15. HistoryInv'
    BY <2>1, <2>5, <2>6, <2>12, <2>14, DoneHistory
  <2> QED  BY <2>11, <2>12, <2>13, <2>15 DEF BuildInv
<1> QED  BY <1>1, <1>2

-----------------------------------------------------------------------------
(* The steps between the builds.                                           *)

LEMMA NoFlight == ASSUME phase # "building" PROVE \A c : InFlight(c) = {}
BY DEF InFlight

\* The tilt matrices of a fit are there whenever the query would decide for the same class.
LEMMA UpdatedFacts ==
  ASSUME options \in OptionSet, NEW plane, NEW fit \in FitSet
  PROVE  Updated(options, plane, fit).level \in Int /\ PlaneOK(Updated(options, plane, fit))
<1> DEFINE e == Floored(options, fit.eig)
           class == ClassifyVoxel(options, fit.n, e)
           new == Fitted(options, plane, fit, e, class)
<1>1. Updated(options, plane, fit) = new
  BY DEF Updated
<1>2. fit.level \in Int
  BY BuildAssumption
<1>3. class # "reject" /\ Hard(options) /\ IsLineVoxel(options, fit.n, e) => class = "line"
  BY DEF ClassifyVoxel
<1> HIDE DEF e, class
<1>4. CASE fit.n < 3 \/ ~fit.solved
  <2>1. new = Voided(plane, fit)
    BY <1>4 DEF Fitted
  <2>2. ~new.isPlane /\ new.level = 0
    BY <2>1 DEF Voided, NoPlane
  <2> QED  BY <1>1, <2>2 DEF PlaneOK
<1>5. CASE ~(fit.n < 3 \/ ~fit.solved) /\ class = "reject"
  <2>1. new = [Voided(plane, fit) EXCEPT !.eig = e]
    BY <1>5 DEF Fitted
  <2>2. ~new.isPlane /\ new.level = 0
    BY <2>1 DEF Voided, NoPlane
  <2> QED  BY <1>1, <2>2 DEF PlaneOK
<1>6. CASE ~(fit.n < 3 \/ ~fit.solved) /\ class # "reject"
  <2>1. new = [isPlane |-> Conditioned(options, fit, e), isLine |-> class = "line", eig |-> e,
               n |-> fit.n, level |-> fit.level, tilt |-> LineTilt(options, class)]
    BY <1>6 DEF Fitted
  <2>2. new.level \in Int /\ new.n = fit.n /\ new.eig = e /\ new.tilt = LineTilt(options, class)
    BY <1>2, <2>1
  <2> HIDE DEF new
  <2>3. PlaneOK(new)
    BY <1>3, <1>6, <2>2 DEF PlaneOK, LineTilt
  <2> QED  BY <1>1, <2>2, <2>3 DEF new
<1> QED  BY <1>4, <1>5, <1>6

LEMMA InitKeeps == ASSUME BuildInit PROVE BuildInv
<1>1. /\ options \in OptionSet /\ DOMAIN planes = {} /\ pose = 0 /\ phase = "idle" /\ merged = 0
      /\ residuals = <<>> /\ counts = NoCounts /\ DOMAIN stats = {} /\ DOMAIN taken = {} /\ builds = 0
  BY DEF BuildInit
<1>2. BuildTypeOK
  <2>1. counts \in [Counters -> Nat] /\ residuals \in Seq(Row)
    BY <1>1 DEF NoCounts
  <2> QED  BY <1>1, <2>1 DEF BuildTypeOK
<1> QED  BY <1>1, <1>2 DEF BuildInv, ThreadsInv, MergeInv, StatsInv, HistoryInv

LEMMA RefitKeeps ==
  ASSUME BuildInv, NEW c \in Cells, NEW fit \in FitSet, Refit(c, fit)
  PROVE  BuildInv'
<1>0. PICK plane, x, s :
        /\ plane = Updated(options, IF c \in DOMAIN planes THEN planes[c] ELSE NoPlane, fit)
        /\ x = IF c \in DOMAIN stats THEN stats[c] ELSE [n |-> 0, sum |-> 0]
        /\ s = IF c \in DOMAIN taken THEN taken[c] ELSE <<>>
  OBVIOUS
<1>1. /\ phase = "idle" /\ planes' = With(planes, c, plane) /\ stats' = With(stats, c, x)
      /\ taken' = With(taken, c, s)
      /\ UNCHANGED <<options, pose, phase, threads, merged, residuals, counts, builds>>
  BY <1>0 DEF Refit
<1>2. /\ DOMAIN planes' = DOMAIN planes \cup {c} /\ planes'[c] = plane
      /\ \A d \in DOMAIN planes : d # c => planes'[d] = planes[d]
  BY <1>1 DEF With
<1>3. /\ DOMAIN stats' = DOMAIN stats \cup {c} /\ stats'[c] = x
      /\ \A d \in DOMAIN stats : d # c => stats'[d] = stats[d]
  BY <1>1 DEF With
<1>4. /\ DOMAIN taken' = DOMAIN taken \cup {c} /\ taken'[c] = s
      /\ \A d \in DOMAIN taken : d # c => taken'[d] = taken[d]
  BY <1>1 DEF With
<1>5. /\ options \in OptionSet /\ builds \in Nat
      /\ DOMAIN planes \subseteq Int /\ DOMAIN stats = DOMAIN planes /\ DOMAIN taken = DOMAIN planes
      /\ \A d \in DOMAIN planes : planes[d].level \in Int /\ PlaneOK(planes[d])
      /\ \A d \in DOMAIN planes : stats[d] \in [n : Nat, sum : Int] /\ taken[d] \in Seq(Entry)
  BY DEF BuildInv, BuildTypeOK
<1>6. plane.level \in Int /\ PlaneOK(plane)
  BY <1>0, <1>5, UpdatedFacts
<1>7. c \in Int
  BY BuildAssumption
<1>8. \A d : Cardinality(InFlight(d)) = 0 /\ Cardinality(InFlight(d))' = 0
  <2>1. Cardinality({}) = 0
    BY FS_EmptySet
  <2>2. \A d : InFlight(d) = {} /\ InFlight(d)' = {}
    BY <1>1 DEF InFlight
  <2> QED  BY <2>1, <2>2
<1>9. \A d \in DOMAIN planes : stats[d].n = Len(taken[d]) /\ stats[d].sum = Total(taken[d])
  <2> TAKE d \in DOMAIN planes
  <2>1. stats[d].n = Len(taken[d]) + Cardinality(InFlight(d)) /\ stats[d].sum = Total(taken[d])
    BY DEF BuildInv, StatsInv
  <2>2. Len(taken[d]) \in Nat
    BY <1>5, SeqFacts
  <2> QED  BY <1>8, <2>1, <2>2
<1>10. /\ x \in [n : Nat, sum : Int] /\ s \in Seq(Entry) /\ Len(s) \in Nat
       /\ x.n = Len(s) /\ x.sum = Total(s)
  <2>1. CASE c \in DOMAIN planes
    <3>1. x = stats[c] /\ s = taken[c]
      BY <1>0, <1>5, <2>1
    <3> QED  BY <1>5, <1>9, <2>1, <3>1, SeqFacts
  <2>2. CASE c \notin DOMAIN planes
    <3>1. x = [n |-> 0, sum |-> 0] /\ s = <<>>
      BY <1>0, <1>5, <2>2
    <3> QED  BY <3>1, TotalEmpty
  <2> QED  BY <2>1, <2>2
<1>11. /\ Single(s)
       /\ \A k \in DOMAIN s : s[k].build <= builds
  <2>1. CASE c \in DOMAIN planes
    <3>1. s = taken[c]
      BY <1>0, <1>5, <2>1
    <3> QED  BY <2>1, <3>1 DEF BuildInv, HistoryInv
  <2>2. CASE c \notin DOMAIN planes
    <3>1. s = <<>>
      BY <1>0, <1>5, <2>2
    <3>2. DOMAIN s = {}
      BY <3>1
    <3> QED  BY <3>2 DEF Single
  <2> QED  BY <2>1, <2>2
<1>12. BuildTypeOK'
  <2>1. \A p : PlaneOK(p)' <=> PlaneOK(p)
    BY <1>1 DEF PlaneOK
  <2>2. \A d \in DOMAIN planes' : planes'[d].level \in Int /\ PlaneOK(planes'[d])
    BY <1>2, <1>5, <1>6
  <2>3. \A d \in DOMAIN planes' : stats'[d] \in [n : Nat, sum : Int] /\ taken'[d] \in Seq(Entry)
    BY <1>2, <1>3, <1>4, <1>5, <1>10
  <2>4. DOMAIN planes' \subseteq Int /\ DOMAIN stats' = DOMAIN planes' /\ DOMAIN taken' = DOMAIN planes'
    BY <1>2, <1>3, <1>4, <1>5, <1>7
  <2> QED  BY <1>1, <2>1, <2>2, <2>3, <2>4 DEF BuildInv, BuildTypeOK
<1>13. StatsInv'
  <2>1. \A d \in DOMAIN planes' : stats'[d].n = Len(taken'[d]) /\ stats'[d].sum = Total(taken'[d])
    BY <1>2, <1>3, <1>4, <1>5, <1>9, <1>10
  <2>2. \A d \in DOMAIN planes' : Len(taken'[d]) \in Nat
    BY <1>2, <1>4, <1>5, <1>10, SeqFacts
  <2>3. \A d \in DOMAIN planes' : Cardinality(InFlight(d))' = 0
    BY <1>8
  <2>4. \A d \in DOMAIN planes' : stats'[d].n = Len(taken'[d]) + Cardinality(InFlight(d))'
    BY <2>1, <2>2, <2>3
  <2>5. \A d : Total(taken[d])' = Total(taken'[d])
    BY DEF Total
  <2> QED  BY <2>1, <2>4, <2>5 DEF StatsInv
<1>14. HistoryInv'
  <2>1. \A d \in DOMAIN planes' : Single(taken'[d]) /\ \A k \in DOMAIN taken'[d] : taken'[d][k].build <= builds
    <3>1. \A d \in DOMAIN planes : Single(taken[d]) /\ \A k \in DOMAIN taken[d] : taken[d][k].build <= builds
      BY DEF BuildInv, HistoryInv
    <3> QED  BY <1>2, <1>4, <1>5, <1>11, <3>1
  <2> QED  BY <1>1, <2>1 DEF HistoryInv, Single
<1>15. ThreadsInv' /\ MergeInv'
  BY <1>1 DEF ThreadsInv, MergeInv
<1> QED  BY <1>12, <1>13, <1>14, <1>15 DEF BuildInv

LEMMA PoseKeeps ==
  ASSUME BuildInv, phase # "building", phase' = "idle", pose' \in Int,
         UNCHANGED <<options, planes, threads, merged, residuals, counts, stats, taken, builds>>
  PROVE  BuildInv'
<1>1. BuildTypeOK'
  BY DEF BuildInv, BuildTypeOK, PlaneOK
<1>2. ThreadsInv' /\ MergeInv'
  BY DEF ThreadsInv, MergeInv
<1>3. \A d : InFlight(d)' = InFlight(d)
  BY DEF InFlight
<1>4. StatsInv'
  BY <1>3 DEF BuildInv, StatsInv
<1>5. HistoryInv'
  BY DEF BuildInv, HistoryInv
<1> QED  BY <1>1, <1>2, <1>4, <1>5 DEF BuildInv

LEMMA PosesKeep == ASSUME BuildInv, Corrected \/ NextFrame PROVE BuildInv'
<1>1. BuildPoses \subseteq Int /\ pose \in Int
  BY BuildAssumption DEF BuildInv, BuildTypeOK
<1>2. CASE Corrected
  BY <1>1, <1>2, PoseKeeps DEF Corrected
<1>3. CASE NextFrame
  BY <1>1, <1>3, PoseKeeps DEF NextFrame
<1> QED  BY <1>2, <1>3

LEMMA ShareBegins ==
  ASSUME World, NEW t \in 1..Threads
  PROVE  /\ ThreadOK(Share(t, <<>>), ShareStart(t), ShareStart(t + 1))
         /\ Share(t, <<>>).pc = "visit"
<1> DEFINE f == ShareStart(t)
           n == ShareStart(t + 1)
           th == Share(t, <<>>)
<1>1. t \in 1..(Threads + 1) /\ t + 1 \in 1..(Threads + 1) /\ t <= t + 1
  BY ScanFacts
<1>2. f \in Nat /\ n \in Nat /\ f <= n /\ f \in Int
  BY <1>1, ShareFacts
<1>3. th = [pc |-> "visit", rows |-> <<>>, counts |-> NoCounts, at |-> IF f < n THEN Begin(f) ELSE Idle]
  BY DEF Share
<1>4. th.pc = "visit" /\ th.rows = <<>> /\ th.counts = NoCounts /\ th.at = IF f < n THEN Begin(f) ELSE Idle
  BY <1>3
<1>5. /\ NoCounts \in [Counters -> Nat] /\ CountsOK(NoCounts, f, f - 1) /\ InOrder(<<>>, f, f - 1)
  BY <1>2, NoCountsFacts, EmptyInOrder
<1>6. <<>> \in Seq(Row)
  OBVIOUS
<1> HIDE DEF th, f, n
<1>7. CASE f < n
  <2>1. f \in f..(n - 1)
    BY <1>2, <1>7
  <2>2. f \in 1..N
    BY <2>1, InShare DEF f, n
  <2>3. SearchAt(Begin(f)) /\ Begin(f).i = f
    BY <2>2, BeginStep
  <2>4. Begin(f) \in Place /\ SearchOK(Begin(f))
    BY <2>3 DEF SearchAt
  <2>5. Begin(f) # Idle
    BY <2>2, <2>3, <2>4, NotIdle
  <2>6. th \in Thread
    BY <1>3, <1>5, <1>6, <1>7, <2>4 DEF Thread
  <2>7. Front(th, n) = f
    BY <1>4, <1>7, <2>3, <2>5 DEF Front
  <2>8. ThreadOK(th, f, n)
    BY <1>4, <1>5, <1>7, <2>1, <2>3, <2>4, <2>6, <2>7 DEF ThreadOK
  <2> QED  BY <1>4, <2>8 DEF th, f, n
<1>8. CASE ~(f < n)
  <2>1. f = n
    BY <1>2, <1>8
  <2>2. th \in Thread
    BY <1>3, <1>5, <1>6, <1>8 DEF Thread
  <2>3. Front(th, n) = f
    BY <1>4, <1>8, <2>1 DEF Front
  <2>4. ThreadOK(th, f, n)
    BY <1>4, <1>5, <1>8, <2>2, <2>3 DEF ThreadOK
  <2> QED  BY <1>4, <2>4 DEF th, f, n
<1> QED  BY <1>7, <1>8

LEMMA BeginKeeps == ASSUME BuildInv, BuildResiduals PROVE BuildInv'
<1>1. /\ phase = "idle" /\ phase' = "building" /\ builds' = builds + 1 /\ merged' = 0
      /\ threads' = [t \in 1..Threads |-> Share(t, <<>>)]
      /\ UNCHANGED <<options, planes, pose, residuals, counts, stats, taken>>
  BY DEF BuildResiduals, BeginShare
<1>2. BuildTypeOK'
  BY <1>1 DEF BuildInv, BuildTypeOK, PlaneOK
<1>3. World
  BY BuildWorld DEF BuildInv
<1>4. \A t \in 1..Threads : threads'[t] = Share(t, <<>>)
  BY <1>1
<1>5. \A t \in 1..Threads : ThreadOK(threads'[t], ShareStart(t), ShareStart(t + 1)) /\ threads'[t].pc = "visit"
  BY <1>3, <1>4, ShareBegins
<1>6. \A th, f, n : ThreadOK(th, f, n)' <=> ThreadOK(th, f, n)
  BY <1>1, SameThread
<1>7. threads' = [t \in 1..Threads |-> threads'[t]]
  BY <1>1
<1>8. ThreadsInv'
  BY <1>5, <1>6, <1>7 DEF ThreadsInv, ShareStart
<1>9. MergeInv'
  BY <1>1, ScanFacts DEF MergeInv
<1>10. StatsInv'
  <2>1. \A c : InFlight(c)' = {}
    BY <1>1, <1>5 DEF InFlight
  <2>2. \A c : InFlight(c) = {}
    BY <1>1 DEF InFlight
  <2>3. \A c : InFlight(c)' = InFlight(c)
    BY <2>1, <2>2
  <2> QED  BY <1>1, <2>3 DEF BuildInv, StatsInv
<1>11. HistoryInv'
  <2>1. \A c \in DOMAIN planes : \A k \in DOMAIN taken[c] : taken[c][k].build <= builds' /\ taken[c][k].build # builds'
    <3> SUFFICES ASSUME NEW c \in DOMAIN planes, NEW k \in DOMAIN taken[c]
                 PROVE  taken[c][k].build <= builds' /\ taken[c][k].build # builds'
      OBVIOUS
    <3>1. taken[c] \in Seq(Entry) /\ builds \in Nat
      BY DEF BuildInv, BuildTypeOK
    <3>2. taken[c][k] \in Entry
      <4>1. DOMAIN taken[c] = 1..Len(taken[c]) /\ \A j \in 1..Len(taken[c]) : taken[c][j] \in Entry
        BY <3>1, SeqFacts
      <4> QED  BY <4>1
    <3>3. taken[c][k].build <= builds
      BY DEF BuildInv, HistoryInv
    <3>4. taken[c][k].build \in Nat
      BY <3>2 DEF Entry
    <3> QED  BY <1>1, <3>1, <3>3, <3>4
  <2>2. \A c \in DOMAIN planes : Single(taken[c])
    BY DEF BuildInv, HistoryInv
  <2> QED  BY <1>1, <2>1, <2>2 DEF HistoryInv, Single
<1> QED  BY <1>2, <1>8, <1>9, <1>10, <1>11 DEF BuildInv

LEMMA MergeKeeps == ASSUME BuildInv, Merge PROVE BuildInv'
<1>1. /\ phase = "building" /\ \A t \in 1..Threads : threads[t].at = Idle
      /\ merged' = merged + 1
      /\ residuals' = (IF merged = 0 THEN <<>> ELSE residuals) \o threads[merged + 1].rows
      /\ counts' = [k \in Counters |-> (IF merged = 0 THEN 0 ELSE counts[k]) + threads[merged + 1].counts[k]]
      /\ phase' = IF merged + 1 = Threads THEN "built" ELSE "building"
      /\ UNCHANGED <<options, planes, pose, threads, stats, taken, builds>>
  BY DEF Merge
<1> DEFINE t == merged + 1
           f == ShareStart(t)
           n == ShareStart(t + 1)
           a == IF merged = 0 THEN <<>> ELSE residuals
           x == IF merged = 0 THEN NoCounts ELSE counts
           rows == threads[t].rows
           cnt == threads[t].counts
<1>2. merged \in Nat /\ merged < Threads /\ Threads \in Nat
  BY <1>1, ScanFacts DEF BuildInv, BuildTypeOK, MergeInv
<1>3. t \in 1..Threads /\ t \in 1..(Threads + 1) /\ t + 1 \in 1..(Threads + 1) /\ t <= t + 1
  BY <1>2
<1>4. f \in Nat /\ f >= 1 /\ n \in Nat /\ f <= n /\ ShareStart(1) = 1 /\ ShareStart(Threads + 1) = N + 1
  BY <1>3, ShareFacts
<1>5. /\ rows \in Seq(Row) /\ cnt \in [Counters -> Nat]
      /\ InOrder(rows, f, n - 1) /\ CountsOK(cnt, f, n - 1)
  <2>1. ThreadOK(threads[t], f, n) /\ threads[t].at = Idle
    BY <1>1, <1>3 DEF BuildInv, ThreadsInv
  <2>2. Front(threads[t], n) = n
    BY <2>1 DEF Front
  <2> QED  BY <2>1, <2>2 DEF ThreadOK, Thread
<1>6. a \in Seq(Row) /\ x \in [Counters -> Nat] /\ InOrder(a, 1, f - 1) /\ CountsOK(x, 1, f - 1)
  <2>1. CASE merged = 0
    <3>1. f = 1 /\ 1 \in Int
      BY <1>4, <2>1
    <3>2. a = <<>> /\ x = NoCounts
      BY <2>1
    <3>3. InOrder(<<>>, 1, 1 - 1) /\ CountsOK(NoCounts, 1, 1 - 1) /\ NoCounts \in [Counters -> Nat]
      BY EmptyInOrder, NoCountsFacts
    <3> HIDE DEF a, x, f
    <3> QED  BY <3>1, <3>2, <3>3
  <2>2. CASE merged # 0
    <3>1. merged > 0
      BY <1>2, <2>2
    <3>2. a = residuals /\ x = counts
      BY <2>2
    <3> HIDE DEF a, x
    <3> QED  BY <1>1, <3>1, <3>2 DEF BuildInv, BuildTypeOK, MergeInv
  <2> QED  BY <2>1, <2>2
<1>7. counts' = Summed(x, cnt)
  <2>1. \A k \in Counters : x[k] = IF merged = 0 THEN 0 ELSE counts[k]
    BY DEF NoCounts
  <2> HIDE DEF x
  <2> QED  BY <1>1, <2>1 DEF Summed
<1>8. residuals' = a \o rows
  BY <1>1
<1> HIDE DEF a, x, f, n, rows, cnt
<1>9. f - 1 + 1 = f /\ f - 1 <= n - 1 /\ 1 <= f - 1 + 1 /\ f - 1 \in Int /\ n - 1 \in Int /\ 1 \in Int
  BY <1>4
<1>10. residuals' \in Seq(Row) /\ InOrder(residuals', 1, n - 1)
  <2>1. a \o rows \in Seq(Row)
    BY <1>5, <1>6, ConcatFacts
  <2>2. InOrder(a \o rows, 1, n - 1)
    BY <1>5, <1>6, <1>9, JoinInOrder
  <2> QED  BY <1>8, <2>1, <2>2
<1>11. counts' \in [Counters -> Nat] /\ CountsOK(counts', 1, n - 1)
  <2>1. Summed(x, cnt) \in [Counters -> Nat] /\ CountsOK(Summed(x, cnt), 1, n - 1)
    BY <1>5, <1>6, <1>9, JoinCounts
  <2> QED  BY <1>7, <2>1
<1>12. BuildTypeOK'
  <2>1. merged' \in Nat
    BY <1>1, <1>2
  <2> QED  BY <1>1, <1>10, <1>11, <2>1 DEF BuildInv, BuildTypeOK, PlaneOK
<1>13. ThreadsInv'
  <2>1. \A th, g, m : ThreadOK(th, g, m)' <=> ThreadOK(th, g, m)
    BY <1>1, SameThread
  <2> QED  BY <1>1, <2>1 DEF BuildInv, ThreadsInv, ShareStart
<1>14. MergeInv'
  <2>1. /\ \A r, g, m : InOrder(r, g, m)' <=> InOrder(r, g, m)
        /\ \A c, g, m : CountsOK(c, g, m)' <=> CountsOK(c, g, m)
    BY <1>1, SameResults
  <2>4. CASE merged + 1 = Threads
    <3>1. phase' = "built" /\ n - 1 = N /\ N' = N
      BY <1>1, <1>4, <2>4, ScanFacts DEF n
    <3>2. InOrder(residuals', 1, N) /\ CountsOK(counts', 1, N)
      BY <1>10, <1>11, <3>1
    <3> QED  BY <2>1, <3>1, <3>2 DEF MergeInv
  <2>5. CASE merged + 1 # Threads
    <3>1. phase' = "building" /\ merged + 1 < Threads /\ n = ShareStart(merged' + 1)
      BY <1>1, <1>2, <2>5 DEF n
    <3>2. InOrder(residuals', 1, ShareStart(merged' + 1) - 1) /\ CountsOK(counts', 1, ShareStart(merged' + 1) - 1)
      BY <1>10, <1>11, <3>1
    <3>3. \A u : ShareStart(u)' = ShareStart(u')
      BY DEF ShareStart
    <3> QED  BY <1>1, <2>1, <3>1, <3>2, <3>3 DEF MergeInv, ShareStart
  <2> QED  BY <2>4, <2>5
<1>15. \A c : InFlight(c) = {} /\ InFlight(c)' = {}
  <2>1. \A u \in 1..Threads : threads[u].pc = "visit"
    <3> TAKE u \in 1..Threads
    <3>1. ThreadOK(threads[u], ShareStart(u), ShareStart(u + 1)) /\ threads[u].at = Idle
      BY <1>1 DEF BuildInv, ThreadsInv
    <3> QED  BY <3>1 DEF ThreadOK
  <2> QED  BY <1>1, <2>1 DEF InFlight
<1>16. StatsInv'
  <2>1. \A c : InFlight(c)' = InFlight(c)
    BY <1>15
  <2> QED  BY <1>1, <2>1 DEF BuildInv, StatsInv
<1>17. HistoryInv'
  BY <1>1 DEF BuildInv, HistoryInv, Single
<1> QED  BY <1>12, <1>13, <1>14, <1>16, <1>17 DEF BuildInv

-----------------------------------------------------------------------------
(* The inductive invariant.                                                *)

LEMMA BuildStep == ASSUME BuildInv, [BuildNext]_buildVars PROVE BuildInv'
<1>1. CASE UNCHANGED buildVars
  <2>1. UNCHANGED <<options, planes, pose, phase, threads, merged, residuals, counts, stats, taken, builds>>
    BY <1>1 DEF buildVars
  <2>2. BuildTypeOK'
    BY <2>1 DEF BuildInv, BuildTypeOK, PlaneOK
  <2>3. ThreadsInv'
    <3>1. \A th, f, n : ThreadOK(th, f, n)' <=> ThreadOK(th, f, n)
      BY <2>1, SameThread
    <3> QED  BY <2>1, <3>1 DEF BuildInv, ThreadsInv, ShareStart
  <2>4. MergeInv'
    <3>1. /\ \A r, f, l : InOrder(r, f, l)' <=> InOrder(r, f, l)
          /\ \A c, f, l : CountsOK(c, f, l)' <=> CountsOK(c, f, l)
      BY <2>1, SameResults
    <3> QED  BY <2>1, <3>1 DEF BuildInv, MergeInv, ShareStart
  <2>5. StatsInv'
    <3>1. \A c : InFlight(c)' = InFlight(c)
      BY <2>1 DEF InFlight
    <3> QED  BY <2>1, <3>1 DEF BuildInv, StatsInv
  <2>6. HistoryInv'
    <3>1. \A e, c, at, n : Past(e, c, at, n)' <=> Past(e, c, at, n)
      BY <2>1, PastUnmoved
    <3> QED  BY <2>1, <3>1 DEF BuildInv, HistoryInv, Single, ShareStart
  <2> QED  BY <2>2, <2>3, <2>4, <2>5, <2>6 DEF BuildInv
<1>2. CASE \E c \in Cells, fit \in FitSet : Refit(c, fit)
  BY <1>2, RefitKeeps
<1>3. CASE BuildResiduals
  BY <1>3, BeginKeeps
<1>4. CASE \E t \in 1..Threads : Search(t) \/ Weigh(t) \/ Count(t) \/ Exchange(t)
  BY <1>4, SearchKeeps, WeighKeeps, CountKeeps, ExchangeKeeps
<1>5. CASE Merge
  BY <1>5, MergeKeeps
<1>6. CASE Corrected \/ NextFrame
  BY <1>6, PosesKeep
<1> QED  BY <1>1, <1>2, <1>3, <1>4, <1>5, <1>6 DEF BuildNext

\* Throughout a build each thread holds the rows and the counts of the points it is done
\* with, and its search has left out no cell; the statistics lag by the residuals in
\* flight (buildResiduals(), findPlaneResidual()).
THEOREM BuildInvariant == BuildSpec => []BuildInv
<1>1. BuildInit => BuildInv
  BY InitKeeps
<1>2. BuildInv /\ [BuildNext]_buildVars => BuildInv'
  BY BuildStep
<1> QED  BY <1>1, <1>2, PTL DEF BuildSpec

-----------------------------------------------------------------------------
(* What a finished build holds.                                            *)

\* The rows of point i are a block of one of its sources.
LEMMA BlockFacts ==
  ASSUME BuildInv, phase = "built", NEW i \in 1..N, NEW c, NEW s \in 0..Len(residuals),
         c \in Sources(i), s + Len(RowsOf(i, c)) <= Len(residuals), Together(residuals, i, c, s)
  PROVE  /\ c \in Int /\ Gives(i, c)
         /\ s + 1 \in DOMAIN residuals /\ residuals[s + 1].i = i /\ residuals[s + 1].c = c
         /\ \A k \in DOMAIN residuals : residuals[k].i = i =>
              /\ residuals[k].c = c
              /\ \E j \in DOMAIN RowsOf(i, c) : residuals[k].kind = RowsOf(i, c)[j]
<1> DEFINE n == Len(RowsOf(i, c))
           l == Len(residuals)
<1>1. World /\ residuals \in Seq(Row)
  BY BuildWorld DEF BuildInv, BuildTypeOK
<1>2. c \in Int /\ Gives(i, c)
  BY <1>1, SourcesFacts
<1>3. n \in Nat /\ n # 0 /\ DOMAIN RowsOf(i, c) = 1..n
  BY <1>2, RowsType, SeqFacts DEF Gives
<1>4. l \in Nat /\ DOMAIN residuals = 1..l /\ s \in Nat /\ s + n <= l
  BY <1>1, SeqFacts
<1>5. /\ \A k \in 1..l : residuals[k].i = i <=> k \in (s + 1)..(s + n)
      /\ \A k \in 1..n : residuals[s + k].c = c /\ residuals[s + k].kind = RowsOf(i, c)[k]
  BY <1>3, <1>4 DEF Together
<1> HIDE DEF n, l
<1>6. s + 1 \in 1..l /\ s + 1 \in (s + 1)..(s + n) /\ 1 \in 1..n
  BY <1>3, <1>4
<1>7. ASSUME NEW k \in 1..l, residuals[k].i = i
      PROVE  /\ residuals[k].c = c
             /\ \E j \in 1..n : residuals[k].kind = RowsOf(i, c)[j]
  <2>1. k \in (s + 1)..(s + n)
    BY <1>5, <1>7
  <2>2. k - s \in 1..n /\ s + (k - s) = k
    BY <1>3, <1>4, <2>1
  <2>3. residuals[s + (k - s)].c = c /\ residuals[s + (k - s)].kind = RowsOf(i, c)[k - s]
    BY <1>5, <2>2
  <2> QED  BY <2>2, <2>3
<1> QED  BY <1>2, <1>3, <1>4, <1>5, <1>6, <1>7

LEMMA RowsBuilt ==
  ASSUME BuildInv, phase = "built"
  PROVE  /\ \A k \in DOMAIN residuals : residuals[k].i \in 1..N
         /\ \A i \in 1..N :
              IF Sources(i) = {} THEN \A k \in DOMAIN residuals : residuals[k].i # i
              ELSE \E c \in Sources(i), s \in 0..Len(residuals) :
                     s + Len(RowsOf(i, c)) <= Len(residuals) /\ Together(residuals, i, c, s)
BY DEF BuildInv, MergeInv, InOrder

LEMMA KindFacts ==
  \A o, plane, pt : \A k \in DOMAIN Rows(o, plane, pt) :
    \/ Rows(o, plane, pt)[k] = "plane" \/ o.form = "smooth"
    \/ Hard(o) /\ IsLineVoxel(o, plane.n, plane.eig)
<1> SUFFICES ASSUME NEW o, NEW plane, NEW pt, NEW k \in DOMAIN Rows(o, plane, pt), o.form # "smooth",
                    ~(Hard(o) /\ IsLineVoxel(o, plane.n, plane.eig))
             PROVE  Rows(o, plane, pt)[k] = "plane"
  OBVIOUS
<1>1. Rows(o, plane, pt) = <<"plane">>
  BY DEF Rows
<1> QED  BY <1>1

LEMMA TiltHolds == ASSUME BuildInv PROVE TiltPresent
<1> SUFFICES ASSUME phase = "built", options.tilt, NEW k \in DOMAIN residuals, residuals[k].kind # "plane"
             PROVE  planes[residuals[k].c].tilt
  BY DEF TiltPresent
<1>1. PICK i \in 1..N : residuals[k].i = i
  BY RowsBuilt
<1>2. PICK c \in Sources(i), s \in 0..Len(residuals) :
        s + Len(RowsOf(i, c)) <= Len(residuals) /\ Together(residuals, i, c, s)
  BY <1>1, RowsBuilt
<1>3. Gives(i, c) /\ c \in Int
  BY <1>2, BlockFacts
<1>4. PICK j \in DOMAIN RowsOf(i, c) : residuals[k].kind = RowsOf(i, c)[j] /\ residuals[k].c = c
  BY <1>1, <1>2, BlockFacts
<1>5. HasPlane(c) /\ Accepts(i, c) /\ c \in DOMAIN planes
  BY <1>3, RowFacts, BuildWorld DEF BuildInv
<1>6. RowsOf(i, c) = Rows(options, planes[c], Points[i])
  BY <1>5 DEF RowsOf
<1>7. options.form = "smooth" \/ (Hard(options) /\ IsLineVoxel(options, planes[c].n, planes[c].eig))
  BY <1>4, <1>6, KindFacts
<1>8. PlaneOK(planes[c]) /\ planes[c].isPlane
  BY <1>5 DEF BuildInv, BuildTypeOK, HasPlane
<1> QED  BY <1>4, <1>7, <1>8 DEF PlaneOK

\* However the threads of buildResiduals() interleave, the rows are those of one pass over
\* the points: each point's together and in order, from the cell that a search of one
\* thread takes; and a row along a line finds the tilt matrices its variance needs.
THEOREM RowsHold == BuildSpec => []RowsSound
<1>1. BuildInv => RowsSound
  BY TiltHolds DEF RowsSound, RowsAsSequential, BuildInv, MergeInv
<1> QED  BY <1>1, BuildInvariant, PTL

\* No residual is lost from a voxel's statistics and none enters twice in a build, although
\* every thread adds to them without a lock (updateEmpiricalResidualStats()).
THEOREM StatsHold == BuildSpec => []StatsExact
<1>1. BuildInv => StatsExact
  <2> SUFFICES ASSUME BuildInv, phase = "built", NEW c \in DOMAIN stats
               PROVE  /\ stats[c].n = Len(taken[c]) /\ stats[c].sum = Total(taken[c])
                      /\ Single(taken[c])
    BY DEF StatsExact, Single
  <2>1. c \in DOMAIN planes /\ taken[c] \in Seq(Entry)
    BY DEF BuildInv, BuildTypeOK
  <2>2. Cardinality(InFlight(c)) = 0
    BY NoFlight, FS_EmptySet
  <2>3. stats[c].n = Len(taken[c]) + Cardinality(InFlight(c)) /\ stats[c].sum = Total(taken[c])
    BY <2>1 DEF BuildInv, StatsInv
  <2>4. Len(taken[c]) \in Nat
    BY <2>1, SeqFacts
  <2>5. Single(taken[c])
    BY <2>1 DEF BuildInv, HistoryInv
  <2> QED  BY <2>2, <2>3, <2>4, <2>5
<1> QED  BY <1>1, BuildInvariant, PTL

-----------------------------------------------------------------------------
(* The misses of a finished build.                                         *)

LEMMA MissedFacts ==
  ASSUME BuildInv, phase = "built"
  PROVE  /\ Missed = {i \in 1..N : Lacks(i)}
         /\ Away = {i \in 1..N : ~Gives(i, Cell(i))}
<1>1. ASSUME NEW i \in 1..N PROVE (\A k \in DOMAIN residuals : residuals[k].i # i) <=> Lacks(i)
  <2>1. CASE Lacks(i)
    BY <2>1, RowsBuilt DEF Lacks
  <2>2. CASE ~Lacks(i)
    <3>1. PICK c \in Sources(i), s \in 0..Len(residuals) :
            s + Len(RowsOf(i, c)) <= Len(residuals) /\ Together(residuals, i, c, s)
      BY <2>2, RowsBuilt DEF Lacks
    <3>2. s + 1 \in DOMAIN residuals /\ residuals[s + 1].i = i
      BY <3>1, BlockFacts
    <3> QED  BY <2>2, <3>2
  <2> QED  BY <2>1, <2>2
<1>2. ASSUME NEW i \in 1..N
      PROVE  (\A k \in DOMAIN residuals : residuals[k].i = i => residuals[k].c # Cell(i)) <=> ~Gives(i, Cell(i))
  <2>0. /\ \A c \in Sources(i) : c \in Int /\ Gives(i, c)
        /\ Gives(i, Cell(i)) => Sources(i) = {Cell(i)}
    BY SourcesFacts, BuildWorld DEF BuildInv
  <2>1. CASE Sources(i) = {}
    <3>1. \A k \in DOMAIN residuals : residuals[k].i # i
      BY <2>1, RowsBuilt
    <3>2. ~Gives(i, Cell(i))
      BY <2>0, <2>1
    <3> QED  BY <3>1, <3>2
  <2>2. CASE Sources(i) # {}
    <3>1. PICK c \in Sources(i), s \in 0..Len(residuals) :
            s + Len(RowsOf(i, c)) <= Len(residuals) /\ Together(residuals, i, c, s)
      BY <2>2, RowsBuilt
    <3>2. /\ s + 1 \in DOMAIN residuals /\ residuals[s + 1].i = i /\ residuals[s + 1].c = c
          /\ \A k \in DOMAIN residuals : residuals[k].i = i => residuals[k].c = c
      BY <3>1, BlockFacts
    <3>3. CASE Gives(i, Cell(i))
      BY <2>0, <3>1, <3>2, <3>3
    <3>4. CASE ~Gives(i, Cell(i))
      <4>1. c # Cell(i)
        BY <2>0, <3>1, <3>4
      <4> QED  BY <3>2, <3>4, <4>1
    <3> QED  BY <3>3, <3>4
  <2> QED  BY <2>1, <2>2
<1> QED  BY <1>1, <1>2 DEF Missed, Away

LEMMA Halves ==
  ASSUME NEW S \in SUBSET (1..N), NEW A, NEW B, A \cup B = S, A \cap B = {}
  PROVE  /\ Cardinality(A) + Cardinality(B) = Cardinality(S)
         /\ Cardinality((1..N) \ S) = N - Cardinality(S)
         /\ Cardinality(A) \in Nat /\ Cardinality(B) \in Nat /\ Cardinality(S) \in Nat
<1>1. IsFiniteSet(1..N) /\ Cardinality(1..N) = N /\ N \in Nat
  BY ScanFacts, FS_Interval
<1>2. A \subseteq S /\ B \subseteq S /\ S \subseteq 1..N /\ (1..N) \cap S = S
  OBVIOUS
<1>3. IsFiniteSet(S) /\ IsFiniteSet(A) /\ IsFiniteSet(B)
  BY <1>1, <1>2, FS_Subset
<1>4. Cardinality(A) \in Nat /\ Cardinality(B) \in Nat /\ Cardinality(S) \in Nat
  BY <1>3, FS_CardinalityType
<1>5. /\ Cardinality(A \cup B) = Cardinality(A) + Cardinality(B) - Cardinality(A \cap B)
      /\ Cardinality((1..N) \ S) = Cardinality(1..N) - Cardinality((1..N) \cap S)
  BY <1>1, <1>3, FS_Union, FS_Difference
<1>6. Cardinality(A \cap B) = 0 /\ Cardinality(A \cup B) = Cardinality(S)
  BY FS_EmptySet, Zenon
<1>7. Cardinality(A) + Cardinality(B) = Cardinality(S)
  BY <1>4, <1>5, <1>6
<1>8. Cardinality((1..N) \ S) = N - Cardinality(S)
  BY <1>1, <1>2, <1>5
<1> QED  BY <1>4, <1>7, <1>8

\* Every point of a finished build has rows or is counted as a miss, once, and as a
\* mismatch exactly where a converged plane was within reach: what the search met before it
\* gave up is what a scan of its whole footprint would have met.
THEOREM MissesHold == BuildSpec => []MissesExplained
<1>1. BuildInv => MissesExplained
  <2> SUFFICES ASSUME BuildInv, phase = "built", options.size > 0
               PROVE  /\ counts["mismatch"] = Cardinality({i \in Missed : \E c \in Footprint(i) : HasPlane(c)})
                      /\ counts["coverage"] + counts["mismatch"] = Cardinality(Missed)
                      /\ counts["tier0Mismatch"] = Cardinality({i \in Away : HasPlane(Cell(i))})
                      /\ counts["tier0Coverage"] + counts["tier0Mismatch"] = Cardinality(Away)
                      /\ counts["rejections"] <= counts["candidates"]
                      /\ counts["candidates"] >= N - Cardinality(Missed)
    BY DEF MissesExplained
  <2>1. World
    BY BuildWorld DEF BuildInv
  <2>2. /\ Missed = {i \in 1..N : Lacks(i)}
        /\ Away = {i \in 1..N : ~Gives(i, Cell(i))}
    BY MissedFacts
  <2>3. \A i \in 1..N : Met(i) <=> \E c \in Footprint(i) : HasPlane(c)
    <3> TAKE i \in 1..N
    <3>1. /\ Cell(i) \in Int /\ Lean(i) \in {-1, 0, 1} /\ options.size \in Nat
          /\ Footprint(i) = (Cell(i) - options.size)..(Cell(i) + options.size)
      BY <2>1, CellFacts
    <3>2. Cell(i) + Lean(i) \in Footprint(i)
      BY <3>1
    <3> QED  BY <3>2 DEF Met
  <2> DEFINE near == {i \in Missed : \E c \in Footprint(i) : HasPlane(c)}
             home == {i \in Away : HasPlane(Cell(i))}
  <2>4. \A k \in Tallied : counts[k] = Cardinality(Tally(k) \cap (1..N))
    BY DEF BuildInv, MergeInv, CountsOK
  <2>5. /\ Tally("mismatch") \cap (1..N) = near
        /\ Tally("coverage") \cap (1..N) = Missed \ near
        /\ Tally("tier0Mismatch") \cap (1..N) = home
        /\ Tally("tier0Coverage") \cap (1..N) = Away \ home
        /\ Hits \cap (1..N) = (1..N) \ Missed
    <3>1. Tally("mismatch") = {i \in 1..N : Lacks(i) /\ Met(i)}
      BY DEF Tally
    <3>2. Tally("coverage") = {i \in 1..N : Lacks(i) /\ ~Met(i)}
      BY DEF Tally
    <3>3. Tally("tier0Mismatch") = {i \in 1..N : ~Gives(i, Cell(i)) /\ HasPlane(Cell(i))}
      BY DEF Tally
    <3>4. Tally("tier0Coverage") = {i \in 1..N : ~Gives(i, Cell(i)) /\ ~HasPlane(Cell(i))}
      BY DEF Tally
    <3>5. Hits = {i \in 1..N : ~Lacks(i)}
      BY DEF Hits
    <3> QED  BY <2>2, <2>3, <3>1, <3>2, <3>3, <3>4, <3>5
  <2>6. Missed \in SUBSET (1..N) /\ Away \in SUBSET (1..N)
    BY <2>2
  <2>7. /\ near \subseteq Missed /\ home \subseteq Away
    OBVIOUS
  <2>8. /\ counts["mismatch"] = Cardinality(near) /\ counts["coverage"] = Cardinality(Missed \ near)
        /\ counts["tier0Mismatch"] = Cardinality(home) /\ counts["tier0Coverage"] = Cardinality(Away \ home)
    BY <2>4, <2>5 DEF Tallied
  <2>9. /\ counts["rejections"] <= counts["candidates"]
        /\ counts["candidates"] >= Cardinality((1..N) \ Missed)
    BY <2>5 DEF BuildInv, MergeInv, CountsOK
  <2> HIDE DEF near, home
  <2>10. /\ Cardinality(Missed \ near) + Cardinality(near) = Cardinality(Missed)
         /\ Cardinality((1..N) \ Missed) = N - Cardinality(Missed)
    <3>1. (Missed \ near) \cup near = Missed /\ (Missed \ near) \cap near = {}
      BY <2>7
    <3> QED  BY <2>6, <3>1, Halves
  <2>11. Cardinality(Away \ home) + Cardinality(home) = Cardinality(Away)
    <3>1. (Away \ home) \cup home = Away /\ (Away \ home) \cap home = {}
      BY <2>7
    <3> QED  BY <2>6, <3>1, Halves
  <2> QED  BY <2>8, <2>9, <2>10, <2>11 DEF near, home
<1> QED  BY <1>1, BuildInvariant, PTL
=============================================================================
