----------------------------- MODULE ConfigLoad -----------------------------
(***************************************************************************)
(* Start-up of the node: LivoReconNode::loadParameters() calls the loader  *)
(* of every component in a fixed order.  Loaders read keys with paramWarn  *)
(* (which registers the key as consumed, whether or not it is set) or with *)
(* a ConfigResolver (modes checked against a list, keys nested in a scope, *)
(* retired keys).  Two scans then look for keys that nobody read: the LIO  *)
(* loader's refuseUnclaimed() over a few prefixes, and the node's          *)
(* checkAllParamsConsumed() over everything.                               *)
(*                                                                         *)
(* A key is the sequence of its path's segments.  Keys that one loader     *)
(* treats alike are one representative key (<<"vio", "ekf">> is the block  *)
(* vio/ekf/...), numbers are "ok" (accepted), "zero" or "bad" (out of the  *)
(* range its loader accepts), and "mistyped" is a value of another XmlRpc  *)
(* type.  Set keys are leaves of the server's tree: a key with something   *)
(* set below it is there too, as a struct, which no reader expects.        *)
(***************************************************************************)
EXTENDS Naturals, Sequences, FiniteSets

CONSTANT Configs    \* the parameter files: functions from set keys to values

Under(prefix, k) == Len(prefix) <= Len(k) /\ SubSeq(k, 1, Len(prefix)) = prefix

ASSUME ConfigAssumption == \A file \in Configs :
  /\ DOMAIN file \subseteq Seq(STRING) \ {<<>>}
  /\ \A k, l \in DOMAIN file : Under(k, l) => k = l

VARIABLES
  config,      \* what the parameter server holds
  backendUp,   \* whether the tracker's models or cache can be loaded
  stage,       \* the loader to run next
  consumed,    \* detail::consumedParamKeys()
  taken,       \* set keys whose value some component now holds
  verdict      \* "loading", "started" or "refused" (a throw)

loadVars == <<config, backendUp, stage, consumed, taken, verdict>>

Stages == <<"node", "state", "voxel_map", "vio", "combined", "tracker", "pub", "cbk",
            "calib", "imu", "lio", "evo", "common", "check">>
After(name) == LET i == CHOOSE j \in 1..Len(Stages) : Stages[j] = name
               IN IF i = Len(Stages) THEN "done" ELSE Stages[i + 1]

Given(k) == \E set \in DOMAIN config : Under(k, set)              \* hasParam
Value(k, default) ==                                              \* NodeHandle::param
  IF k \in DOMAIN config THEN config[k] ELSE IF Given(k) THEN "mistyped" ELSE default
On(k) == Value(k, "off") = "on"

(***************************************************************************)
(* ConfigResolver.  An option is [key, live, allowed, default]: get() and  *)
(* mode() are live, nested() and nestedMode() are live in their scope.     *)
(***************************************************************************)
Numbers == {"ok", "zero", "bad"}
Flags == {"on", "off"}
Option(k, live, allowed, default) ==
  [key |-> k, live |-> live, allowed |-> allowed, default |-> default]

Legal(o) == Value(o.key, o.default) \in o.allowed
Resolved(o) == IF o.live /\ Legal(o) THEN Value(o.key, o.default) ELSE o.default

ComplaintsLive(options) ==     \* deviation: a key in a dead scope is not reported
  {o.key : o \in {p \in options : Given(p.key) /\ p.live /\ ~Legal(p)}}

Complaints(options) ==
  {o.key : o \in {p \in options : Given(p.key) /\ ~(p.live /\ Legal(p))}}

LiveKeys(options) == {o.key : o \in {p \in options : p.live}}

\* The ancestor walk both scans share: the key or a block above it was consumed.
Consumed(k) == \E n \in 1..Len(k) : SubSeq(k, 1, n) \in consumed

\* refuseUnclaimed(): set keys under the prefixes that no reader claims.
Unclaimed(prefixes, options) ==
  {k \in DOMAIN config : /\ \E p \in prefixes : Under(p, k)
                         /\ k \notin {o.key : o \in options}
                         /\ ~Consumed(k)}

(***************************************************************************)
(* The step every loader is made of: refuse (throw), or register what was  *)
(* read, keep the values and let the next loader run.  paramWarn checks    *)
(* the type of every value but a vector's.                                 *)
(***************************************************************************)
Extrinsics == <<"extrinsics", "l2i">>
LeverArm == <<"evo", "gt_lever_arm">>
VectorKeys == {Extrinsics, LeverArm}

Refuse == verdict' = "refused" /\ UNCHANGED <<config, backendUp, stage, consumed, taken>>

Proceed(name, reads, marks) ==
  /\ consumed' = consumed \cup reads \cup marks
  /\ taken' = taken \cup (reads \cap DOMAIN config)
  /\ stage' = After(name)
  /\ UNCHANGED <<config, backendUp, verdict>>

Load(name, reads, marks, throws) ==
  /\ verdict = "loading" /\ stage = name
  /\ IF throws \/ \E k \in reads \ VectorKeys : Value(k, "ok") = "mistyped"
     THEN Refuse
     ELSE Proceed(name, reads, marks)

AnyGiven(keys) == \E k \in keys : Given(k)
OutOfRange(keys) == \E k \in keys : Value(k, "ok") \in {"zero", "bad"}
NotOneOf(k, allowed) == Given(k) /\ Value(k, "") \notin allowed

(***************************************************************************)
(* The node's own keys, then the printer's.                                *)
(***************************************************************************)
AutoTerminate == <<"run", "auto_terminate_on_idle">>
ForceVioLog == <<"diag", "force_vio_residual_log">>
NodeKeys == {<<"log", "frame_window">>, AutoTerminate, ForceVioLog, <<"log", "printer">>}

LoadNode == Load("node", NodeKeys, {}, FALSE)

(***************************************************************************)
(* StateGroup.  Missing or malformed lidar-IMU extrinsics only log an      *)
(* error and return early: the keys after them stay unread.                *)
(***************************************************************************)
GravityEstimable == <<"state", "gravity_estimable">>
GravityCov == <<"state", "cov", "gravity">>
BiasWalk == <<"imu", "process_noise", "bias_random_walk">>
Distortion == <<"camera", "distortion_coeffs">>
RenamedKeys == {<<"outputs", "debug_log_dir">>}     \* representatives of the two tables
RemovedKeys == {<<"lio", "zupt">>}
LegacyStateKeys == {<<"state", "cov", "acc">>}
RefuseRenamedKeys == AnyGiven(RenamedKeys \cup RemovedKeys)
StateKeys == {GravityEstimable, Extrinsics}
LaterStateKeys == {<<"camera", "fx">>, <<"imu", "process_noise", "fixed">>, BiasWalk}
                    \cup (IF On(GravityEstimable) THEN {GravityCov} ELSE {})

LoadState ==
  LET whole == Value(Extrinsics, "short") = "ok" IN
  Load("state", StateKeys \cup (IF whole THEN LaterStateKeys ELSE {}),
       IF whole THEN {Distortion} ELSE {},
       \/ AnyGiven(LegacyStateKeys) \/ RefuseRenamedKeys
       \/ whole /\ ~On(GravityEstimable) /\ Given(GravityCov)
       \/ whole /\ OutOfRange({BiasWalk}))

(***************************************************************************)
(* VoxelMap: plain keys, then its resolver, then the binned block.         *)
(***************************************************************************)
Vox(name) == <<"voxel_map">> \o name
RangeErr == <<"imu", "sensor", "range_err">>
SnapshotPost == <<"log", "voxel_map", "snapshot_post_calibration">>
SnapshotFrames == <<"log", "voxel_map", "snapshot_frames">>
BootstrapMode == Vox(<<"map", "bootstrap_mode">>)
BootstrapModes == {"aggregate", "sequential"}
BinFraction == Vox(<<"binned", "bin_size_fraction">>)
RemovedVoxelKeys == {Vox(<<"plane", "use_bins">>), Vox(<<"binned", "pose_weighted">>)}
RetiredVoxelKeys == {Vox(<<"plane", "line_residual", "mode">>)}
EmpiricalOn == Vox(<<"plane", "empirical_variance", "enable">>)

VoxelPlainKeys == {Vox(<<"map", "voxel_size">>), SnapshotPost, SnapshotFrames, BootstrapMode,
                   RangeErr, EmpiricalOn, BinFraction}

WeightFloor == Option(Vox(<<"plane", "weight_floor", "mode">>), TRUE,
  {"sensor_range", "incidence", "constant", "none", "legacy", "roughness"}, "sensor_range")
PlaneVar == Option(Vox(<<"plane", "plane_var_mode">>), TRUE,
  {"eigengap", "information", "information_directional"}, "eigengap")
LineForm == Option(Vox(<<"plane", "line_residual", "form">>), TRUE, {"hard", "smooth"}, "hard")
HardForm == Resolved(LineForm) = "hard"
LineRule == Option(Vox(<<"plane", "line_residual", "rule">>), HardForm,
  {"absolute", "relative", "relative_noise", "shape"}, "absolute")
LineVariance == Option(Vox(<<"plane", "line_residual", "variance">>), TRUE,
  {"fit_only", "plane_equivalent"}, "fit_only")
LineRows == Option(Vox(<<"plane", "line_residual", "rows">>), TRUE, {"per_normal", "distance"}, "per_normal")
RelSigmas == Option(Vox(<<"plane", "line_residual", "rel_sigmas">>),
  HardForm /\ Resolved(LineRule) \in {"relative", "relative_noise"}, Numbers, "ok")
ShapeRatio == Option(Vox(<<"plane", "line_residual", "shape_ratio">>),
  HardForm /\ Resolved(LineRule) = "shape", Numbers, "ok")
Consistency == Option(<<"log", "voxel_map", "consistency", "mode">>, TRUE,
  {"off", "scan", "corr", "corr+covariates"}, "off")

VoxelOptions ==
  { WeightFloor, PlaneVar, LineForm, LineRule, LineVariance, LineRows, RelSigmas, ShapeRatio, Consistency,
    Option(Vox(<<"plane", "weight_floor", "constant">>),
           Resolved(WeightFloor) \in {"constant", "legacy"}, Numbers, "ok"),
    Option(Vox(<<"plane", "weight_floor", "incidence_k">>),
           Resolved(WeightFloor) = "incidence", Numbers, "ok"),
    Option(Vox(<<"plane", "empirical_variance", "min_n">>), On(EmpiricalOn), Numbers, "ok"),
    Option(<<"log", "voxel_map", "consistency", "corr_stride">>,
           Resolved(Consistency) \in {"corr", "corr+covariates"}, Numbers, "ok") }

\* requireCombination: each value is legal, the pair is not.
VoxelClash ==
  LET information == Resolved(PlaneVar) # "eigengap" IN
  \/ Resolved(WeightFloor) = "roughness" /\ ~information
  \/ information /\ Resolved(WeightFloor) \notin {"roughness", "none", "legacy"}
  \/ Resolved(LineVariance) = "plane_equivalent" /\ information
  \/ Resolved(LineRows) = "distance" /\ ~HardForm
  \/ ~information /\ Value(RangeErr, "ok") = "zero"

LoadVoxelMap ==
  Load("voxel_map", VoxelPlainKeys \cup LiveKeys(VoxelOptions), {},
       \/ Given(SnapshotFrames) /\ ~On(SnapshotPost)
       \/ NotOneOf(BootstrapMode, BootstrapModes)
       \/ AnyGiven(RemovedVoxelKeys \cup RetiredVoxelKeys)
       \/ Complaints(VoxelOptions) # {} \/ VoxelClash
       \/ Resolved(RelSigmas) \in {"zero", "bad"} \/ Resolved(ShapeRatio) \in {"zero", "bad"}
       \/ OutOfRange({BinFraction}))

(***************************************************************************)
(* VIO and combined processors, then the tracker if either will use it.    *)
(***************************************************************************)
VioOn == <<"vio", "enable">>
CombinedOn == <<"combined", "enable">>
VioEkf == <<"vio", "ekf">>
AnchorMode == <<"tracker", "grid_selection", "anchor_selection_mode">>
AnchorModes == {"grid", "global_top_n"}
BlockSize == <<"tracker", "grid_selection", "shi_tomasi_block_size">>
UvTracking == <<"viz", "uv_tracking">>
TrackerKeys == {<<"tracker", "device">>, AnchorMode, BlockSize, UvTracking}
TrackerWanted == Value(VioOn, "on") = "on" \/ On(CombinedOn) \/ On(ForceVioLog)

LoadVio == Load("vio", {VioOn, VioEkf, <<"log", "vio">>}, {}, FALSE)
LoadCombined == Load("combined", {CombinedOn, VioEkf, <<"log", "combined">>}, {}, FALSE)

LoadTracker ==
  \/ /\ TrackerWanted
     /\ Load("tracker", TrackerKeys, {},
             NotOneOf(AnchorMode, AnchorModes) \/ OutOfRange({BlockSize}) \/ ~backendUp)
  \/ /\ ~TrackerWanted
     /\ Load("tracker", {}, {<<"tracker">>, UvTracking}, FALSE)

LoadPub == Load("pub", {<<"viz", "enable">>, <<"outputs", "path">>, <<"log", "pose_pair">>}, {}, FALSE)

(***************************************************************************)
(* Callbacks.  point_time_* are read with NodeHandle::param, which keeps   *)
(* the default when the stored type differs, and marked consumed by hand.  *)
(* A switched-off canceller marks its whole block as consumed.             *)
(***************************************************************************)
LidarType == <<"cbk", "lidar", "type">>
TimeMode == <<"cbk", "lidar", "point_time_mode">>
TimeModes == {"offset_ns_u32", "absolute_s_f64"}
TimeRef == <<"cbk", "lidar", "point_time_ref">>
TimeRefs == {"header", "min_point"}
Vibration == <<"cbk", "imu", "vibration">>
MotionBand == <<"cbk", "imu", "motion_band">>
Perturb == <<"cbk", "lidar", "perturb_std_m">>
EvoOn == <<"evo", "enable">>
EvoSource == <<"evo", "gt_source">>

Loose(k, default) == IF Value(k, default) = "mistyped" THEN default ELSE Value(k, default)
Numeric(block) == Append(block, "floor")     \* the numbers an enabled canceller must be given
Enabled(block) == On(Append(block, "enable"))
CancellerReads(block) == {Append(block, "enable")} \cup (IF Enabled(block) THEN {Numeric(block)} ELSE {})
CancellerMarks(block) == IF Enabled(block) THEN {} ELSE {block}
CancellerBad(block) == Enabled(block) /\ Value(Numeric(block), "zero") # "ok"

LoadCbk ==
  Load("cbk", {<<"topics", "lidar">>, LidarType, Perturb, EvoOn, EvoSource}
                \cup CancellerReads(Vibration) \cup CancellerReads(MotionBand),
       {TimeMode, TimeRef} \cup CancellerMarks(Vibration) \cup CancellerMarks(MotionBand),
       \/ Loose(TimeMode, "offset_ns_u32") \notin TimeModes
       \/ Loose(TimeRef, "header") \notin TimeRefs
       \/ Given(TimeRef) /\ Loose(TimeMode, "offset_ns_u32") # "absolute_s_f64"
       \/ AnyGiven({TimeMode, TimeRef}) /\ Value(LidarType, "mid360") \in {"avia", "mid360"}
       \/ CancellerBad(Vibration) \/ CancellerBad(MotionBand) \/ Value(Perturb, "ok") = "bad")

(***************************************************************************)
(* Stationary calibration and the IMU.                                     *)
(***************************************************************************)
NumFrames == <<"calib", "stationary", "num_frames">>
DsMode == <<"imu", "ds", "mode">>
DsLeaf == <<"imu", "ds", "ds_leaf_size">>
NoiseFloor == <<"imu", "process_noise", "floor">>
RemovedCalibKeys == {<<"calib", "num_samples">>}
DsModes == {"off", "first", "average"}
DsOn == Value(DsMode, "first") # "off"

LoadCalib ==
  Load("calib", {NumFrames, DsMode, DsLeaf, RangeErr, NoiseFloor} \cup CancellerReads(Vibration), CancellerMarks(Vibration),
       \/ AnyGiven(RemovedCalibKeys) \/ CancellerBad(Vibration)
       \/ Value(NumFrames, "zero") # "ok"
       \/ NotOneOf(DsMode, DsModes)
       \/ DsOn /\ OutOfRange({DsLeaf})
       \/ OutOfRange({NoiseFloor}))

NoiseModel == <<"imu", "process_noise", "model">>
NoiseModels == {"fixed", "isotropic", "axis_aware"}
RemovedImuKeys == {<<"imu", "first_scan_head">>}

LoadImu ==
  Load("imu", {<<"imu", "second_order">>, NoiseModel, <<"log", "imu">>}, {},
       \/ RefuseRenamedKeys \/ AnyGiven(RemovedImuKeys)
       \/ NotOneOf(NoiseModel, NoiseModels))

(***************************************************************************)
(* LIO: shared parameters, then the scan for unclaimed keys.  The rows key *)
(* of the voxel map is peeked at without claiming it.                      *)
(***************************************************************************)
PoseCovOn == <<"log", "pose_cov_trace", "enable">>
PoseCovEnd == <<"log", "pose_cov_trace", "end_s">>
DumpFrames == <<"log", "lio", "residual_dump", "frames">>
LioPlainKeys == {<<"lio", "ekf", "max_iterations">>, <<"log", "lio", "debug">>, PoseCovOn, PoseCovEnd,
                 DumpFrames, RangeErr, <<"cuda", "enable">>}

InfoScale == Option(<<"lio", "info_scale", "mode">>, TRUE, {"off", "block"}, "off")
InfoRotation == Option(<<"lio", "info_scale", "rotation">>, Resolved(InfoScale) = "block", Numbers, "zero")
Binning == Option(<<"lio", "residual_binning", "mode">>, TRUE, {"off", "direction", "rotation", "both"}, "off")
Shift == Option(<<"lio", "residual_binning", "shift_sd_m">>,
                Resolved(Binning) \in {"direction", "both"}, Numbers, "zero")
RotShift == Option(<<"lio", "residual_binning", "rot_shift_sd_rad">>,
                   Resolved(Binning) \in {"rotation", "both"}, Numbers, "zero")
LioOptions ==
  { InfoScale, InfoRotation, Binning, Shift, RotShift,
    Option(<<"lio", "residual_binning", "axes">>, Resolved(Binning) # "off", {"lattice13"}, "lattice13"),
    Option(<<"log", "lio", "residual_dump", "slim">>, Value(DumpFrames, "off") # "off", Flags, "off"),
    Option(<<"lio", "gate_state_uncertainty">>, TRUE, Flags, "on"),
    Option(DsMode, TRUE, DsModes, "first"),
    Option(DsLeaf, DsOn, Numbers, "ok"),
    Option(<<"imu", "undistort", "time_based_process_noise">>, TRUE,
           {"none", "state", "var_acc", "relpose_q", "relpose_full"}, "var_acc") }

LioClash ==
  /\ Resolved(Binning) # "off"
  /\ Resolved(InfoScale) # "off" \/ Value(LineRows.key, "per_normal") = "distance"

\* A number 1 ("zero" effect) under info_scale block is inert, a shift of 0 is the identity.
LioInert ==
  \/ InfoRotation.live /\ Resolved(InfoRotation) # "ok"
  \/ Shift.live /\ Resolved(Shift) # "ok"
  \/ RotShift.live /\ Resolved(RotShift) # "ok"

ScannedPrefixesAndEvo ==     \* deviation: a prefix whose reader has not run yet
  {<<"spline">>, <<"adaptive_q">>, <<"akf_q">>, <<"lio", "ekf">>, <<"voxel_map">>, <<"log">>, <<"run">>, <<"evo">>}
ScannedPrefixes ==
  {<<"spline">>, <<"adaptive_q">>, <<"akf_q">>, <<"lio", "ekf">>, <<"voxel_map">>, <<"log">>, <<"run">>}

LioUnclaimed ==
  {k \in Unclaimed(ScannedPrefixes, LioOptions) : ~\E p \in LioPlainKeys : Under(p, k)}

LoadLio ==
  Load("lio", LioPlainKeys \cup LiveKeys(LioOptions), {},
       \/ RefuseRenamedKeys
       \/ Given(PoseCovEnd) /\ ~On(PoseCovOn)
       \/ NotOneOf(DumpFrames, {"ok"})
       \/ Complaints(LioOptions) # {} \/ LioClash \/ LioInert
       \/ Given(DsLeaf) /\ DsOn /\ OutOfRange({DsLeaf})
       \/ LioUnclaimed # {})

(***************************************************************************)
(* Ground-truth evaluation; a lever arm that is not three numbers is       *)
(* passed over.  Then the node's common keys and its final check.          *)
(***************************************************************************)
GtFile == <<"evo", "gt_file">>
DenseGt == <<"evo", "dense_gt_metrics">>
EvoKeys == {EvoOn, EvoSource, GtFile, LeverArm, DenseGt}
FileMode == Value(EvoSource, "topic") = "file"

LoadEvo ==
  Load("evo", EvoKeys, {},
       \/ On(DenseGt) /\ ~FileMode
       \/ On(EvoOn) /\ FileMode /\ On(DenseGt) /\ Value(GtFile, "bad") # "ok")

OfflineBag == <<"common", "offline_bag_path">>
LoadCommon == Load("common", {OfflineBag, <<"common", "insert_map_after_lio">>}, {}, FALSE)

CheckAllParamsConsumed ==
  /\ verdict = "loading" /\ stage = "check"
  /\ IF \E k \in DOMAIN config : ~Consumed(k)
     THEN Refuse
     ELSE /\ verdict' = "started" /\ stage' = "done"
          /\ UNCHANGED <<config, backendUp, consumed, taken>>

LoadInit ==
  /\ config \in Configs
  /\ backendUp \in BOOLEAN
  /\ stage = "node" /\ consumed = {} /\ taken = {} /\ verdict = "loading"

LoadNext == \/ LoadNode \/ LoadState \/ LoadVoxelMap \/ LoadVio \/ LoadCombined \/ LoadTracker
        \/ LoadPub \/ LoadCbk \/ LoadCalib \/ LoadImu \/ LoadLio \/ LoadEvo \/ LoadCommon
        \/ CheckAllParamsConsumed

LoadSpec == LoadInit /\ [][LoadNext]_loadVars

-----------------------------------------------------------------------------
(***************************************************************************)
(* What a parameter file means, said of the file alone.                    *)
(***************************************************************************)
\* Blocks a switched-off feature leaves unread on purpose.
Parked(k) ==
  \/ ~TrackerWanted /\ (Under(<<"tracker">>, k) \/ Under(UvTracking, k))
  \/ \E block \in {Vibration, MotionBand} : ~Enabled(block) /\ Under(block, k)

\* Keys whose malformed value falls back to a default without a word.
LooselyRead == {TimeMode, TimeRef, Distortion, Extrinsics, LeverArm}

Options == VoxelOptions \cup LioOptions
InLiveScope(k) == \A o \in Options : o.key = k => o.live

\* A run that starts holds every value it was given: a misspelled, retired,
\* misnested or dead-scope key can only survive in a parked block.  This is
\* what the registry (param_warn.h), the resolver's scopes and the two scans
\* (config_resolve.h, node start-up) are for, spread over fourteen loaders.
NothingIgnored ==
  verdict = "started" =>
    \A k \in DOMAIN config : \/ k \in taken /\ InLiveScope(k)
                            \/ Parked(k)
                            \/ \E l \in LooselyRead : Under(l, k)

\* The documented keys, each with a legal value in a live scope and no clash.
Documented ==
  NodeKeys \cup StateKeys \cup LaterStateKeys \cup {Distortion} \cup VoxelPlainKeys
  \cup LiveKeys(Options) \cup {VioOn, VioEkf, <<"log", "vio">>, CombinedOn, <<"log", "combined">>}
  \cup TrackerKeys \cup {<<"viz", "enable">>, <<"outputs", "path">>, <<"log", "pose_pair">>}
  \cup {<<"topics", "lidar">>, LidarType, TimeMode, TimeRef, Perturb, NumFrames, DsMode, DsLeaf, NoiseFloor}
  \cup {<<"imu", "second_order">>, NoiseModel, <<"log", "imu">>} \cup LioPlainKeys \cup EvoKeys
  \cup {OfflineBag, <<"common", "insert_map_after_lio">>}
  \cup UNION {{Append(b, "enable"), Numeric(b)} : b \in {Vibration, MotionBand}}

Retired == LegacyStateKeys \cup RenamedKeys \cup RemovedKeys \cup RemovedVoxelKeys
             \cup RetiredVoxelKeys \cup RemovedCalibKeys \cup RemovedImuKeys

\* Numbers a loader checks, lists and files it must be able to read.
Sound == {Extrinsics, BiasWalk, RangeErr, BinFraction, Perturb, NumFrames, NoiseFloor, DumpFrames, GtFile}

WellFormed ==
  /\ DOMAIN config \subseteq Documented /\ ~AnyGiven(Retired)
  /\ \A k \in Documented : Value(k, "ok") # "mistyped"
  /\ \A o \in Options : Given(o.key) => o.live /\ Legal(o) /\ Value(o.key, "ok") \notin {"zero", "bad"}
  /\ \A k \in Sound : Value(k, "ok") = "ok"
  /\ ~NotOneOf(BootstrapMode, BootstrapModes) /\ ~NotOneOf(AnchorMode, AnchorModes)
  /\ ~NotOneOf(TimeMode, TimeModes) /\ ~NotOneOf(TimeRef, TimeRefs) /\ ~NotOneOf(NoiseModel, NoiseModels)
  /\ Given(NumFrames) /\ Given(Extrinsics)
  /\ Given(GravityCov) => On(GravityEstimable)
  /\ Given(TimeRef) => Value(TimeMode, "") = "absolute_s_f64"
  /\ AnyGiven({TimeMode, TimeRef}) => Value(LidarType, "") = "pcl"
  /\ Given(PoseCovEnd) => On(PoseCovOn)
  /\ Given(SnapshotFrames) => On(SnapshotPost)
  /\ On(DenseGt) => FileMode /\ (On(EvoOn) => Given(GtFile))
  /\ \A b \in {Vibration, MotionBand} : Enabled(b) => Value(Numeric(b), "zero") = "ok"
  /\ ~VoxelClash /\ ~LioClash /\ ~LioInert
  /\ TrackerWanted => backendUp /\ ~OutOfRange({BlockSize})

\* ... and the refusals refuse nothing else: a file of documented keys with
\* legal values in live scopes starts.  Fails when a scan runs before a reader
\* of its prefix (lio_iekf.cpp orders log and run last), or when a loader
\* refuses a block that another one parks.
GoodConfigsStart == WellFormed => verdict # "refused"

\* The repository's standing rule (rule 3.4): a key that was set must act.  Not so
\* for the ground-truth keys without evaluation; in no run (README, "Observations").
SetKeysAct == verdict = "started" => \A k \in DOMAIN config : Parked(k) \/ (k \in taken /\ config[k] # "short")
=============================================================================
