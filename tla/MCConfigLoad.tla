---------------------------- MODULE MCConfigLoad ----------------------------
(***************************************************************************)
(* Parameter files for ConfigLoad: a minimal good file plus any two keys   *)
(* of the table below, or plus one of the contexts that open a deeper      *)
(* scope and any one key.                                                  *)
(***************************************************************************)
EXTENDS ConfigLoad, TLC

Entries(keys, values) == {k :> v : k \in keys, v \in values}

Line(name) == Vox(<<"plane", "line_residual", name>>)

FlagEntries ==
  Entries({AutoTerminate, ForceVioLog, GravityEstimable, SnapshotPost, EmpiricalOn, CombinedOn, EvoOn,
           PoseCovOn, DenseGt, Append(Vibration, "enable")}, {"on", "mistyped"})
    \cup Entries({VioOn}, {"off"})

NumberEntries ==
  Entries({GravityCov, BiasWalk, RangeErr, BinFraction, BlockSize, Line("rel_sigmas"), Line("shape_ratio"), DsLeaf,
           Vox(<<"plane", "weight_floor", "constant">>), Vox(<<"plane", "empirical_variance", "min_n">>),
           Numeric(Vibration), Numeric(MotionBand), NumFrames, NoiseFloor, PoseCovEnd,
           <<"lio", "info_scale", "rotation">>, <<"lio", "residual_binning", "shift_sd_m">>},
          {"ok", "zero"})

PlainEntries ==
  Entries({VioEkf, UvTracking, <<"tracker", "device">>, SnapshotFrames, GtFile, Distortion,
           OfflineBag, <<"lio", "ekf", "max_iterations">>, DumpFrames, <<"camera", "fx">>},
          {"ok", "mistyped"})
    \cup Entries({LeverArm, Extrinsics}, {"ok", "short"})

ModeEntries ==
  Entries({Vox(<<"plane", "weight_floor", "mode">>)}, {"constant", "none", "roughness", "typo"})
    \cup Entries({Vox(<<"plane", "plane_var_mode">>)}, {"information", "typo"})
    \cup Entries({Line("form")}, {"smooth"})
    \cup Entries({Line("rule")}, {"relative", "shape"})
    \cup Entries({Line("variance")}, {"plane_equivalent"})
    \cup Entries({Line("rows")}, {"distance"})
    \cup Entries({LidarType}, {"avia", "pcl"})
    \cup Entries({TimeMode}, {"absolute_s_f64", "mistyped"})
    \cup Entries({TimeRef}, {"min_point"})
    \cup Entries({DsMode}, {"off", "typo"})
    \cup Entries({NoiseModel}, {"isotropic", "typo"})
    \cup Entries({<<"imu", "undistort", "time_based_process_noise">>}, {"relpose_q"})
    \cup Entries({<<"lio", "info_scale", "mode">>}, {"block"})
    \cup Entries({<<"lio", "residual_binning", "mode">>}, {"direction", "both"})
    \cup Entries({AnchorMode}, {"global_top_n", "typo"})
    \cup Entries({EvoSource}, {"file"})
    \cup Entries({<<"log", "lio", "residual_dump", "slim">>}, {"on"})

\* Misspelled, misnested, retired and removed keys.
StrayEntries ==
  Entries({<<"log", "typo">>, <<"lio", "typo">>, <<"tracker", "typo">>, Append(Vibration, "typo"),
           <<"spline", "rate">>, Line("mode"), Vox(<<"plane", "use_bins">>),
           Append(VioOn, "typo"), Append(TimeMode, "typo"), Append(Extrinsics, "typo"),
           <<"lio", "zupt">>, <<"outputs", "debug_log_dir">>, <<"state", "cov", "acc">>, <<"imu", "first_scan_head">>, <<"calib", "num_samples">>}, {"ok"})

AllEntries == FlagEntries \cup NumberEntries \cup PlainEntries \cup ModeEntries \cup StrayEntries

GoodFile == (NumFrames :> "ok") @@ (Extrinsics :> "ok")

Contexts ==
  { (Vox(<<"plane", "plane_var_mode">>) :> "information") @@ (Vox(<<"plane", "weight_floor", "mode">>) :> "none"),
    (<<"lio", "residual_binning", "mode">> :> "both") @@ (<<"lio", "residual_binning", "shift_sd_m">> :> "ok")
      @@ (<<"lio", "residual_binning", "rot_shift_sd_rad">> :> "ok"),
    (Append(Vibration, "enable") :> "on") @@ (Numeric(Vibration) :> "ok"),
    (LidarType :> "pcl") @@ (TimeMode :> "absolute_s_f64"),
    (EvoOn :> "on") @@ (EvoSource :> "file"),
    (EvoOn :> "on") @@ (EvoSource :> "file") @@ (DenseGt :> "on"),
    (VioOn :> "off") @@ (CombinedOn :> "on"),
    (Line("rule") :> "shape") @@ (Line("shape_ratio") :> "ok") }

Files ==
  {a @@ b @@ GoodFile : a \in AllEntries, b \in AllEntries}
    \cup {a @@ c @@ GoodFile : a \in AllEntries, c \in Contexts}
    \cup {a @@ (NumFrames :> "ok") : a \in AllEntries}
    \cup {GoodFile, Extrinsics :> "ok"}

\* What is set below a set key takes its place.
Below(f, k) == \E l \in DOMAIN f : Under(k, l) /\ l # k
MCConfigs == {[k \in {l \in DOMAIN f : ~Below(f, l)} |-> f[k]] : f \in Files}
=============================================================================
