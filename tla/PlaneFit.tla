------------------------------- MODULE PlaneFit -------------------------------
(***************************************************************************)
(* One voxel plane (VoxelPlane): what a fit decides (update()), and which  *)
(* measurement rows a point then gets from it (gate(), computeResidual(),  *)
(* lineRows()).                                                            *)
(*                                                                         *)
(* Geometry is reduced to integers.  A fit is the number of its points,    *)
(* its three eigenvalues and whether the solvers succeeded; an eigenvalue  *)
(* of 0 stands for one below the degenerate floor.  A plane lies at a      *)
(* level; a point has a height h and an offset s along u1.  A measurement  *)
(* variance is 1, and the pose may add `pose' to it at the gate.           *)
(***************************************************************************)
EXTENDS Integers, Sequences

CONSTANTS
  PlaneThreshold,  \* plane_threshold
  SensorFloor,     \* the sensor's variance: the mean over a fit, and weight_sigma_r2
  ShapeRatio,      \* 1 / shape_ratio
  RelSigmas,       \* the points over which the relative gap closes
  SigmaNum         \* sigma_num_squared

ASSUME PlaneAssumption ==
  {PlaneThreshold, SensorFloor, ShapeRatio, RelSigmas, SigmaNum} \subseteq Nat \ {0}

\* The options read here: `form' is the line form, for the hard one its rule ("absolute",
\* "relative", "relative_noise", "shape", or "smooth"), `distance' says one row per line point, `tilt' the
\* plane-equivalent variance, `floor' the floor under e0, `pose' what the pose adds at the
\* gate, `info' the variance model ("eigengap", "information", "directional").
Hard(o) == o.form \in {"absolute", "relative", "relative_noise", "shape"}

-----------------------------------------------------------------------------
(* The fit.  Of its points: their number n, the eigenvalues, whether the    *)
(* solver succeeded, their mean noise along the normal, and whether the     *)
(* weighted moment has support in every direction.                          *)

NoPlane == [isPlane |-> FALSE, isLine |-> FALSE, eig |-> <<1, 1, 1>>, n |-> 0, tilt |-> FALSE,
            level |-> 0]

\* e1 within the relative gap of e, which narrows with the number of points.
WithinGap(n, e1, e) == n > 1 /\ e > 0 /\ e1 * (n - 1) <= e * (n - 1 + RelSigmas)

IsLineVoxel(o, n, e) ==
  CASE o.form = "absolute"       -> e[2] < PlaneThreshold
    [] o.form = "relative"       -> WithinGap(n, e[2], e[1])
    [] o.form = "relative_noise" ->
         WithinGap(n, e[2], IF e[1] > SensorFloor THEN e[1] ELSE SensorFloor)
    [] o.form = "shape"          -> e[3] > 0 /\ ShapeRatio * e[2] <= e[3]
    [] OTHER                     -> FALSE

\* A voxel without extent along u1 is kept only as a hard line.
ClassifyVoxel(o, n, e) ==
  IF e[3] = 0 \/ (~Hard(o) /\ e[2] = 0) \/ e[1] >= PlaneThreshold THEN "reject"
  ELSE IF Hard(o) /\ IsLineVoxel(o, n, e) THEN "line"
  ELSE "plane"

\* e0 is raised to the sensor's noise, but never past e1.
Floored(o, e) ==
  IF ~o.floor \/ e[3] = 0 \/ e[1] >= SensorFloor THEN e
  ELSE [e EXCEPT ![1] = IF SensorFloor >= e[2] THEN e[2] ELSE SensorFloor]

\* buildInformationCovariance(): no noise and no roughness, or a direction without
\* support, refuses a classified plane.
Conditioned(o, fit, e) ==
  CASE o.info = "eigengap"    -> TRUE
    [] o.info = "information" -> fit.noise > 0 \/ e[1] > 0
    [] o.info = "directional" -> (fit.noise > 0 \/ e[1] > 0) /\ fit.support

\* computeLineTilt(): the tilt matrices of the line and smooth rows.
LineTilt(o, class) == o.tilt /\ (class = "line" \/ o.form = "smooth")

\* Everything of the last fit is void first; the eigenvalues stay until there are
\* new ones.
Voided(plane, fit) == [NoPlane EXCEPT !.n = fit.n, !.eig = plane.eig]

Fitted(o, plane, fit, e, class) ==
  IF fit.n < 3 \/ ~fit.solved THEN Voided(plane, fit)
  ELSE IF class = "reject" THEN [Voided(plane, fit) EXCEPT !.eig = e]
  ELSE [isPlane |-> Conditioned(o, fit, e), isLine |-> class = "line", eig |-> e,
        n |-> fit.n, level |-> fit.level, tilt |-> LineTilt(o, class)]

Updated(o, plane, fit) ==
  LET e == Floored(o, fit.eig)
  IN  Fitted(o, plane, fit, e, ClassifyVoxel(o, fit.n, e))

-----------------------------------------------------------------------------
(* A point against the plane.                                              *)

Offset(plane, pt) == pt.h - plane.level     \* r, along u0
FitVar(plane, i) == plane.eig[i] \div plane.n
Within(o, rSquared, var) == rSquared <= SigmaNum * (1 + o.pose + var)

\* gate(): inside the disc, then within sigma_num of the plane.
InDisc(plane, far) == far <= plane.eig[3]
GateAccepts(o, plane, pt, far) ==
  /\ plane.isPlane
  /\ InDisc(plane, far)
  /\ Within(o, Offset(plane, pt) ^ 2, FitVar(plane, 1))

\* The shortest line from the axis to the point, and the variance along it.
DistanceAdmissible(o, plane, pt) ==
  LET h2 == Offset(plane, pt) ^ 2
      s2 == pt.s ^ 2
  IN  /\ h2 + s2 > 0
      /\ Within(o, h2 + s2, (h2 * FitVar(plane, 1) + s2 * FitVar(plane, 2)) \div (h2 + s2))

\* The rows a point gets once the gate has accepted it.  The class is decided again
\* from the stored eigenvalues.  A line point without an admissible distance gets none.
Rows(o, plane, pt) ==
  LET line == Hard(o) /\ IsLineVoxel(o, plane.n, plane.eig)
  IN  CASE o.form = "smooth"    -> <<"smooth0", "smooth1", "smooth2">>
        [] line /\ o.distance   -> IF DistanceAdmissible(o, plane, pt) THEN <<"distance">> ELSE <<>>
        [] line /\ ~o.distance  -> IF Within(o, pt.s ^ 2, FitVar(plane, 2))
                                   THEN <<"line0", "line1">> ELSE <<"line0">>
        [] OTHER                -> <<"plane">>
=============================================================================
