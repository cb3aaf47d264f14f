---------------------------- MODULE ResidualBuild ----------------------------
(***************************************************************************)
(* The measurement rows of one LiDAR correction: VoxelMap::findPlane-      *)
(* Residual() with its two fallbacks, and LioProcBase::buildResiduals(),   *)
(* which runs the search over all points on several threads.               *)
(*                                                                         *)
(* Cells lie on one axis, four quarters each; a point is at a quarter, and *)
(* the other two axes behave alike.  The rows a cell gives a point are     *)
(* those of PlaneFit.  A build is one iteration of the correction; between *)
(* builds the pose moves and, between frames, planes are fitted anew.      *)
(*                                                                         *)
(* The threads share the planes, which stand still during a build, and the *)
(* voxels' own residual statistics, which do not.                          *)
(***************************************************************************)
EXTENDS PlaneFit, FiniteSets

CONSTANTS
  Threads,    \* cappedOmpThreads()
  Points,     \* bound: the scan, a sequence of [p, h, s]
  Cells,      \* bound: the cells that may hold a node
  FitSet,     \* bound: the fits a node may see
  OptionSet,  \* bound: the configurations
  BuildPoses, \* bound: the poses the iterations may reach
  MinPoints,  \* empirical_variance_min_n
  MaxFits, MaxBuilds   \* bounds

ASSUME BuildAssumption ==
  /\ {Threads, MinPoints, MaxFits, MaxBuilds} \subseteq Nat
  /\ Threads > 0
  /\ Cells \cup BuildPoses \subseteq Int
  /\ Points \in Seq([p : Int, h : Int, s : Int])
  /\ \A o \in OptionSet : o.size \in Nat /\ o.empirical \in BOOLEAN
  /\ \A fit \in FitSet : fit.level \in Int

VARIABLES
  options,   \* the configuration
  planes,    \* cell -> plane; a cell without a node is not in the domain
  pose,      \* the pose of the iteration
  phase,     \* "idle", "building", "built"
  threads,   \* per thread: the point it is at and its buffers
  merged,    \* the threads whose buffers are in residuals_
  residuals, \* residuals_
  counts,    \* n_miss_*, n_tier0_miss_*, n_statistical_gate_*
  stats,     \* cell -> empirical_n_, empirical_sum_r2_
  taken,     \* cell -> the residuals its statistics were given, in order (history)
  fits, builds   \* fits and builds so far (bounds)

buildVars == <<options, planes, pose, phase, threads, merged, residuals, counts, stats, taken, fits, builds>>

-----------------------------------------------------------------------------
(* The search.                                                             *)

N == Len(Points)
Position(i) == Points[i].p + pose
Cell(i) == Position(i) \div 4
Far(i, c) == LET d == 2 * Position(i) - (8 * c + 3) IN IF d < 0 THEN -d ELSE d

\* The neighbour the point leans toward, past a quarter from the centre.
Lean(i) == CASE Position(i) % 4 = 3 -> 1 [] Position(i) % 4 = 0 -> -1 [] OTHER -> 0

\* The box, and what is left of it without the own cell and the neighbour tried before.
Footprint(i) == (Cell(i) - options.size)..(Cell(i) + options.size)
Box(i) == Footprint(i) \ {Cell(i), Cell(i) + Lean(i)}

HasPlane(c) == c \in DOMAIN planes /\ planes[c].isPlane
Reaches(i, c) == HasPlane(c) /\ InDisc(planes[c], Far(i, c))
Accepts(i, c) == HasPlane(c) /\ GateAccepts(options, planes[c], Points[i], Far(i, c))
RowsOf(i, c) == IF Accepts(i, c) THEN Rows(options, planes[c], Points[i]) ELSE <<>>

-----------------------------------------------------------------------------
(* A thread's share, its buffers and its counters.                         *)

\* schedule(static): contiguous shares, the first ones longer by one point.
ShareStart(t) ==
  LET q == N \div Threads
      r == N % Threads
  IN  (t - 1) * q + (IF t - 1 < r THEN t - 1 ELSE r) + 1

Counters == {"coverage", "mismatch", "tier0Coverage", "tier0Mismatch", "candidates", "rejections"}
NoCounts == [k \in Counters |-> 0]

Idle == [i |-> 0]
\* Point i before its search: the cell to visit and its tier, what is left of the box, the
\* best rows so far, what the search has met, and the statistics a weight rests on.
Begin(i) ==
  [i |-> i, c |-> Cell(i), tier |-> 0, left |-> Box(i), best |-> <<>>, near |-> FALSE,
   base |-> FALSE, reached |-> FALSE, rejected |-> FALSE, seen |-> {}, sum |-> 0]

Least(S) == CHOOSE c \in S : \A d \in S : c <= d

\* The search ends with rows from tier 0 or 1, or where there is nowhere left to look.
Over(at, rows) ==
  \/ at.tier < 2 /\ rows # <<>>
  \/ at.left = {} /\ (at.tier = 0 => Lean(at.i) = 0)

\* The neighbour the point leans toward, then the box in order.
Onward(at) ==
  IF at.tier = 0 /\ Lean(at.i) # 0 THEN [at EXCEPT !.tier = 1, !.c = @ + Lean(at.i)]
  ELSE [at EXCEPT !.tier = 2, !.c = Least(at.left), !.left = @ \ {Least(at.left)}]

Share(t, rows) ==
  [pc |-> "visit", rows |-> rows, counts |-> NoCounts,
   at |-> IF ShareStart(t) < ShareStart(t + 1) THEN Begin(ShareStart(t)) ELSE Idle]

CarriedOver(t) ==      \* deviation: the buffers of the iteration before are kept
  Share(t, IF threads = <<>> THEN <<>> ELSE threads[t].rows)
BeginShare(t) == Share(t, <<>>)

\* What a finished point adds to each counter.
Bumped(at, k) ==
  LET miss == at.best = <<>>
      tier0 == ~miss /\ at.best[1].tier = 0
  IN  CASE k = "coverage"      -> miss /\ ~at.near
        [] k = "mismatch"      -> miss /\ at.near
        [] k = "tier0Coverage" -> ~tier0 /\ ~at.base
        [] k = "tier0Mismatch" -> ~tier0 /\ at.base
        [] k = "candidates"    -> at.reached
        [] k = "rejections"    -> miss /\ at.rejected

\* The thread keeps the rows of the point, u0 first, and goes on to the next one.
Finished(th, t, at) ==
  [pc |-> "visit",
   at |-> IF at.i + 1 < ShareStart(t + 1) THEN Begin(at.i + 1) ELSE Idle,
   rows |-> th.rows \o at.best,
   counts |-> [k \in Counters |-> th.counts[k] + (IF Bumped(at, k) THEN 1 ELSE 0)]]

NearInBox(at) ==       \* deviation: only the box search reports a converged neighbour
  at.near \/ (at.tier # 1 /\ HasPlane(at.c))
\* A converged plane in any cell visited tells a mismatch from missing coverage.
Near(at) == at.near \/ HasPlane(at.c)

\* The first cell of the box with the highest score wins; what a score is once the
\* statistics of the voxel enter it is left open.
Preferred(old, new) ==
  CASE old = <<>> -> {TRUE}
    [] old # <<>> /\ (old[1].seen \cup new[1].seen) = {} -> {new[1].r < old[1].r}
    [] OTHER -> BOOLEAN

\* What the search knows once its cell gave `rows'.
Looked(at, rows, prefer) ==
  [at EXCEPT !.best = IF prefer THEN rows ELSE @,
             !.near = Near(at),
             !.base = IF at.tier = 0 THEN HasPlane(at.c) ELSE @,
             !.reached = @ \/ Reaches(at.i, at.c),
             !.rejected = @ \/ (Reaches(at.i, at.c) /\ ~Accepts(at.i, at.c)),
             !.seen = {}, !.sum = 0]

Searched(t, rows) ==
  LET at == threads[t].at
  IN  \E prefer \in IF rows = <<>> THEN {FALSE} ELSE Preferred(at.best, rows) :
        threads' = [threads EXCEPT ![t] =
          IF Over(at, rows) THEN Finished(@, t, Looked(at, rows, prefer))
          ELSE [@ EXCEPT !.pc = "visit", !.at = Onward(Looked(at, rows, prefer))]]

\* The rows as they enter the residuals.  Only the row along u0 may take its weight
\* from the statistics of the voxel.
SquaredOffset(i, c) == Offset(planes[c], Points[i]) * Offset(planes[c], Points[i])

Tagged(at) ==
  LET rows == RowsOf(at.i, at.c)
  IN  [k \in DOMAIN rows |->
         [i |-> at.i, c |-> at.c, tier |-> at.tier, kind |-> rows[k], r |-> SquaredOffset(at.i, at.c),
          seen |-> IF rows[k] \in {"plane", "line0"} THEN at.seen ELSE {}]]

-----------------------------------------------------------------------------
(* Actions.                                                                *)

BuildInit ==
  /\ options \in OptionSet
  /\ planes = [c \in {} |-> NoPlane]
  /\ pose = 0
  /\ phase = "idle"
  /\ threads = <<>>
  /\ merged = 0 /\ residuals = <<>>
  /\ counts = NoCounts
  /\ stats = [c \in {} |-> [n |-> 0, sum |-> 0]]
  /\ taken = [c \in {} |-> <<>>]
  /\ fits = 0 /\ builds = 0

With(f, c, x) == [d \in DOMAIN f \cup {c} |-> IF d = c THEN x ELSE f[d]]

\* The map takes points: a node is created on first use and fitted; its statistics
\* outlive the fit.
Refit(c, fit) ==
  /\ phase = "idle"
  /\ fits < MaxFits
  /\ fits' = fits + 1
  /\ planes' = With(planes, c, Updated(options, IF c \in DOMAIN planes THEN planes[c] ELSE NoPlane, fit))
  /\ stats' = With(stats, c, IF c \in DOMAIN stats THEN stats[c] ELSE [n |-> 0, sum |-> 0])
  /\ taken' = With(taken, c, IF c \in DOMAIN taken THEN taken[c] ELSE <<>>)
  /\ UNCHANGED <<options, pose, phase, threads, merged, residuals, counts, builds>>

BuildResiduals ==
  /\ phase = "idle"
  /\ builds < MaxBuilds
  /\ phase' = "building"
  /\ builds' = builds + 1
  /\ threads' = [t \in 1..Threads |-> BeginShare(t)]
  /\ merged' = 0
  /\ UNCHANGED <<options, planes, pose, residuals, counts, stats, taken, fits>>

UnchangedByThread == UNCHANGED <<options, planes, pose, phase, merged, residuals, counts, fits, builds>>
At(t, pc) == phase = "building" /\ threads[t].pc = pc /\ threads[t].at # Idle
CellOf(t) == threads[t].at.c
Shared(t) == options.empirical /\ Accepts(threads[t].at.i, CellOf(t))
RSquared(t) == SquaredOffset(threads[t].at.i, CellOf(t))

\* computeResidual() on a cell whose statistics it leaves alone.
Search(t) ==
  /\ At(t, "visit") /\ ~Shared(t)
  /\ Searched(t, Tagged(threads[t].at))
  /\ UNCHANGED <<stats, taken>>
  /\ UnchangedByThread

\* A history of residuals, as a set and as the sum of their squares.
Entries(s) == {s[k] : k \in DOMAIN s}
Total(s) ==
  LET sum[k \in 0..Len(s)] == IF k = 0 THEN 0 ELSE sum[k - 1] + s[k].r IN sum[Len(s)]

\* The variance of the voxel is read before this residual enters it.
Weigh(t) ==
  /\ At(t, "visit") /\ Shared(t)
  /\ threads' = [threads EXCEPT ![t].pc = "count",
       ![t].at.seen = IF stats[CellOf(t)].n >= MinPoints THEN Entries(taken[CellOf(t)]) ELSE {}]
  /\ UNCHANGED <<stats, taken>>
  /\ UnchangedByThread

\* updateEmpiricalResidualStats(): fetch_add, then the load the exchange starts from.
Count(t) ==
  /\ At(t, "count")
  /\ stats' = [stats EXCEPT ![CellOf(t)].n = @ + 1]
  /\ threads' = [threads EXCEPT ![t].pc = "exchange", ![t].at.sum = stats[CellOf(t)].sum]
  /\ UNCHANGED taken
  /\ UnchangedByThread

StoreMayHappen(t) == TRUE          \* deviation: a plain store
ExchangeSucceeds(t) == stats[CellOf(t)].sum = threads[t].at.sum

\* compare_exchange: the sum is added to the value loaded, or loaded again.
Exchange(t) ==
  /\ At(t, "exchange")
  /\ LET c == CellOf(t)
         at == threads[t].at
     IN  IF ExchangeSucceeds(t)
         THEN /\ stats' = [stats EXCEPT ![c].sum = at.sum + RSquared(t)]
              /\ taken' = [taken EXCEPT ![c] = Append(@, [build |-> builds, i |-> at.i, r |-> RSquared(t)])]
              /\ Searched(t, Tagged(at))
         ELSE /\ threads' = [threads EXCEPT ![t].at.sum = stats[c].sum]
              /\ UNCHANGED <<stats, taken>>
  /\ UnchangedByThread

\* The barrier, then the main thread takes over the buffers in the order of the threads.
Merge ==
  /\ phase = "building"
  /\ \A t \in 1..Threads : threads[t].at = Idle
  /\ merged' = merged + 1
  /\ residuals' = (IF merged = 0 THEN <<>> ELSE residuals) \o threads[merged + 1].rows
  /\ counts' = [k \in Counters |-> (IF merged = 0 THEN 0 ELSE counts[k]) + threads[merged + 1].counts[k]]
  /\ phase' = IF merged + 1 = Threads THEN "built" ELSE "building"
  /\ UNCHANGED <<options, planes, pose, threads, stats, taken, fits, builds>>

\* The rest of the iteration: a correction moves the pose, and without a residual there
\* is none.
Corrected ==
  /\ phase = "built"
  /\ phase' = "idle"
  /\ pose' \in IF residuals = <<>> THEN {pose} ELSE BuildPoses
  /\ UNCHANGED <<options, planes, threads, merged, residuals, counts, stats, taken, fits, builds>>

\* The next frame starts from a propagated pose.
NextFrame ==
  /\ phase = "idle"
  /\ pose' \in BuildPoses
  /\ UNCHANGED <<options, planes, phase, threads, merged, residuals, counts, stats, taken, fits, builds>>

BuildNext ==
  \/ \E c \in Cells, fit \in FitSet : Refit(c, fit)
  \/ BuildResiduals
  \/ \E t \in 1..Threads : Search(t) \/ Weigh(t) \/ Count(t) \/ Exchange(t)
  \/ Merge
  \/ Corrected
  \/ NextFrame

BuildSpec == BuildInit /\ [][BuildNext]_buildVars

-----------------------------------------------------------------------------
(* Properties of a finished build.                                         *)

\* The cells a search of one thread alone could take the rows of point i from.
Gives(i, c) == RowsOf(i, c) # <<>>
Sources(i) ==
  IF Gives(i, Cell(i)) THEN {Cell(i)}
  ELSE IF Gives(i, Cell(i) + Lean(i)) THEN {Cell(i) + Lean(i)}
  ELSE {c \in Footprint(i) :
          /\ Gives(i, c)
          /\ options.empirical \/ \A d \in Footprint(i) : Gives(i, d) =>
               \/ SquaredOffset(i, c) < SquaredOffset(i, d)
               \/ SquaredOffset(i, c) = SquaredOffset(i, d) /\ c <= d}

\* The rows of point i from cell c are those after the s-th, and there are no others.
Together(rows, i, c, s) ==
  /\ \A k \in DOMAIN rows : rows[k].i = i <=> k \in (s + 1)..(s + Len(RowsOf(i, c)))
  /\ \A k \in DOMAIN RowsOf(i, c) : rows[s + k].c = c /\ rows[s + k].kind = RowsOf(i, c)[k]

\* Rows of the points from `first' to `last', in their order: each point's together, all
\* from one cell, u0 first, none left out.
InOrder(rows, first, last) ==
  /\ \A k \in DOMAIN rows : rows[k].i \in first..last
  /\ \A j, k \in DOMAIN rows : j < k => rows[j].i <= rows[k].i
  /\ \A i \in first..last :
       IF Sources(i) = {} THEN \A k \in DOMAIN rows : rows[k].i # i
       ELSE \E c \in Sources(i), s \in 0..Len(rows) :
              s + Len(RowsOf(i, c)) <= Len(rows) /\ Together(rows, i, c, s)

\* However the threads interleave, the rows are those of one pass over the points.
RowsAsSequential == phase = "built" => InOrder(residuals, 1, N)

\* Every point has rows or is a miss of one kind, "the identical answer" the scan of the
\* whole box would have given: a mismatch where a converged plane was near.
Missed == {i \in 1..N : \A k \in DOMAIN residuals : residuals[k].i # i}
Away == {i \in 1..N : \A k \in DOMAIN residuals : residuals[k].i = i => residuals[k].c # Cell(i)}

MissesExplained ==
  phase = "built" /\ options.size > 0 =>
    /\ counts["mismatch"] = Cardinality({i \in Missed : \E c \in Footprint(i) : HasPlane(c)})
    /\ counts["coverage"] + counts["mismatch"] = Cardinality(Missed)
    /\ counts["tier0Mismatch"] = Cardinality({i \in Away : HasPlane(Cell(i))})
    /\ counts["tier0Coverage"] + counts["tier0Mismatch"] = Cardinality(Away)
    /\ counts["rejections"] <= counts["candidates"]
    /\ counts["candidates"] >= N - Cardinality(Missed)

\* A row whose variance takes the tilt matrices of its voxel finds them: the class the
\* query decides again is the class the fit decided.
TiltPresent ==
  phase = "built" /\ options.tilt =>
    \A k \in DOMAIN residuals :
      residuals[k].kind # "plane" => planes[residuals[k].c].tilt

\* Rows are complete, and each stands on what its fit decided.
RowsSound == RowsAsSequential /\ TiltPresent

\* No residual is lost from the statistics, and none enters twice, although all threads
\* add to them at once.
StatsExact ==
  phase = "built" =>
    \A c \in DOMAIN stats :
      /\ stats[c].n = Len(taken[c]) /\ stats[c].sum = Total(taken[c])
      /\ \A j, k \in DOMAIN taken[c] : j # k =>
           <<taken[c][j].build, taken[c][j].i>> # <<taken[c][k].build, taken[c][k].i>>

\* "a point never weighs itself": no weight rests on a residual of the same point.
\* Not so from the second iteration on, and in no run (README, "Observations").
NeverWeighsItself ==
  \A k \in DOMAIN residuals :
    \A x \in residuals[k].seen : x.i # residuals[k].i
=============================================================================
