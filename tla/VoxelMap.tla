------------------------------- MODULE VoxelMap -------------------------------
(***************************************************************************)
(* The map of planes: src/map/voxelmap.cpp over src/lio/voxelnode.cpp.     *)
(*                                                                         *)
(* Space is a forest.  A position is the path from a root voxel through    *)
(* its octants to a cell of the smallest voxel, and a node is the prefix   *)
(* of the positions inside it.  The bins of a node are its sub-cells, one  *)
(* level below it (the code's are finer).  A point is a position and the   *)
(* scan it came with; points are kept in bags, so that one handed over     *)
(* twice is seen.  The plane fit itself is a choice; it fails on too few   *)
(* bins.  OpenMP inserts into several roots at once: each call of          *)
(* insertPoints on one node is an action, in any order.                    *)
(***************************************************************************)
EXTENDS MarkerList, FiniteSets, Bags

CONSTANTS
  Roots,        \* root voxels (keys of voxel_map_)
  Octants,      \* children of a voxel (leaves_)
  Cells,        \* bins of the smallest voxel
  MaxLayer,     \* voxel_map/map/max_layer
  MinInit,      \* voxel_map/points/min_init
  MinUpdate,    \* voxel_map/points/min_update
  MaxPoints,    \* voxel_map/points/max
  MinReps,      \* representatives a fit needs at least (3 in the code)
  MaxScans,     \* bound: insertions in a behaviour
  MaxBatch      \* bound: points of one insertion

ASSUME VoxelAssumption ==
  /\ {MaxLayer, MinInit, MinUpdate, MaxPoints, MinReps, MaxScans, MaxBatch} \subseteq Nat
  /\ MaxPoints > 0

VARIABLES
  opts,         \* convergence_mode and bootstrap_mode
  stage,        \* what the one calling thread is doing
  booting,      \* inside VoxelMap::bootstrap()
  frameIdx,     \* frame_idx_, the next frame to insert
  curFrame,     \* g_current_frame_idx, the frame being inserted
  nScans,       \* bound counter, and the name of the current scan
  scan,         \* history variable: points of the last insertion
  bucket,       \* bucket_map_, reused from scan to scan
  activeKeys,   \* active_keys_
  node,         \* the nodes that exist, by path
  inbox,        \* calls of insertPoints still to be made: node -> bag of points
  stats,        \* VoxelStats
  updates,      \* thread_plane_updates_
  vizDirty,     \* viz_dirty_: node -> deleted
  vizCache,     \* viz_cache_: node -> converged
  discs, dots   \* the two list markers

scanVars == <<opts, booting, frameIdx, curFrame, nScans, scan, bucket, activeKeys>>
mapVars  == <<node, inbox, stats, updates>>
vizVars  == <<vizDirty, vizCache, discs, dots>>
vars     == <<stage, scanVars, mapVars, vizVars>>

Positions == {<<r>> \o k \o <<c>> : r \in Roots, k \in [1..MaxLayer -> Octants], c \in Cells}
Nodes     == {SubSeq(p, 1, l + 1) : p \in Positions, l \in 0..MaxLayer}
Statuses  == {"OPEN", "PARENT", "CONVERGED", "DISABLED"}

Layer(n)  == Len(n) - 1
Bin(n, p) == SubSeq(p.pos, 1, Len(n) + 1)
In(p, n)  == IsPrefix(n, p.pos)
InNode(bag, n) == RestrictDomain(bag, LAMBDA p : In(p, n))

(* VoxelNode::VoxelNode                                                    *)
NewNode ==
  [status |-> "OPEN", isPlane |-> FALSE, size |-> 0, retired |-> FALSE,
   bins |-> {}, dirty |-> {}, points |-> EmptyBag]

IsInit(v) == v.size > MinInit
IsFull(v) == v.size >= MaxPoints
LivePlane(v) == v.isPlane /\ ~v.retired

(* VoxelStats, counted by status; total() leaves the parents out.          *)
NoStats == [s \in Statuses \cup {"planes"} |-> 0]
Count(st, s, k) == [st EXCEPT ![s] = @ + k]
Transition(st, from, to) == Count(Count(st, from, -1), to, 1)

------------------------------------------------------------------------------
Init ==
  /\ opts \in [alwaysUpdate : BOOLEAN, bootMode : {"aggregate", "sequential"}]
  /\ stage = "fresh" /\ booting = FALSE
  /\ frameIdx = 0 /\ curFrame = -1 /\ nScans = 0 /\ scan = EmptyBag
  /\ bucket = [r \in Roots |-> EmptyBag] /\ activeKeys = {}
  /\ node = <<>> /\ inbox = <<>> /\ stats = NoStats /\ updates = {}
  /\ vizDirty = <<>> /\ vizCache = <<>> /\ discs = EmptyList /\ dots = EmptyList

(* updateMapInternal up to the insertion: the buckets of the last scan are *)
(* emptied, the new points are sorted into theirs, roots are created.      *)
ClearedBucket == [r \in Roots |-> IF r \in activeKeys THEN EmptyBag ELSE bucket[r]]

FillBuckets(cells, live) ==
  LET pts == SetToBag({[pos |-> c, scan |-> nScans + 1] : c \in cells})
      new == [r \in Roots |-> InNode(pts, <<r>>)]
  IN /\ nScans < MaxScans
     /\ nScans' = nScans + 1
     /\ scan' = pts
     /\ curFrame' = frameIdx
     /\ frameIdx' = IF live THEN frameIdx + 1 ELSE frameIdx
     /\ bucket' = [r \in Roots |-> ClearedBucket[r] (+) new[r]]
     /\ activeKeys' = {r \in Roots : ClearedBucket[r] = EmptyBag /\ new[r] # EmptyBag}
     /\ LET fresh == {<<r>> : r \in activeKeys'} \ DOMAIN node
        IN /\ node' = [n \in DOMAIN node \cup fresh |-> IF n \in fresh THEN NewNode ELSE node[n]]
           /\ stats' = Count(stats, "OPEN", Cardinality(fresh))
     /\ inbox' = [n \in {<<r>> : r \in activeKeys'} |-> bucket'[n[1]]]
     /\ stage' = "insert"

Batches == {cells \in SUBSET Positions : IsFiniteSet(cells) /\ Cardinality(cells) <= MaxBatch}

(* VoxelMap::bootstrap: everything at once, or one insertion per           *)
(* observation with the anti-lock flag up; one frame index for all.        *)
AntiLock == booting /\ opts.bootMode = "sequential"

Bootstrap ==
  /\ stage = "fresh" /\ frameIdx = 0
  /\ booting' = TRUE
  /\ \E cells \in Batches : FillBuckets(cells, FALSE)
  /\ UNCHANGED <<opts, updates, vizVars>>

NextObservation ==
  /\ stage = "idle" /\ AntiLock
  /\ \E cells \in Batches : FillBuckets(cells, FALSE)
  /\ UNCHANGED <<opts, booting, updates, vizVars>>

FinishBootstrap ==
  /\ stage = "idle" /\ booting
  /\ booting' = FALSE
  /\ frameIdx' = frameIdx + 1
  /\ UNCHANGED <<stage, opts, curFrame, nScans, scan, bucket, activeKeys, mapVars, vizVars>>

(* VoxelMap::updateMap, once per corrected frame                           *)
UpdateMap ==
  /\ stage \in {"fresh", "idle"} /\ ~booting
  /\ \E cells \in Batches : FillBuckets(cells, TRUE)
  /\ UNCHANGED <<opts, booting, updates, vizVars>>
------------------------------------------------------------------------------
(* admission::fitWanted                                                    *)
FitWanted(v) ==
  IF IsInit(v) THEN curFrame = 0 \/ Cardinality(v.dirty) >= MinUpdate
               ELSE Cardinality(v.dirty) >= MinInit

Stored(v) == BagCardinality(v.points) < MaxPoints

(* The first half of insertPoints: bins, their touched ones, the history.  *)
Received(n, b) ==
  LET v == node[n]
      hit == {Bin(n, p) : p \in BagToSet(b)}
  IN [v EXCEPT !.bins = @ \cup hit, !.dirty = @ \cup hit,
               !.points = IF Stored(v) THEN @ (+) b ELSE @]

(* VoxelPlane::update resets is_plane_ first and gives up on too few bins. *)
Fitted(v, plane) == [v EXCEPT !.isPlane = plane /\ Cardinality(v.bins) >= MinReps,
                              !.size = Cardinality(v.bins), !.dirty = {}]

(* passToChildren: the points by octant, missing children created.         *)
Children(n, b) == {SubSeq(p.pos, 1, Len(n) + 1) : p \in BagToSet(b)}

(* Deviation: a batch the history had no room for is forgotten.            *)
HandoverHistoryOnly(n, b) == Received(n, b).points

PassToChildren(n, b, nodes, st) ==
  LET fresh == Children(n, b) \ DOMAIN nodes
  IN /\ node' = [c \in DOMAIN nodes \cup fresh |-> IF c \in fresh THEN NewNode ELSE nodes[c]]
     /\ stats' = Count(st, "OPEN", Cardinality(fresh))
     /\ inbox' = [c \in (DOMAIN inbox \ {n}) \cup Children(n, b) |->
                    IF c \in Children(n, b) THEN InNode(b, c) ELSE inbox[c]]

(* What the children of a split node receive: the history, and the batch   *)
(* if the history had no room for it.                                      *)
Handover(n, b) == IF Stored(node[n]) THEN Received(n, b).points ELSE node[n].points (+) b

Keep(n, v) == [node EXCEPT ![n] = v]
Delivered(n) == inbox' = Restrict(inbox, DOMAIN inbox \ {n})
Report(n, deleted, conv) == updates' = updates \cup {[id |-> n, deleted |-> deleted, conv |-> conv]}

(* Deviation: a cell without a plane is counted off whether or not it had one. *)
PlaneCountAlways(v, w) ==
  Count(stats, "planes", (IF ~v.isPlane /\ w.isPlane THEN 1 ELSE 0) - (IF ~w.isPlane THEN 1 ELSE 0))

PlaneCount(v, w) ==
  Count(stats, "planes", (IF ~v.isPlane /\ w.isPlane THEN 1 ELSE 0) - (IF v.isPlane /\ ~w.isPlane THEN 1 ELSE 0))

(* !now_plane above the last layer: the node becomes a parent.             *)
Subdivide(n, b, w) ==
  /\ PassToChildren(n, Handover(n, b),
       Keep(n, [w EXCEPT !.status = "PARENT", !.retired = TRUE, !.points = EmptyBag]),
       Transition(PlaneCount(node[n], w), "OPEN", "PARENT"))
  /\ IF node[n].isPlane THEN Report(n, TRUE, FALSE) ELSE UNCHANGED updates

(* Deviation: the bootstrap flag is tested only for planes.                *)
ShouldLockInBootstrap(w) == IsFull(w) /\ ~(opts.alwaysUpdate /\ w.isPlane) /\ ~(AntiLock /\ w.isPlane)

ShouldLock(w) ==
  /\ IsFull(w)
  /\ ~(opts.alwaysUpdate /\ w.isPlane)
  /\ ~AntiLock

(* Not locked: refreshed in place.  getVizInfo sets is_converged itself,   *)
(* from isFull(), whatever the caller had put there.                       *)
StayOpen(n, w) ==
  /\ node' = Keep(n, w) /\ Delivered(n)
  /\ stats' = PlaneCount(node[n], w)
  /\ IF w.isPlane THEN Report(n, FALSE, IsFull(w))
     ELSE IF node[n].isPlane THEN Report(n, TRUE, FALSE)
     ELSE UNCHANGED updates

Lock(n, w) ==
  LET status == IF w.isPlane THEN "CONVERGED" ELSE "DISABLED"
  IN /\ node' = Keep(n, [w EXCEPT !.status = status, !.retired = ~w.isPlane,
                                  !.bins = {}, !.points = EmptyBag])
     /\ Delivered(n)
     /\ stats' = Transition(PlaneCount(node[n], w), "OPEN", status)
     /\ IF w.isPlane THEN Report(n, FALSE, IsFull(w))
        ELSE IF node[n].isPlane THEN Report(n, TRUE, FALSE)
        ELSE UNCHANGED updates

Fit(n, b, w) ==
  IF ~w.isPlane /\ Layer(n) < MaxLayer THEN Subdivide(n, b, w)
  ELSE IF ShouldLock(w) THEN Lock(n, w)
  ELSE StayOpen(n, w)

(* VoxelNode::insertPoints                                                 *)
InsertPoints(n) ==
  /\ LET b == inbox[n]
         v == Received(n, b)
     IN \/ /\ node[n].status \in {"CONVERGED", "DISABLED"}
           /\ Delivered(n) /\ UNCHANGED <<node, stats, updates>>
        \/ /\ node[n].status = "PARENT"
           /\ PassToChildren(n, b, node, stats) /\ UNCHANGED updates
        \/ /\ node[n].status = "OPEN" /\ ~FitWanted(v)
           /\ node' = Keep(n, v) /\ Delivered(n) /\ UNCHANGED <<stats, updates>>
        \/ /\ node[n].status = "OPEN" /\ FitWanted(v)
           /\ \E plane \in BOOLEAN : Fit(n, b, Fitted(v, plane))
  /\ UNCHANGED <<stage, scanVars, vizVars>>

(* The end of updateMapInternal: the threads' reports, one per node.       *)
MergeUpdates ==
  LET ids == {u.id : u \in updates}
      of(n) == CHOOSE u \in updates : u.id = n
      gone == {n \in ids : of(n).deleted}
  IN /\ stage = "insert" /\ inbox = <<>>
     /\ vizDirty' = [n \in DOMAIN vizDirty \cup ids |-> IF n \in ids THEN of(n).deleted ELSE vizDirty[n]]
     /\ vizCache' = [n \in (DOMAIN vizCache \cup ids) \ gone |-> IF n \in ids THEN of(n).conv ELSE vizCache[n]]
     /\ updates' = {}
     /\ stage' = "idle"
     /\ UNCHANGED <<scanVars, node, inbox, stats, discs, dots>>

Redrawn(list, n, shown) == IF shown THEN Appended(Erased(list, n), n) ELSE Erased(list, n)

(* One turn of the loop of buildVizMarkers, over viz_dirty_ in any order.  *)
RefreshMarker(n) ==
  LET shown == ~vizDirty[n]
  IN /\ stage \in {"idle", "viz"} /\ ~booting
     /\ discs' = Redrawn(discs, n, shown)
     /\ dots'  = Redrawn(dots, n, shown /\ vizCache[n])
     /\ vizDirty' = Restrict(vizDirty, DOMAIN vizDirty \ {n})
     /\ stage' = IF DOMAIN vizDirty = {n} THEN "idle" ELSE "viz"
     /\ UNCHANGED <<scanVars, mapVars, vizCache>>

Next ==
  \/ Bootstrap \/ NextObservation \/ FinishBootstrap \/ UpdateMap
  \/ \E n \in DOMAIN inbox : InsertPoints(n)
  \/ MergeUpdates
  \/ \E n \in DOMAIN vizDirty : RefreshMarker(n)

Spec == Init /\ [][Next]_vars
------------------------------------------------------------------------------
(* VoxelNode::findPlaneResidual: down through the parents to the first     *)
(* node that is none, if it exists and has a plane in use.                 *)
Found(p) ==
  {n \in DOMAIN node :
     /\ IsPrefix(n, p)
     /\ node[n].status \notin {"PARENT", "DISABLED"}
     /\ LivePlane(node[n])
     /\ \A m \in Nodes : IsStrictPrefix(m, n) => m \in DOMAIN node /\ node[m].status = "PARENT"}

------------------------------------------------------------------------------
(* The variables have their types.                                         *)
TypeOK ==
  /\ stage \in {"fresh", "insert", "idle", "viz"} /\ booting \in BOOLEAN
  /\ frameIdx \in Nat /\ curFrame \in Nat \cup {-1} /\ nScans \in 0..MaxScans
  /\ DOMAIN node \subseteq Nodes /\ DOMAIN inbox \subseteq DOMAIN node
  /\ \A n \in DOMAIN node : node[n].status \in Statuses /\ node[n].size \in Nat
  /\ activeKeys \subseteq Roots
  /\ \A s \in DOMAIN stats : stats[s] \in Nat
  /\ DOMAIN vizDirty \subseteq Nodes /\ DOMAIN vizCache \subseteq Nodes

(* A batch is never lost or counted twice on its way down, not even by the *)
(* insertion that splits the cell: once the scan is in, every point of it  *)
(* has reached an open leaf or a locked one; an open leaf holds all of its *)
(* region's points of that scan, unless its history was at its bound; and  *)
(* no call ever receives a point twice.                                    *)
NoPointLost ==
  /\ \A n \in DOMAIN inbox : \A p \in DOMAIN inbox[n] : inbox[n][p] = 1 /\ In(p, n)
  /\ stage = "idle" =>
       \A p \in DOMAIN scan : \E n \in DOMAIN node :
         /\ In(p, n) /\ node[n].status # "PARENT"
         /\ node[n].status = "OPEN" =>
              /\ Bin(n, p) \in node[n].bins
              /\ p \in DOMAIN node[n].points \/ ~(BagCardinality(node[n].points) < MaxPoints)

(* A cell is given up or frozen only for cause: locked nodes are full,     *)
(* nothing locks while the sequential bootstrap is still inserting, a      *)
(* plane never locks under always_update, and only cells of the last layer *)
(* are disabled.  A parent's plane is out of use for good.                 *)
LocksJustified ==
  \A n \in DOMAIN node :
    LET v == node[n] IN
    /\ v.status = "CONVERGED" => LivePlane(v) /\ IsFull(v) /\ ~AntiLock /\ ~opts.alwaysUpdate
    /\ v.status = "DISABLED" => ~(Layer(n) < MaxLayer) /\ IsFull(v) /\ ~v.isPlane /\ ~AntiLock
    /\ v.status \in {"PARENT", "DISABLED"} => v.retired

(* VoxelStats is a census, not an estimate: whatever order the threads     *)
(* take, the counters are the numbers of nodes of each status and of       *)
(* planes in use (voxelmap_utils.h: "non-disabled, non-parent nodes        *)
(* currently fitting a plane").                                            *)
StatsAreCensus ==
  /\ \A s \in Statuses : stats[s] = Cardinality({n \in DOMAIN node : node[n].status = s})
  /\ stats["planes"] = Cardinality({n \in DOMAIN node : LivePlane(node[n])})

(* Between two refreshes, a plane's patch on display is stale only while   *)
(* the plane is marked dirty: otherwise there is a patch exactly for the   *)
(* planes the residual search can return, and a dot exactly for the full   *)
(* ones.  Every dirty plane that is not deleted is in the cache, so that   *)
(* viz_cache_.at(id) cannot throw.                                         *)
MarkersMatchPlanes ==
  /\ \A n \in DOMAIN vizDirty : ~vizDirty[n] => n \in DOMAIN vizCache
  /\ stage # "insert" =>
       \A n \in Nodes \ DOMAIN vizDirty :
         /\ n \in Owners(discs) <=> \E p \in Positions : n \in Found(p)
         /\ n \in Owners(dots) <=> n \in DOMAIN node /\ LivePlane(node[n]) /\ IsFull(node[n])

(* What is kept beside the nodes agrees with a walk over the nodes: the    *)
(* counters after every call of insertPoints, the patches whenever their   *)
(* node is not waiting to be redrawn.  (All variables have their types.)   *)
CachesMatchNodes == TypeOK /\ StatsAreCensus /\ MarkersMatchPlanes

(* The swap in eraseDisc and eraseDot keeps index and array inverse to     *)
(* each other, so that the next erase drops the patch it means.            *)
MarkersIndexed == Indexed(discs) /\ Indexed(dots)
==============================================================================
