---------------------------- MODULE TrackerCache ----------------------------
(***************************************************************************)
(* Tracking once and replaying the result: the tool cache_tracker_output   *)
(* runs the tracker over a bag and writes one record per image, and a run  *)
(* with tracker/track_cache_path looks records up by stamp instead of      *)
(* tracking.  The file may be cut short, the run may use other settings or *)
(* join the bag late, and images may arrive out of order.                  *)
(*                                                                         *)
(* An image is a row of corner scores; the second axis of the grid behaves *)
(* like the first.  What the network makes of a track is a function of the *)
(* image it is on and the image it is carried to, so that a result is      *)
(* named by the anchors and by every image they were carried over: the one *)
(* they were selected in, and each one stepped since.  That every image    *)
(* fed has one result, in order, is the subject of AsyncTracker; a fed     *)
(* image is tracked at once here.                                          *)
(***************************************************************************)
EXTENDS Integers, FiniteSets, SequencesExt

CONSTANTS
  Bags,          \* bound: the bags, sequences of images [t, empty, scores]
  SettingSet,    \* bound: tracker and preprocess settings
  Valid,         \* validRegion(): the pixels the network sees, [x, width]
  CandidateCap,  \* the slice selectAnchorsGlobalTopN() ranks
  Tolerance      \* 1e-6

ASSUME CacheAssumption ==
  /\ {Valid.x, Valid.width, CandidateCap, Tolerance} \subseteq Nat
  /\ Tolerance > 0
  /\ \A set \in SettingSet : set.sub \in Int /\ set.grid \in Nat \ {0}
  /\ Bags \subseteq Seq([t : Nat, empty : BOOLEAN, scores : Seq(Nat)])
  /\ \A bag \in Bags : \A i, j \in DOMAIN bag :
       i # j => ~(bag[i].t - bag[j].t \in -Tolerance..Tolerance)

VARIABLES
  bag,       \* the images of the topic, in the order of the recording
  tool, run, \* the settings of the tool and of the run
  phase,     \* "feeding", "writing", "ended" (the tool), "running", "refused" (the run)
  next,      \* the next message of the bag
  counter,   \* frame_counter
  tracker,   \* the tool's Tracker
  records,   \* what it has consumed
  file,      \* the cache file: [n, frames] and the settings in its header
  cache,     \* cache_reader_'s frames_
  current,   \* measures_->curr_time; NoTime before the calibration is done
  chain,     \* prev_timestamp_chain
  results,   \* the run's tracked frames
  shadow, live  \* the tracker and the results of a run that tracks (history)

cacheVars == <<bag, tool, run, phase, next, counter, tracker, records, file, cache,
          current, chain, results, shadow, live>>

NoTime == -1
NoFile == [n |-> 0, frames |-> <<>>, grid |-> 0]
NoTracker == [from |-> <<>>, anchors |-> <<>>]

-----------------------------------------------------------------------------
(* Anchor selection.                                                       *)

\* Pixels x0..x1-1 of a grid cell; the division is rounded to nearest.
CellEdge(n, c) == Valid.x + (2 * c * Valid.width + n) \div (2 * n)
CellPixels(img, n, c) ==
  LET x0 == CellEdge(n, c - 1)
      x1 == CellEdge(n, c)
  IN  (x0..(IF x1 > x0 THEN x1 - 1 ELSE x0)) \cap DOMAIN img.scores

\* Best first; among equal scores the library's order, here by place.
Before(img, x, y) ==
  img.scores[x] > img.scores[y] \/ (img.scores[x] = img.scores[y] /\ x < y)

\* The domain of `rank' in the order of the ranks, which start from 0.
InOrder(rank) ==
  [k \in 1..Cardinality(DOMAIN rank) |-> CHOOSE x \in DOMAIN rank : rank[x] = k - 1]
Ranked(img, pixels) ==
  InOrder([x \in pixels |-> Cardinality({y \in pixels : Before(img, y, x)})])

\* Every cell that meets the image gives its best corner.
OnePerCell(img, set) ==
  LET met == {c \in 1..set.grid : CellPixels(img, set.grid, c) # {}}
      cells == InOrder([c \in met |-> Cardinality({d \in met : d < c})])
  IN  [k \in DOMAIN cells |-> Ranked(img, CellPixels(img, set.grid, cells[k]))[1]]

Apart(x, y, d) == (x - y) * (x - y) >= d * d
ApartOfLast(chosen, x, d) == chosen = <<>> \/ Apart(Last(chosen), x, d) \* deviation
ApartOfAll(chosen, x, d) == \A k \in DOMAIN chosen : Apart(chosen[k], x, d)

\* The candidates taken, from the best to the worst, none too close to one taken before.
Spaced(candidates, set) ==
  LET taken[k \in 0..Len(candidates)] ==
        IF k = 0 THEN <<>>
        ELSE LET chosen == taken[k - 1]
             IN  IF Len(chosen) < set.grid /\ ApartOfAll(chosen, candidates[k], set.spacing)
                 THEN Append(chosen, candidates[k]) ELSE chosen
  IN  taken[Len(candidates)]

\* The best corners of the whole region, among the CandidateCap best pixels.
Region(img) == (Valid.x..(Valid.x + Valid.width - 1)) \cap DOMAIN img.scores
Slice(ranked) ==
  SubSeq(ranked, 1, IF Len(ranked) < CandidateCap THEN Len(ranked) ELSE CandidateCap)
GlobalTopN(img, set) == Spaced(Slice(Ranked(img, Region(img))), set)

SelectAnchors(img, set) ==
  IF set.mode = "grid" THEN OnePerCell(img, set) ELSE GlobalTopN(img, set)

-----------------------------------------------------------------------------
(* stepAndReseedOnce(): the result of an image and the tracker it leaves.  *)
(* `from' is the images the tracks were carried over, the last of them the *)
(* one they are on (anchor_pyramid_, active_uv_).                          *)

Reseeds(img, set) == Len(SelectAnchors(img, set)) >= set.minCandidates

Tracked(tr, img, set) ==
  LET ok == tr.anchors # <<>>
  IN  [t |-> img.t, prev |-> NoTime, ok |-> ok,
       from |-> IF ok THEN tr.from ELSE <<>>,
       anchors |-> IF ok THEN tr.anchors ELSE <<>>,
       reseeded |-> Reseeds(img, set)]

\* step() moves every track, also a lost one, to the image it was given; without
\* tracks, nothing of what it leaves is looked at before the next reseed().
SteppedNot(tr, img) == tr      \* deviation: the tracks stay on the image of the last reseed
Stepped(tr, img) ==
  IF tr.anchors = <<>> THEN tr ELSE [from |-> Append(tr.from, img.t), anchors |-> tr.anchors]

\* The image is stepped first; a reseed on it then discards the tracks, a skipped one does not.
Reseeded(tr, img, set) ==
  IF Reseeds(img, set) THEN [from |-> <<img.t>>, anchors |-> SelectAnchors(img, set)]
  ELSE Stepped(tr, img)

\* What a lookup that finds nothing leaves in its place.
NoRecord == [t |-> NoTime, prev |-> NoTime, ok |-> FALSE, from |-> <<>>,
             anchors |-> <<>>, reseeded |-> FALSE]

-----------------------------------------------------------------------------
(* findByTimestamp(): std::lower_bound on the stamps, then the record it   *)
(* lands on and the one before.                                            *)

\* libstdc++'s halving, from `first' over `len' records; a file out of order leads it astray.
LowerBound(frames, t) ==
  LET search[range \in Nat \X (0..Len(frames))] ==
        LET first == range[1]
            len == range[2]
            half == len \div 2
            mid == first + half
        IN  IF len = 0 THEN first
            ELSE IF frames[mid + 1].t < t - Tolerance
            THEN search[<<mid + 1, len - half - 1>>]
            ELSE search[<<first, half>>]
  IN  search[<<0, Len(frames)>>] + 1

Matches(frames, k, t) ==
  k \in DOMAIN frames /\ frames[k].t - t \in (1 - Tolerance)..(Tolerance - 1)

FoundNearest(frames, t) ==   \* deviation: the place lower_bound names, whatever is there
  LET k == LowerBound(frames, t)
  IN  IF k \in DOMAIN frames THEN frames[k] ELSE NoRecord
Found(frames, t) ==
  LET k == LowerBound(frames, t)
  IN  IF Matches(frames, k, t) THEN frames[k]
      ELSE IF Matches(frames, k - 1, t) THEN frames[k - 1]
      ELSE NoRecord

-----------------------------------------------------------------------------
(* The tool.                                                               *)

CacheInit ==
  /\ bag \in Bags
  /\ tool \in SettingSet /\ run \in SettingSet
  /\ phase = "feeding"
  /\ next = 1 /\ counter = 0
  /\ tracker = NoTracker /\ shadow = NoTracker
  /\ records = <<>> /\ results = <<>> /\ live = <<>>
  /\ file = NoFile
  /\ cache = <<>>
  /\ current = NoTime /\ chain = NoTime

UnchangedByTool == UNCHANGED <<bag, tool, run, cache, current, chain, results, shadow, live>>

\* Every sub-th message, counted before anything else is looked at.
Counted(set) == IF set.sub > 1 THEN counter + 1 ELSE counter
Skipped(set) == set.sub > 1 /\ Counted(set) % set.sub # 0
FedRegardless(set) == bag[next].empty     \* deviation: the subsampling is not mirrored
Dropped(set) == Skipped(set) \/ bag[next].empty

FeedTool ==
  /\ phase = "feeding"
  /\ next <= Len(bag)
  /\ next' = next + 1
  /\ counter' = Counted(tool)
  /\ IF Dropped(tool) THEN UNCHANGED <<tracker, records>>
     ELSE /\ records' = Append(records, Tracked(tracker, bag[next], tool))
          /\ tracker' = Reseeded(tracker, bag[next], tool)
  /\ UNCHANGED <<phase, file>>
  /\ UnchangedByTool

\* The header, with the number of records to come.
OpenFile ==
  /\ phase = "feeding"
  /\ next > Len(bag)
  /\ phase' = "writing"
  /\ file' = [n |-> Len(records), frames |-> <<>>, grid |-> tool.grid]
  /\ UNCHANGED <<next, counter, tracker, records>>
  /\ UnchangedByTool

WriteFrame ==
  /\ phase = "writing"
  /\ Len(file.frames) < Len(records)
  /\ file' = [file EXCEPT !.frames = Append(@, records[Len(@) + 1])]
  /\ UNCHANGED <<phase, next, counter, tracker, records>>
  /\ UnchangedByTool

\* The tool returns, or is killed, and what it wrote stays.
EndTool ==
  /\ phase = "writing"
  /\ phase' = "ended"
  /\ UNCHANGED <<next, counter, tracker, records, file>>
  /\ UnchangedByTool

-----------------------------------------------------------------------------
(* The run.                                                                *)

Whole == Len(file.frames) = file.n
HeaderAgrees == file.grid = run.grid

\* load() and the check of its header; a run whose tracker did not load throws.
\* A run on a sensor stream may miss the first messages.
LoadCache ==
  /\ phase = "ended"
  /\ IF Whole /\ HeaderAgrees
     THEN /\ phase' = "running"
          /\ cache' = file.frames
     ELSE /\ phase' = "refused"
          /\ UNCHANGED cache
  /\ next' \in DOMAIN bag
  /\ counter' = 0
  /\ UNCHANGED <<bag, tool, run, tracker, records, file, current, chain, results, shadow, live>>

IsValid(t) == t >= current

\* imageCallback(), and the tracking thread's turn with the image.
ImageCallback ==
  /\ phase = "running"
  /\ next <= Len(bag)
  /\ next' = next + 1
  /\ counter' = Counted(run)
  /\ LET img == bag[next]
     IN  IF Skipped(run) \/ ~IsValid(img.t) \/ img.empty
         THEN UNCHANGED <<chain, results, shadow, live>>
         ELSE /\ results' = Append(results,
                   [Found(cache, img.t) EXCEPT !.t = img.t, !.prev = chain])
              /\ live' = Append(live, [Tracked(shadow, img, run) EXCEPT !.prev = chain])
              /\ shadow' = Reseeded(shadow, img, run)
              /\ chain' = img.t
  /\ UNCHANGED <<bag, tool, run, phase, tracker, records, file, cache, current>>

\* A measure group is formed up to an image that has its result.
FormGroup ==
  /\ phase = "running"
  /\ \E k \in DOMAIN results : results[k].t > current /\ current' = results[k].t
  /\ UNCHANGED <<bag, tool, run, phase, next, counter, tracker, records, file, cache,
                 chain, results, shadow, live>>

CacheNext ==
  \/ FeedTool
  \/ OpenFile
  \/ WriteFrame
  \/ EndTool
  \/ LoadCache
  \/ ImageCallback
  \/ FormGroup

CacheSpec == CacheInit /\ [][CacheNext]_cacheVars

-----------------------------------------------------------------------------
(* Properties.                                                             *)

Increasing == \A i \in 1..(Len(bag) - 1) : bag[i].t < bag[i + 1].t
RecordsOf(t) == {r \in DOMAIN records : records[r].t = t}
AsRun(r, k) == [records[r] EXCEPT !.t = results[k].t, !.prev = results[k].prev]

\* Whatever the order of the stamps, an image never gets the record of another one; and
\* when they increase along the bag, an image the tool has seen gets its own record.
FindsOwnRecord ==
  \A k \in DOMAIN results :
    LET mine == {AsRun(r, k) : r \in RecordsOf(results[k].t)}
        none == [NoRecord EXCEPT !.t = results[k].t, !.prev = results[k].prev]
    IN  /\ results[k] \in mine \cup {none}
        /\ Increasing /\ mine # {} => results[k] \in mine

\* The run has the tool's settings, images come in order, and the first is in the cache.
Replaying == tool = run /\ Increasing /\ results # <<>> /\ RecordsOf(results[1].t) # {}

\* Replaying is tracking: with the tool's settings, from the first image whose anchors
\* the run would have selected itself, a run that starts at an image of the cache has
\* the frames it would have tracked; all of them when it starts where the tool did.
ReplayIsTracking ==
  Replaying =>
    /\ \A k \in DOMAIN results :
         (\E j \in 1..(k - 1) : live[j].reseeded) => results[k] = live[k]
    /\ records[1].t = results[1].t => results = live

\* The displacement a result reports begins in the image its prev_timestamp names, whose
\* pose the correction looks up, however many reseeds were skipped on the way: a run that
\* tracks re-anchors its tracks on every image (point_tracker.h:69), and in a replay the
\* predecessor is the run's but the tracks are the tool's.  (The first image of a replay
\* that joins later has no predecessor, README, "Observations".)
OnPredecessor(r) == r.ok => r.from # <<>> /\ Last(r.from) = r.prev
TracksFromPredecessor ==
  /\ \A k \in DOMAIN live : OnPredecessor(live[k])
  /\ Replaying => \A k \in 2..Len(results) : OnPredecessor(results[k])

\* Grid selection: every pixel of the region shares a cell with an anchor at least as
\* good; cells that have a pixel each part the region, with one anchor in each.
BestOfEachCell(img, set, chosen) ==
  LET cells(x) == {c \in 1..set.grid : x \in CellPixels(img, set.grid, c)}
  IN  /\ \A x \in Region(img) : \E k \in DOMAIN chosen :
           img.scores[chosen[k]] >= img.scores[x] /\ cells(chosen[k]) \cap cells(x) # {}
      /\ set.grid <= Valid.width =>
           /\ \A x \in Region(img) : Cardinality(cells(x)) = 1
           /\ \A j, k \in DOMAIN chosen :
                /\ chosen[j] \in Region(img)
                /\ j # k => cells(chosen[j]) \cap cells(chosen[k]) = {}

\* Global selection: no two anchors too close, and a pixel is left out only for a better
\* anchor too close to it, for a full set of better ones, or as too far down the ranking.
BestAndSpread(img, set, chosen) ==
  /\ Len(chosen) <= set.grid
  /\ \A j, k \in DOMAIN chosen : j # k => Apart(chosen[j], chosen[k], set.spacing)
  /\ \A k \in DOMAIN chosen : chosen[k] \in Region(img)
  /\ \A x \in Region(img) :
       LET better == {k \in DOMAIN chosen : img.scores[chosen[k]] >= img.scores[x]}
           ahead == {y \in Region(img) \ {x} : img.scores[y] >= img.scores[x]}
       IN  \/ \E k \in better : chosen[k] = x \/ ~Apart(chosen[k], x, set.spacing)
           \/ Cardinality(better) = set.grid
           \/ Cardinality(ahead) >= CandidateCap

\* What either selection gives for any image of the bag.
AnchorsBestAndSpread ==
  \A i \in DOMAIN bag :
    IF run.mode = "grid" THEN BestOfEachCell(bag[i], run, SelectAnchors(bag[i], run))
    ELSE BestAndSpread(bag[i], run, SelectAnchors(bag[i], run))

\* "Only the raw TOP few thousand candidates can possibly matter once min_distance_px
\* spacing is enforced" (tracker.cpp:279): ranking the slice selects what ranking every
\* pixel would.  Not so, and in no run (README, "Observations").
SliceSuffices ==
  \A i \in DOMAIN bag :
    run.mode = "topN" =>
      GlobalTopN(bag[i], run) = Spaced(Ranked(bag[i], Region(bag[i])), run)
=============================================================================
