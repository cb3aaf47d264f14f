------------------------------- MODULE EvoMatch -------------------------------
(***************************************************************************)
(* Ground-truth evaluation: src/processing/evo_processing.cpp.             *)
(*                                                                         *)
(* Each frame the pipeline finishes is the "after" side of a bracket whose *)
(* "before" side is the frame before it; the samples of the ground truth   *)
(* that fall into the bracket are matched to the nearer of the two, to a   *)
(* pose interpolated between them, or dropped.  The truth is a file read   *)
(* at startup or a topic that arrives on its own schedule, through a queue *)
(* and a bounded buffer.  Time is a whole number of ticks; a sample keeps  *)
(* its true time beside the one the code computes for it.  Poses and the   *)
(* alignment are left out: a match is the frames it was made from.         *)
(***************************************************************************)
EXTENDS Integers, SequencesExt

CONSTANTS
  QueueSize,       \* evo/queue_size
  MaxTimeDiff,     \* evo/max_time_diff
  RpeDelta,        \* evo/rpe/delta_s
  Start,           \* absolute time of the first sensor message
  MaxTime,         \* bound: last tick
  MaxSamples       \* bound: samples of the ground truth

ASSUME EvoAssumption ==
  /\ {QueueSize, MaxTimeDiff, RpeDelta, Start, MaxTime, MaxSamples} \subseteq Nat
  /\ QueueSize > 0

VARIABLES
  opts,            \* EvoProcOptions, as loadParameters() leaves them
  startTime,       \* data_queues_->start_time, 0 before the first message
  gtQueue,         \* data_queues_->gt_queue
  gtBuffer,        \* gt_buffer_
  nextGt,          \* next_gt_idx_
  shifted,         \* gt_file_ts_shifted_
  orientationSeen, \* gt_orientation_seen_
  bracket,         \* bracket_cache_: the frame before, or none
  matched,         \* matched_vio_ (the other stages run in step)
  lastStats,       \* last_stats_nearest_ and last_stats_interp_
  evoStats,        \* mg.evo_stats of the frame in hand
  csv,             \* rows of ate_per_frame_vio_<mode>.csv, once the run is over
  frames,          \* history variable: times of the frames processed
  drained,         \* history variable: samples taken into the buffer
  examined,        \* history variable: samples looked at, in order
  evicted,         \* history variable: samples dropped before that
  late             \* history variable: samples drained after their bracket had closed

gtVars   == <<gtQueue, gtBuffer, nextGt, shifted, orientationSeen, drained, evicted, late>>
matchVars == <<bracket, matched, lastStats, evoStats, frames, examined>>
vars     == <<opts, startTime, gtVars, matchVars, csv>>

AssocModes == {"nearest", "interp"}
NoFrame == -1
Times == 0..MaxTime

Absolute(lines) == [i \in DOMAIN lines |-> [t |-> lines[i] + Start, true |-> lines[i]]]

(* Deviation: the file is used in the order of its lines.                  *)
LoadGtFileUnsorted(lines) == {Absolute(lines)}

(* loadGtFile: absolute times, sorted.  The sort leaves one sequence, the  *)
(* lines in the order of their times.                                      *)
LoadGtFile(lines) ==
  {buffer \in [DOMAIN lines -> Range(Absolute(lines))] :
     /\ Range(buffer) = Range(Absolute(lines))
     /\ \A i, j \in DOMAIN lines : i < j => buffer[i].t < buffer[j].t}

(* loadParameters: sparse checkpoints switch the relative metrics off;     *)
(* dense metrics insist on a file that loads and carries orientation.      *)
Accepted(o, lines) == o.dense => o.file /\ lines # <<>> /\ o.oriented

Effective(o) ==
  LET off == o.file /\ ~o.dense
  IN [o EXCEPT !.rte = @ /\ ~off, !.roe = @ /\ ~off]

Distinct(lines) == \A i, j \in DOMAIN lines : lines[i] = lines[j] => i = j

Lines == {l \in UNION {[1..n -> Times] : n \in 0..MaxSamples} : Distinct(l)}

Init ==
  /\ \E o \in [file : BOOLEAN, dense : BOOLEAN, oriented : BOOLEAN, rte : BOOLEAN, roe : BOOLEAN,
               nearestLive : BOOLEAN],
        lines \in Lines :
       /\ ~o.file => lines = <<>>
       /\ Accepted(o, lines)
       /\ opts = Effective(o)
       /\ gtBuffer \in LoadGtFile(lines)
       /\ drained = [i \in DOMAIN lines |-> gtBuffer[i].true]
       /\ orientationSeen = (o.oriented /\ lines # <<>>)
  /\ startTime = 0 /\ gtQueue = <<>> /\ nextGt = 0 /\ shifted = FALSE
  /\ bracket = NoFrame
  /\ matched = [m \in AssocModes |-> <<>>]
  /\ lastStats = [m \in AssocModes |-> 0] /\ evoStats = lastStats
  /\ csv = <<>> /\ late = {}
  /\ frames = <<>> /\ examined = <<>> /\ evicted = {}

------------------------------------------------------------------------------
(* DataQueues::pushGt.  One publisher stamps its samples in order; how     *)
(* late they come is open.                                                 *)
TrueTimes(samples) == {samples[i].true : i \in DOMAIN samples}
Known == Range(drained) \cup TrueTimes(gtQueue)

GtCallback ==
  /\ csv = <<>> /\ ~opts.file /\ Cardinality(Known) < MaxSamples
  /\ \E t \in Times :
       /\ \A k \in Known : k < t
       /\ gtQueue' = Append(gtQueue, [t |-> t + Start - startTime, true |-> t])
  /\ UNCHANGED <<opts, startTime, gtBuffer, nextGt, shifted, orientationSeen, drained, evicted, late, matchVars, csv>>

(* DataQueues::setStartTime, for the ground truth.                         *)
QueueShifted == [i \in DOMAIN gtQueue |-> [gtQueue[i] EXCEPT !.t = @ - Start]]

SetStartTime ==
  /\ csv = <<>> /\ startTime = 0
  /\ startTime' = Start
  /\ gtQueue' = QueueShifted
  /\ UNCHANGED <<opts, gtBuffer, nextGt, shifted, orientationSeen, drained, evicted, late, matchVars, csv>>

------------------------------------------------------------------------------
(* processEvo(mg) for the next frame.                                      *)

(* next_gt_idx_ follows the sample it points at.                           *)
CursorAfterEviction(next) == IF next > 0 THEN next - 1 ELSE next

(* drainGtQueue: one sample into the buffer, the oldest out if it is full. *)
Drained1(b, s) ==
  LET full == Append(b.buffer, s)
  IN IF Len(full) <= QueueSize THEN [b EXCEPT !.buffer = full]
     ELSE [buffer |-> Tail(full),
           next   |-> CursorAfterEviction(b.next),
           lost   |-> IF b.next = 0 THEN b.lost \cup {Head(full).true} ELSE b.lost]

DrainGtQueue ==
  LET after[n \in 0..Len(gtQueue)] ==
        IF n = 0 THEN [buffer |-> gtBuffer, next |-> nextGt, lost |-> evicted]
        ELSE Drained1(after[n - 1], gtQueue[n])
  IN after[Len(gtQueue)]

(* shiftGtFileTimestampsOnce.                                              *)
ShiftedFile ==
  IF shifted THEN gtBuffer ELSE [i \in DOMAIN gtBuffer |-> [gtBuffer[i] EXCEPT !.t = @ - startTime]]

Buffer ==
  IF opts.file THEN [buffer |-> ShiftedFile, next |-> nextGt, lost |-> evicted] ELSE DrainGtQueue

(* The samples this frame closes the bracket of: from the cursor to the    *)
(* first that is later than the frame.                                     *)
DueSamples(b, now) ==
  LET end == CHOOSE e \in b.next..Len(b.buffer) :
               /\ \A i \in (b.next + 1)..e : b.buffer[i].t <= now
               /\ e < Len(b.buffer) => b.buffer[e + 1].t > now
  IN SubSeq(b.buffer, b.next + 1, end)

(* Deviation: the frame after is taken whichever is nearer.                *)
NearerIsAfter(s, before, now) == now

Nearer(s, before, now) == IF s.t - before <= now - s.t THEN before ELSE now

NearestMatch(s, before, now) ==
  LET f == Nearer(s, before, now)
      gap == IF f = before THEN s.t - before ELSE now - s.t
  IN IF (opts.file \/ opts.nearestLive) /\ gap <= MaxTimeDiff
     THEN <<[true |-> s.true, at |-> s.t, from |-> f, to |-> f]>> ELSE <<>>

InterpMatch(s, before, now) ==
  IF ~opts.file /\ now - before <= 2 * MaxTimeDiff
  THEN <<[true |-> s.true, at |-> s.t, from |-> before, to |-> now]>> ELSE <<>>

(* Without a frame before it a sample is passed over.                      *)
Matches(due, now) ==
  LET of(m, s) == IF bracket = NoFrame THEN <<>>
                  ELSE IF m = "nearest" THEN NearestMatch(s, bracket, now) ELSE InterpMatch(s, bracket, now)
  IN [m \in AssocModes |-> FlattenSeq([i \in DOMAIN due |-> of(m, due[i])])]

(* commitMatch: the tables of the modes that gained a match are redrawn,   *)
(* and the frame carries both.  A table is known by the poses it counts.   *)
Redrawn(new) == [m \in AssocModes |-> IF new[m] = <<>> THEN lastStats[m] ELSE Len(matched[m]) + Len(new[m])]

ProcessEvo ==
  /\ csv = <<>> /\ startTime # 0
  /\ \E now \in Times :
       /\ frames # <<>> => now > Last(frames)
       /\ LET b   == Buffer
              due == DueSamples(b, now)
              new == Matches(due, now)
          IN /\ gtBuffer' = b.buffer
             /\ nextGt' = b.next + Len(due)
             /\ evicted' = b.lost
             /\ matched' = [m \in AssocModes |-> matched[m] \o new[m]]
             /\ lastStats' = Redrawn(new) /\ evoStats' = lastStats'
             /\ examined' = examined \o [i \in DOMAIN due |-> due[i].true]
       /\ bracket' = now
       /\ frames' = Append(frames, now)
  /\ shifted' = opts.file
  /\ gtQueue' = IF opts.file THEN gtQueue ELSE <<>>
  /\ drained' = IF opts.file THEN drained ELSE drained \o [i \in DOMAIN gtQueue |-> gtQueue[i].true]
  /\ late' = late \cup {t \in TrueTimes(gtQueue) : t < bracket}
  /\ orientationSeen' = (orientationSeen \/ (~opts.file /\ opts.oriented /\ gtQueue # <<>>))
  /\ UNCHANGED <<opts, startTime, csv>>

------------------------------------------------------------------------------
(* logStage: what a table of n poses reports.                              *)
RelativePairs(n, d) == {<<i, i + d>> : i \in 1..(n - d)}

DeltaFrames(poses) ==
  LET n    == Len(poses)
      span == poses[n].at - poses[1].at
      half == (2 * RpeDelta * (n - 1) + span) \div (2 * span)
  IN IF n > 1 /\ span > 0 /\ half > 1 THEN half ELSE 1

Reported(m, n) ==
  LET poses == SubSeq(matched[m], 1, n)
      pairs == RelativePairs(n, DeltaFrames(poses))
  IN IF n < 3 THEN {}
     ELSE {"ATE"}
       \cup (IF opts.rte /\ pairs # {} THEN {"RTE"} ELSE {})
       \cup (IF opts.roe /\ pairs # {} THEN {"ROE"} ELSE {})
       \cup (IF (opts.roe \/ opts.dense) /\ orientationSeen THEN {"ARE"} ELSE {})
       \cup (IF opts.dense /\ orientationSeen THEN {"ATE_first", "ARE_first"} ELSE {})

(* finishRun: exportAtePerFrameCsv, a row for each pose of a mode that     *)
(* has enough of them to align.                                            *)
ExportAtePerFrameCsv ==
  /\ csv = <<>> /\ frames # <<>>
  /\ csv' = [m \in AssocModes |-> IF Len(matched[m]) < 3 THEN 0 ELSE Len(matched[m])]
  /\ UNCHANGED <<opts, startTime, gtVars, matchVars>>

Next == GtCallback \/ SetStartTime \/ ProcessEvo \/ ExportAtePerFrameCsv

Spec == Init /\ [][Next]_vars

------------------------------------------------------------------------------
Apart(a, b) == IF a > b THEN a - b ELSE b - a
Waiting == {gtBuffer[i].true : i \in {k \in DOMAIN gtBuffer : k > nextGt}}

(* A match made in time is the match an offline evaluator with all frames  *)
(* at hand would make: the nearest of all frames, or the two neighbouring  *)
(* frames around the sample, at the sample's true time, whether it came    *)
(* from a file, before the clock was set or after.                         *)
MatchesCorrect ==
  \A m \in AssocModes : \A p \in {q \in Range(matched[m]) : q.true \notin late} :
    /\ p.at = p.true
    /\ m = "nearest" => /\ p.from \in Range(frames) /\ Apart(p.from, p.true) <= MaxTimeDiff
                        /\ \A f \in Range(frames) : Apart(f, p.true) >= Apart(p.from, p.true)
    /\ m = "interp"  => /\ p.from <= p.true /\ p.true <= p.to
                        /\ {f \in Range(frames) : p.from <= f /\ f <= p.to} = {p.from, p.to}

(* Of the checkpoints of a file, those the run has passed are matched once *)
(* if a frame lies within max_time_diff, and no others are: one before the *)
(* first frame is skipped, one after the last is left.                     *)
CheckpointsMatched ==
  opts.file =>
    LET due == {c \in Range(drained) :
                  /\ frames # <<>> /\ frames[1] < c /\ c <= Last(frames)
                  /\ \E f \in Range(frames) : Apart(f, c) <= MaxTimeDiff}
    IN /\ {p.true : p \in Range(matched["nearest"])} = due
       /\ Len(matched["nearest"]) = Cardinality(due)

(* The cursor follows the buffer through evictions (the comment in         *)
(* drainGtQueue): every sample taken in has been examined once, in order,  *)
(* or waits behind the cursor, or was evicted before its turn.             *)
CursorExact ==
  /\ Range(drained) = Range(examined) \cup Waiting \cup evicted
  /\ Range(examined) \cap (Waiting \cup evicted) = {} /\ Waiting \cap evicted = {}
  /\ \A i, j \in DOMAIN examined : i < j => examined[i] < examined[j]

(* The overlay of a frame, each mode's table in it and the csv written at  *)
(* the end agree: a mode that gains nothing keeps its last table, which    *)
(* still counts every match it has.                                        *)
ReportsAgree ==
  \A m \in AssocModes :
    /\ evoStats[m] = Len(matched[m])
    /\ csv # <<>> => csv[m] = IF "ATE" \in Reported(m, evoStats[m]) THEN evoStats[m] ELSE 0

(* No checkpoint is passed over or counted twice, from the queue to the    *)
(* report.                                                                 *)
CheckpointsOnce == CheckpointsMatched /\ CursorExact /\ ReportsAgree

(* What evo_processing.h says of both sources: no code path extrapolates   *)
(* a pose from one side.  Not so, and in no run (README, "Observations").  *)
NoExtrapolation ==
  \A p \in Range(matched["interp"]) : p.from <= p.true /\ p.true <= p.to
=============================================================================
