----------------------------- MODULE DataQueues -----------------------------
(***************************************************************************)
(* The three raw sensor streams of the node (struct DataQueues): images,   *)
(* LiDAR scans and IMU samples, each in a queue of its own, with the time  *)
(* of the newest accepted message per stream, the shared start time, and   *)
(* the "settled" test that decides when the front image may be consumed.   *)
(*                                                                         *)
(* Times are natural numbers (ticks).  A message carries an absolute       *)
(* stamp; what is queued is relative to startTime.  An image is a record   *)
(* [t, n]: its stamp and its position n in the order images were handed to *)
(* the tracker.  A scan is the nonempty set of its point times (points     *)
(* are sorted by time before they are pushed, so front() is the least and  *)
(* back() the greatest element).                                           *)
(***************************************************************************)
EXTENDS Integers, Sequences, FiniteSets

CONSTANTS
  Lookahead,    \* DataQueues::lookahead_margin_s, in ticks
  QuietMargin,  \* DataQueues::quiet_margin_s, in ticks of bag time
  OfflineModes  \* bound: the values of offline_mode

ASSUME MarginAssumption ==
  /\ Lookahead \in Nat
  /\ QuietMargin \in Nat
  /\ OfflineModes \subseteq BOOLEAN

VARIABLES
  imageQ, lidarQ, imuQ,                 \* the queues, relative times
  latestImage, latestLidar, latestImu,  \* newest accepted stamp, absolute
  latestFed,                            \* newest stamp fed on any stream
  quiet,       \* live mode: no arrival on the stream for quiet_margin_s
  startTime,
  offlineMode  \* set by runOffline(), once

dqVars == <<imageQ, lidarQ, imuQ, latestImage, latestLidar, latestImu,
            latestFed, quiet, startTime, offlineMode>>

Streams == {"lidar", "imu"}

Earliest(S) == CHOOSE t \in S : \A u \in S : t <= u
Latest(S)   == CHOOSE t \in S : \A u \in S : u <= t

Shift(S, d) == {t - d : t \in S}

DataQueuesInit ==
  /\ imageQ = <<>>
  /\ lidarQ = <<>>
  /\ imuQ = <<>>
  /\ latestImage = 0
  /\ latestLidar = 0
  /\ latestImu = 0
  /\ latestFed = 0
  /\ quiet = [s \in Streams |-> FALSE]
  /\ startTime = 0
  /\ offlineMode \in OfflineModes

-----------------------------------------------------------------------------
(* Producers: one per sensor callback.                                     *)

\* Raised for a message that is then dropped as well.
UpdateLatestFedTime(t) == latestFed' = IF t > latestFed THEN t ELSE latestFed

PushImu(t) ==
  /\ UpdateLatestFedTime(t)
  /\ quiet' = [quiet EXCEPT !["imu"] = FALSE]
  /\ IF t < latestImu
     THEN UNCHANGED <<latestImu, imuQ>>
     ELSE /\ latestImu' = t
          /\ imuQ' = Append(imuQ, t - startTime)
  /\ UNCHANGED <<imageQ, lidarQ, latestImage, latestLidar, startTime, offlineMode>>

\* lidarMessageOverlapsPrevious(): starts before the accepted one ended.
Overlaps(scan) == Earliest(scan) < latestLidar

PushLidar(scan) ==
  /\ UpdateLatestFedTime(Latest(scan))
  /\ quiet' = [quiet EXCEPT !["lidar"] = FALSE]
  /\ IF Overlaps(scan)
     THEN UNCHANGED <<latestLidar, lidarQ>>
     ELSE /\ latestLidar' = Latest(scan)
          /\ lidarQ' = Append(lidarQ, Shift(scan, startTime))
  /\ UNCHANGED <<imageQ, imuQ, latestImage, latestImu, startTime, offlineMode>>

PushImage(t, n) ==
  /\ UpdateLatestFedTime(t)
  /\ IF t < latestImage
     THEN UNCHANGED <<latestImage, imageQ>>
     ELSE /\ latestImage' = t
          /\ imageQ' = Append(imageQ, [t |-> t - startTime, n |-> n])
  /\ UNCHANGED <<lidarQ, imuQ, latestLidar, latestImu, quiet, startTime, offlineMode>>

\* Live mode only: wall-clock time passes without an arrival on stream s.
QuietElapses(s) ==
  /\ ~offlineMode
  /\ ~quiet[s]
  /\ quiet' = [quiet EXCEPT ![s] = TRUE]
  /\ UNCHANGED <<imageQ, lidarQ, imuQ, latestImage, latestLidar, latestImu,
                 latestFed, startTime, offlineMode>>

-----------------------------------------------------------------------------
(* The acceptance test of the front image.                                 *)

\* Deviation: a stream that stopped early counts as settled.
SettledWhenQuiet(s, t, latest) ==
  \/ latest >= t + Lookahead
  \/ IF offlineMode THEN latestFed - latest >= QuietMargin ELSE quiet[s]

StreamSettled(s, t, latest) ==
  \/ latest >= t + Lookahead
  \/ /\ latest >= t
     /\ IF offlineMode THEN latestFed - latest >= QuietMargin ELSE quiet[s]

Ready ==
  /\ imageQ # <<>>
  /\ LET t == Head(imageQ).t + startTime
     IN  /\ StreamSettled("lidar", t, latestLidar)
         /\ StreamSettled("imu", t, latestImu)

-----------------------------------------------------------------------------
(* Consumers.  Each returns what is handed out and what stays queued.      *)

\* Deviation: a scan that has started counts as complete.
StartedScans(max) ==
  Cardinality({k \in 1..Len(lidarQ) :
                 \A j \in 1..k : Earliest(lidarQ[j]) <= max})

\* Scans that popLidar() moves out whole: the longest run of scans from the
\* front that end no later than max.
WholeScans(max) ==
  Cardinality({k \in 1..Len(lidarQ) :
                 \A j \in 1..k : Latest(lidarQ[j]) <= max})

\* The scan the loop stops at, if it starts no later than max: it is split
\* at max by upper_bound.
SplitScan(max) ==
  LET k == WholeScans(max) + 1
  IN  IF k <= Len(lidarQ) /\ Earliest(lidarQ[k]) <= max THEN {k} ELSE {}

UpTo(scan, max) == {t \in scan : t <= max}

PoppedPoints(max) ==
  UNION ({lidarQ[k] : k \in 1..WholeScans(max)}
         \cup {UpTo(lidarQ[k], max) : k \in SplitScan(max)})

LidarLeft(max) ==
  LET rest == SubSeq(lidarQ, WholeScans(max) + 1, Len(lidarQ))
  IN  IF SplitScan(max) = {} THEN rest
      ELSE <<Head(rest) \ UpTo(Head(rest), max)>> \o Tail(rest)

\* popImu(): everything before max and the first sample at or after it; that
\* boundary sample is handed out but stays queued for the next group.
BeforeMax(max) ==
  Cardinality({k \in 1..Len(imuQ) : \A j \in 1..k : imuQ[j] < max})

PoppedImu(max) ==
  LET k == BeforeMax(max)
  IN  SubSeq(imuQ, 1, IF k < Len(imuQ) THEN k + 1 ELSE k)

ImuLeft(max) == SubSeq(imuQ, BeforeMax(max) + 1, Len(imuQ))

\* The queues after one image and everything up to its time were popped.
PopFront(max) ==
  /\ imageQ' = Tail(imageQ)
  /\ lidarQ' = LidarLeft(max)
  /\ imuQ' = ImuLeft(max)

\* setStartTime(): everything queued becomes relative to `start` (which was 0
\* until now); the latest*Time fields stay absolute.
SetStartTime(start, images, scans, samples) ==
  /\ startTime' = start
  /\ imageQ' = [k \in DOMAIN images |-> [images[k] EXCEPT !.t = @ - start]]
  /\ lidarQ' = [k \in DOMAIN scans |-> Shift(scans[k], start)]
  /\ imuQ' = [k \in DOMAIN samples |-> samples[k] - start]
=============================================================================
