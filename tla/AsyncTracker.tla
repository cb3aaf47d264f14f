---------------------------- MODULE AsyncTracker ----------------------------
(***************************************************************************)
(* The asynchronous tracking pipeline (class Tracker): the main thread     *)
(* feeds images and consumes results, a background thread runs one         *)
(* step() + reseed() per image.  The two share input_queue_ (under         *)
(* input_mutex_), result_queue_ (under result_mutex_), the stop flag (an   *)
(* atomic, under no mutex) and uv_prev_/uv_curr_ (under nothing).          *)
(*                                                                         *)
(* Images are named by their position in feed order; NoFrame stands for    *)
(* the -1.0 stamp and for "nothing".  A vector of tracked points is named  *)
(* by the image it was computed on, NoFrame when it is empty.              *)
(***************************************************************************)
EXTENDS Integers, Sequences

CONSTANTS
  MaxImages,    \* bound: images fed
  VizUvTracking \* the main thread draws (and clears) uv_prev_/uv_curr_

ASSUME TrackerAssumption == MaxImages \in Nat /\ VizUvTracking \in BOOLEAN

NoFrame == 0

VARIABLES
  nFed,
  inputQ,       \* input_queue_
  resultQ,      \* result_queue_
  main,         \* main thread: "loop", "stopping", "notified", "joined"
  active,       \* tracking_thread_.joinable()
  stop,         \* stop_requested_
  bg,           \* background thread's program counter
  cur,          \* the image it works on
  prevChain,    \* prev_timestamp_chain
  out,          \* the TrackedFrame under construction
  anchors,      \* anchors_: the image the live anchor set was selected on
  hasPrev,      \* PointTracker::have_prev_
  uvCurr        \* uv_curr_

vars == <<nFed, inputQ, resultQ, main, active, stop, bg, cur, prevChain, out,
          anchors, hasPrev, uvCurr>>

NoOut == [ok |-> FALSE, uv |-> NoFrame, anchors |-> NoFrame]

\* "test": holds input_mutex_ about to evaluate the wait predicate; "commit":
\* found it false, still holds the mutex, not yet asleep; "asleep": waiting on
\* input_cv_; "step", "snap", "seed", "push": working on cur; "gone": returned.
BgStates == {"test", "commit", "asleep", "step", "snap", "seed", "push", "gone"}

Init ==
  /\ nFed = 0
  /\ inputQ = <<>>
  /\ resultQ = <<>>
  /\ main = "loop"
  /\ active \in BOOLEAN   \* startAsyncTracking() ran, or VIO is disabled
  /\ stop = FALSE
  /\ bg = IF active THEN "test" ELSE "gone"
  /\ cur = NoFrame
  /\ prevChain = NoFrame
  /\ out = NoOut
  /\ anchors = NoFrame
  /\ hasPrev = FALSE
  /\ uvCurr = NoFrame

-----------------------------------------------------------------------------
(* Main thread.                                                            *)

InputMutexFree == bg # "commit"

NotNotified == UNCHANGED bg   \* deviation: the notify is forgotten
\* notify on input_cv_: only a thread that is already asleep hears it.
Notified == bg' = IF bg = "asleep" THEN "test" ELSE bg

Enqueued(n) == Append(inputQ, n)

FeedImage ==
  /\ main = "loop"
  /\ nFed < MaxImages
  /\ nFed' = nFed + 1
  /\ IF active
     THEN /\ InputMutexFree
          /\ inputQ' = Enqueued(nFed + 1)
          /\ Notified
     ELSE UNCHANGED <<inputQ, bg>>
  /\ UNCHANGED <<resultQ, main, active, stop, cur, prevChain, out, anchors,
                 hasPrev, uvCurr>>

\* consumeResult(), after waitReadyFor(0ms) has seen a result.
ConsumeResult ==
  /\ main = "loop"
  /\ resultQ # <<>>
  /\ resultQ' = Tail(resultQ)
  /\ UNCHANGED <<nFed, inputQ, main, active, stop, bg, cur, prevChain, out,
                 anchors, hasPrev, uvCurr>>

\* maybeDrawUvTracking(): called for every published image.
MaybeDrawUvTracking ==
  /\ VizUvTracking
  /\ main = "loop"
  /\ uvCurr' = NoFrame
  /\ UNCHANGED <<nFed, inputQ, resultQ, main, active, stop, bg, cur, prevChain,
                 out, anchors, hasPrev>>

\* stopAsyncTracking(), its three statements: the flag, the notify, the join.
RequestStop ==
  /\ main = "loop"
  /\ active
  /\ stop' = TRUE
  /\ main' = "stopping"
  /\ UNCHANGED <<nFed, inputQ, resultQ, active, bg, cur, prevChain, out,
                 anchors, hasPrev, uvCurr>>

NotifyStop ==
  /\ main = "stopping"
  /\ main' = "notified"
  /\ Notified
  /\ UNCHANGED <<nFed, inputQ, resultQ, active, stop, cur, prevChain, out,
                 anchors, hasPrev, uvCurr>>

JoinStop ==
  /\ main = "notified"
  /\ bg = "gone"
  /\ main' = "joined"
  /\ active' = FALSE
  /\ UNCHANGED <<nFed, inputQ, resultQ, stop, bg, cur, prevChain, out, anchors,
                 hasPrev, uvCurr>>

-----------------------------------------------------------------------------
(* Background thread: asyncTrackingLoop().                                 *)

Working == UNCHANGED <<nFed, main, active, stop>>

\* The loop returns only once the queue is drained.
StopAtOnce == stop             \* deviation: queued images are abandoned
Finished == stop /\ inputQ = <<>>

TestPredicate ==
  /\ bg = "test"
  /\ IF inputQ # <<>> /\ ~Finished
     THEN /\ cur' = Head(inputQ)
          /\ inputQ' = Tail(inputQ)
          /\ bg' = "step"
     ELSE /\ bg' = IF Finished THEN "gone" ELSE "commit"
          /\ UNCHANGED <<cur, inputQ>>
  /\ Working
  /\ UNCHANGED <<resultQ, prevChain, out, anchors, hasPrev, uvCurr>>

FallAsleep ==
  /\ bg = "commit"
  /\ bg' = "asleep"
  /\ Working
  /\ UNCHANGED <<inputQ, resultQ, cur, prevChain, out, anchors, hasPrev, uvCurr>>

\* A condition variable may wake without a notify; nothing relies on it.
SpuriousWakeup ==
  /\ bg = "asleep"
  /\ bg' = "test"
  /\ Working
  /\ UNCHANGED <<inputQ, resultQ, cur, prevChain, out, anchors, hasPrev, uvCurr>>

\* step(): without a previous reseed it is not called; otherwise the outputs
\* are cleared, and filled unless there is nothing to track (empty seed set).
StepBackend ==
  /\ bg = "step"
  /\ \E tracked \in (IF hasPrev THEN BOOLEAN ELSE {FALSE}) :
       /\ out' = [NoOut EXCEPT !.ok = tracked]
       /\ bg' = IF tracked THEN "snap" ELSE "seed"
       /\ uvCurr' = IF tracked THEN cur ELSE IF hasPrev THEN NoFrame ELSE uvCurr
  /\ Working
  /\ UNCHANGED <<inputQ, resultQ, cur, prevChain, anchors, hasPrev>>

\* The copy of uv_curr_ and anchors_ into the frame, before the reseed.
Snapshot ==
  /\ bg = "snap"
  /\ out' = [out EXCEPT !.uv = uvCurr, !.anchors = anchors]
  /\ bg' = "seed"
  /\ Working
  /\ UNCHANGED <<inputQ, resultQ, cur, prevChain, anchors, hasPrev, uvCurr>>

\* Reseed on this image, skipped when it offers too few candidates.
Reseed ==
  /\ bg = "seed"
  /\ \/ anchors' = cur /\ hasPrev' = TRUE
     \/ UNCHANGED <<anchors, hasPrev>>
  /\ bg' = "push"
  /\ Working
  /\ UNCHANGED <<inputQ, resultQ, cur, prevChain, out, uvCurr>>

\* Deviations: the anchors are read when the result is pushed; only successful
\* frames advance the chain.
LiveAnchors    == anchors
SuccessChained == IF out.ok THEN cur ELSE prevChain

FrameStamp   == cur
FrameAnchors == out.anchors
NextChain    == cur

\* Stamp, chain and publish.
PushResult ==
  /\ bg = "push"
  /\ resultQ' = Append(resultQ, [n |-> FrameStamp, prev |-> prevChain, ok |-> out.ok,
                                 uv |-> out.uv, anchors |-> FrameAnchors])
  /\ prevChain' = NextChain
  /\ cur' = NoFrame
  /\ out' = NoOut
  /\ bg' = "test"
  /\ Working
  /\ UNCHANGED <<inputQ, anchors, hasPrev, uvCurr>>

Background ==
  \/ TestPredicate \/ FallAsleep
  \/ StepBackend \/ Snapshot \/ Reseed \/ PushResult

Next ==
  \/ FeedImage \/ ConsumeResult \/ MaybeDrawUvTracking
  \/ RequestStop \/ NotifyStop \/ JoinStop
  \/ Background \/ SpuriousWakeup

Spec == Init /\ [][Next]_vars

\* Both threads are scheduled: the background thread takes every step it can,
\* and stopAsyncTracking(), once entered, runs on.  Feeding, consuming and
\* stopping are the callers' choice, and a spurious wakeup is never owed.
FairSpec ==
  /\ Spec
  /\ WF_vars(Background)
  /\ WF_vars(NotifyStop)
  /\ WF_vars(JoinStop)

-----------------------------------------------------------------------------
(* Properties.                                                             *)

ResultType == [n : Nat, prev : Nat, ok : BOOLEAN, uv : Nat, anchors : Nat]

\* Types and ranges of both threads' state.
TypeOK ==
  /\ nFed \in Nat
  /\ inputQ \in Seq(Nat)
  /\ resultQ \in Seq(ResultType)
  /\ main \in {"loop", "stopping", "notified", "joined"}
  /\ active \in BOOLEAN
  /\ stop \in BOOLEAN
  /\ bg \in BgStates
  /\ cur \in Nat
  /\ prevChain \in Nat
  /\ out \in [ok : BOOLEAN, uv : Nat, anchors : Nat]
  /\ anchors \in Nat
  /\ hasPrev \in BOOLEAN
  /\ uvCurr \in Nat

\* What the pipe holds, oldest first: finished results, the image in work,
\* the images waiting.
InWork == IF cur = NoFrame THEN <<>> ELSE <<cur>>
InPipe == [k \in DOMAIN resultQ |-> resultQ[k].n] \o InWork \o inputQ

\* Results come out in feed order without a gap: the pipe always holds the
\* images fed last, one after the other, and the chain of prev stamps links
\* each result to the image fed immediately before it.
InFeedOrder ==
  active => \A k \in DOMAIN InPipe : InPipe[k] = nFed - Len(InPipe) + k

PrevIsPredecessor == \A k \in DOMAIN resultQ : resultQ[k].prev = resultQ[k].n - 1

\* The anchors a result refers to were selected on an earlier image, never on
\* its own: the snapshot is taken before the reseed that overwrites anchors_.
AnchorsPredateFrame ==
  \A k \in DOMAIN resultQ :
    resultQ[k].ok => resultQ[k].anchors \in 1..(resultQ[k].n - 1)

\* Joining never discards work: when the thread is gone, every image fed
\* while it was active has its result.
JoinLosesNothing == main = "joined" => inputQ = <<>> /\ cur = NoFrame

\* Every image fed to the running pipeline gets its result, a shutdown
\* included.
EveryImageAnswered ==
  \A k \in 1..MaxImages :
    (k \in {inputQ[i] : i \in DOMAIN inputQ})
      ~> (k \in {resultQ[i].n : i \in DOMAIN resultQ})

\* "Stops the background thread cleanly": stopAsyncTracking() returns.
StopReturns == (main = "stopping") ~> (main = "joined")

\* Said in comments but not so; in no run (README, "Observations").
\* tracked_frame.h: prev_timestamp is the "timestamp of the frame whose reseed
\* produced anchors/indices".
PrevSeededAnchors ==
  \A k \in DOMAIN resultQ : resultQ[k].ok => resultQ[k].anchors = resultQ[k].prev

\* tracked_frame.h: uv_curr is parallel to indices, which are this image's.
UvIsOwn == \A k \in DOMAIN resultQ : resultQ[k].ok => resultQ[k].uv = resultQ[k].n

-----------------------------------------------------------------------------
(* The two threads implement the pipe the rest of the node relies on.      *)

\* What the pipe's user sees of the finished results.
Stamped(q) == [k \in DOMAIN q |-> [n |-> q[k].n, prev |-> q[k].prev]]

Pipe == INSTANCE TrackingPipe WITH
  pend    <- InWork \o inputQ,
  results <- Stamped(resultQ)

\* Refinement: the pipeline is a FIFO of images and results.
PipeSpec == Pipe!PipeSpec
=============================================================================
