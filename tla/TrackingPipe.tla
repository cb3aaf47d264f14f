---------------------------- MODULE TrackingPipe ----------------------------
(***************************************************************************)
(* What the asynchronous tracker promises the rest of the node: a pipe.    *)
(* Images go in by feedImage(), one result per image comes out in the same *)
(* order, and each result names the image fed immediately before it.       *)
(* AsyncTracker (the two-thread implementation) is shown to implement this *)
(* module; MeasureSync uses it in the tracker's place.                     *)
(*                                                                         *)
(* An image is identified by its position n in feed order (1, 2, ...);     *)
(* a result is [n, prev], prev = NoFrame for the first image.              *)
(***************************************************************************)
EXTENDS Integers, Sequences

NoFrame == 0

VARIABLES
  nFed,         \* images fed so far
  pend,         \* fed images whose result is not out yet, in feed order
  results,      \* result_queue_
  prevChain,    \* the image answered last (asyncTrackingLoop's local)
  active        \* asyncTrackingActive(): the thread is joinable

pipeVars == <<nFed, pend, results, prevChain, active>>

PipeInit ==
  /\ nFed = 0
  /\ pend = <<>>
  /\ results = <<>>
  /\ prevChain = NoFrame
  /\ active \in BOOLEAN      \* never started when VIO is disabled

\* feedImage(): dropped silently when the pipeline is not running.
Feed ==
  /\ nFed' = nFed + 1
  /\ pend' = IF active THEN Append(pend, nFed + 1) ELSE pend
  /\ UNCHANGED <<results, prevChain, active>>

\* Deviation: the newest image is answered first.
AnswerNewest ==
  /\ pend # <<>>
  /\ pend' = SubSeq(pend, 1, Len(pend) - 1)
  /\ results' = Append(results, [n |-> pend[Len(pend)], prev |-> prevChain])
  /\ prevChain' = pend[Len(pend)]
  /\ UNCHANGED <<nFed, active>>

\* One turn of the background thread, from pop_front to push_back.
Answer ==
  /\ pend # <<>>
  /\ pend' = Tail(pend)
  /\ results' = Append(results, [n |-> Head(pend), prev |-> prevChain])
  /\ prevChain' = Head(pend)
  /\ UNCHANGED <<nFed, active>>

ResultReady == results # <<>>

Consume ==
  /\ results' = Tail(results)
  /\ UNCHANGED <<nFed, pend, prevChain, active>>

\* stopAsyncTracking() returns: the thread drained its input and was joined.
Stop ==
  /\ active
  /\ pend = <<>>
  /\ active' = FALSE
  /\ UNCHANGED <<nFed, pend, results, prevChain>>

PipeNext ==
  \/ Feed
  \/ Answer
  \/ ResultReady /\ Consume
  \/ Stop

PipeSpec == PipeInit /\ [][PipeNext]_pipeVars
=============================================================================
