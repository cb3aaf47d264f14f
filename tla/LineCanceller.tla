---------------------------- MODULE LineCanceller ----------------------------
(***************************************************************************)
(* The prism-vibration canceller of the IMU stream (VibrationCanceller): a *)
(* recursive fit of a main line, two sidebands, one harmonic and one extra *)
(* line, and the tracking of the main and the extra line's frequency.      *)
(*                                                                         *)
(* Frequencies are integers.  The recursive fit itself is abstracted: what *)
(* is kept of it is its sample clock n, which decides which lines take     *)
(* part, when the frequencies are tracked and when the fit is thrown away. *)
(* The phase drift a frequency update measures is arbitrary within Drifts. *)
(***************************************************************************)
EXTENDS Integers

CONSTANTS
  SamplePeriod,  \* ticks per sample, 1 / sample_rate_hz
  MaxGap,        \* max_gap_s, in ticks
  UpdateEvery,   \* update_every_, in samples
  FitHistory,    \* 2 * tau_fit_s * sample_rate_hz
  MainHz, SidebandHz, ExtraHz, MaxDev,
  Drifts         \* bound: the corrections one update may make

ASSUME CancellerAssumption ==
  /\ {MaxGap, FitHistory, MainHz, SidebandHz, ExtraHz, MaxDev} \subseteq Nat
  /\ {SamplePeriod, UpdateEvery} \subseteq Nat \ {0}
  /\ Drifts \subseteq Int

VARIABLES
  prevT,       \* t_prev_, or NoSample while have_prev_ is false
  n,           \* n_, samples since the fit was last reset
  nextUpdate,  \* next_update_
  freq,        \* Line::f
  fitSince     \* stamp of the first sample of the running fit (history)

cancellerVars == <<prevT, n, nextUpdate, freq, fitSince>>

NoSample == -1
Lines == {"main", "lower", "upper", "double", "extra"}

-----------------------------------------------------------------------------
\* The lines whose frequency is not tracked follow the main line.
Locked(f) ==
  [f EXCEPT !["lower"]  = f["main"] - SidebandHz,
            !["upper"]  = f["main"] + SidebandHz,
            !["double"] = 2 * f["main"]]

Configured == Locked([l \in Lines |-> IF l = "extra" THEN ExtraHz ELSE MainHz])

CancellerInit ==
  /\ prevT = NoSample
  /\ n = 0
  /\ nextUpdate = UpdateEvery
  /\ freq = Configured
  /\ fitSince = NoSample

Clamped(f) ==
  IF f < ExtraHz - MaxDev THEN ExtraHz - MaxDev
  ELSE IF f > ExtraHz + MaxDev THEN ExtraHz + MaxDev ELSE f

\* updateFrequencies(): only the extra line is held near its configured frequency.
Tracked(main, extra) ==
  Locked([freq EXCEPT !["main"] = @ + main, !["extra"] = Clamped(@ + extra)])

\* The stamp steps back, repeats or jumps: the phases of the fit are void.
ClockBroken(t) ==
  prevT # NoSample /\ (t <= prevT \/ t - prevT > MaxGap)

Rounded(dt) == (2 * dt + SamplePeriod) \div (2 * SamplePeriod)   \* lround(dt * fs)

Steps(t) ==
  IF prevT = NoSample \/ ClockBroken(t) THEN 0
  ELSE IF Rounded(t - prevT) < 1 THEN 1 ELSE Rounded(t - prevT)

ClockAfterKept(t) == n + Steps(t)  \* deviation: reset() leaves n_
ClockAfter(t) == (IF ClockBroken(t) THEN 0 ELSE n) + Steps(t)

\* The fit stopped being finite: reset() once more, the sample already processed.
Diverge ==
  /\ prevT' = NoSample
  /\ n' = 0
  /\ nextUpdate' = UpdateEvery
  /\ fitSince' = NoSample
  /\ freq' = Locked(freq)

\* process(): the fit takes the sample; every UpdateEvery samples the frequencies
\* are tracked, once the fit has seen enough history.
Fit(t) ==
  LET clock == ClockAfter(t)
      due   == clock >= (IF ClockBroken(t) THEN UpdateEvery ELSE nextUpdate)
  IN  /\ prevT' = t
      /\ n' = clock
      /\ fitSince' = IF prevT = NoSample \/ ClockBroken(t) THEN t ELSE fitSince
      /\ nextUpdate' = IF due THEN clock + UpdateEvery
                       ELSE IF ClockBroken(t) THEN UpdateEvery ELSE nextUpdate
      /\ IF due /\ clock > FitHistory
         THEN \E main, extra \in Drifts : freq' = Tracked(main, extra)
         ELSE freq' = Locked(freq)

Process(t) == Fit(t) \/ Diverge

-----------------------------------------------------------------------------

\* A frequency moves only on a fit that ran without a break for the history the
\* time constant asks for, however often the stream was interrupted before.  (One
\* sample may count for up to two periods of clock when its stamp is early.)
TrackedOnHistory ==
  [][freq' # freq =>
       /\ fitSince' # NoSample
       /\ 2 * (prevT' - fitSince') >= FitHistory * SamplePeriod]_<<freq, fitSince, prevT>>
=============================================================================
