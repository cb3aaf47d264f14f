--------------------------- MODULE EvoMatch_proofs ---------------------------
(***************************************************************************)
(* Proofs about EvoMatch, for any queue size, tolerance, start of the      *)
(* clock, and any number of samples and frames.                            *)
(***************************************************************************)
EXTENDS EvoMatch, FiniteSetTheorems, SequenceTheorems, WellFoundedInduction, TLAPS

Sample == [t : Int, true : Nat]
Match == [true : Nat, at : Int, from : Int, to : Int]

Ascending(s) == \A i, j \in DOMAIN s : i < j => s[i] < s[j]

-----------------------------------------------------------------------------
(* The inductive invariant.                                                *)

\* How many samples were examined or evicted, of `all' that were taken in.
Passed(b, all) == Len(all) - Len(b.buffer) + b.next

\* The buffer holds the last of them; the ones before its cursor, and those that are
\* no longer in it, were examined or lost, never both.
Tracks(b, all, seen) ==
  /\ b \in [buffer : Seq(Sample), next : Nat, lost : SUBSET Nat]
  /\ Len(b.buffer) <= Len(all) /\ b.next <= Len(b.buffer)
  /\ \A i \in DOMAIN b.buffer : b.buffer[i].true = all[Len(all) - Len(b.buffer) + i]
  /\ {all[i] : i \in 1..Passed(b, all)} = seen \cup b.lost
  /\ seen \cap b.lost = {}

Held == [buffer |-> gtBuffer, next |-> nextGt, lost |-> evicted]

TypeOK ==
  /\ opts.file \in BOOLEAN /\ shifted \in BOOLEAN
  /\ startTime \in {0, Start} /\ bracket \in Int
  /\ gtQueue \in Seq(Sample)
  /\ drained \in Seq(Nat) /\ examined \in Seq(Nat) /\ frames \in Seq(Nat)
  /\ matched \in [AssocModes -> Seq(Match)]
  /\ lastStats = [m \in AssocModes |-> Len(matched[m])] /\ evoStats = lastStats

\* The publisher stamps its samples in order, and the clock is set for all of them at once.
QueueOK ==
  /\ opts.file => gtQueue = <<>>
  /\ Ascending(drained)
  /\ \A i, j \in DOMAIN gtQueue : i < j => gtQueue[i].true < gtQueue[j].true
  /\ \A i \in DOMAIN drained, j \in DOMAIN gtQueue : drained[i] < gtQueue[j].true
  /\ \A i \in DOMAIN gtQueue : gtQueue[i].t = gtQueue[i].true + Start - startTime

\* What waits behind the cursor is later than the last frame.
BufferOK ==
  /\ Tracks(Held, drained, Range(examined))
  /\ \A i \in DOMAIN gtBuffer :
       gtBuffer[i].t = gtBuffer[i].true + (IF opts.file /\ ~shifted THEN Start ELSE 0)
  /\ \A i \in (nextGt + 1)..Len(gtBuffer) : gtBuffer[i].true > bracket
  /\ Ascending(examined) /\ \A i \in DOMAIN examined : examined[i] <= bracket

\* Checkpoints are never late and never evicted.
FileOK ==
  opts.file => /\ evicted = {} /\ late = {} /\ Len(gtBuffer) = Len(drained)
               /\ \A i \in 1..nextGt : drained[i] <= bracket

FramesOK ==
  /\ Ascending(frames)
  /\ bracket = IF frames = <<>> THEN NoFrame ELSE frames[Len(frames)]

\* The match an off-line evaluator makes of these frames.
Rightful(m, p, times) ==
  /\ p.at = p.true
  /\ m = "nearest" => /\ p.from \in times /\ Apart(p.from, p.true) <= MaxTimeDiff
                      /\ \A f \in times : Apart(f, p.true) >= Apart(p.from, p.true)
  /\ m = "interp"  => /\ p.from <= p.true /\ p.true <= p.to
                      /\ {f \in times : p.from <= f /\ f <= p.to} = {p.from, p.to}

MatchedOK ==
  \A m \in AssocModes :
    /\ \A k \in DOMAIN matched[m] :
         /\ matched[m][k].true \in Range(examined)
         /\ matched[m][k].true \notin late => Rightful(m, matched[m][k], Range(frames))
    /\ \A k, l \in DOMAIN matched[m] : k < l => matched[m][k].true < matched[m][l].true

\* The checkpoints a run has passed and that a frame is near to.
Near(c, times) == \E f \in times : Apart(f, c) <= MaxTimeDiff
PassedCheckpoints ==
  {c \in Range(drained) : /\ frames # <<>> /\ frames[1] < c /\ c <= frames[Len(frames)]
                          /\ Near(c, Range(frames))}

CheckpointsOK ==
  opts.file => {matched["nearest"][k].true : k \in DOMAIN matched["nearest"]} = PassedCheckpoints

CsvOK ==
  csv # <<>> => csv = [m \in AssocModes |-> IF Len(matched[m]) < 3 THEN 0 ELSE Len(matched[m])]

IInv ==
  /\ TypeOK /\ QueueOK /\ BufferOK /\ FileOK /\ FramesOK /\ MatchedOK /\ CheckpointsOK /\ CsvOK

-----------------------------------------------------------------------------
(* Natural numbers and sequences.                                          *)

\* A set of natural numbers that is not empty has a least element; this replaces induction.
LEMMA LeastNatural ==
  ASSUME NEW S \in SUBSET Nat, S # {}
  PROVE  \E m \in S : \A k \in S : m <= k
<1> DEFINE segments == {1..s : s \in S}
<1>1. segments \subseteq FiniteSubsetsOf(Nat)
  <2> SUFFICES ASSUME NEW s \in S PROVE 1..s \in FiniteSubsetsOf(Nat)
    OBVIOUS
  <2>1. IsFiniteSet(1..s)
    BY FS_Interval
  <2> QED  BY <2>1 DEF FiniteSubsetsOf
<1>2. segments # {}
  OBVIOUS
<1>3. PICK x \in segments : \A y \in segments : ~(<<y, x>> \in StrictSubsetOrdering(Nat))
  <2> HIDE DEF segments
  <2> QED  BY <1>1, <1>2, FS_StrictSubsetOrderingWellFounded, WFMin
<1>4. PICK m \in S : x = 1..m
  OBVIOUS
<1>5. ASSUME NEW k \in S, k < m PROVE FALSE
  <2>1. 1..k \in segments
    OBVIOUS
  <2>2. 1..k \subseteq 1..m /\ m \in 1..m /\ m \notin 1..k /\ 1..k \in SUBSET Nat /\ 1..m \in SUBSET Nat
    BY <1>5
  <2> HIDE DEF segments
  <2> QED  BY <2>1, <2>2, <1>3, <1>4 DEF StrictSubsetOrdering
<1> QED  BY <1>5

LEMMA ZeroOrOne == ASSUME NEW n \in Nat, n <= 1 PROVE n = 0 \/ n = 1
OBVIOUS

LEMMA BelowTop == ASSUME NEW n \in Nat, NEW k \in 1..n, k # n PROVE k < n
OBVIOUS

LEMMA SeqFacts ==
  ASSUME NEW S, NEW s \in Seq(S)
  PROVE  /\ Len(s) \in Nat /\ DOMAIN s = 1..Len(s)
         /\ \A k \in 1..Len(s) : s[k] \in S
         /\ s = <<>> <=> Len(s) = 0
OBVIOUS

LEMMA AppendFacts ==
  ASSUME NEW S, NEW s \in Seq(S), NEW e \in S
  PROVE  /\ Append(s, e) \in Seq(S) /\ Len(Append(s, e)) = Len(s) + 1
         /\ \A k \in 1..Len(s) : Append(s, e)[k] = s[k]
         /\ Append(s, e)[Len(s) + 1] = e
OBVIOUS

LEMMA TailFacts ==
  ASSUME NEW S, NEW s \in Seq(S), s # <<>>
  PROVE  /\ Tail(s) \in Seq(S) /\ Len(Tail(s)) = Len(s) - 1
         /\ \A k \in 1..(Len(s) - 1) : Tail(s)[k] = s[k + 1]
         /\ Head(s) = s[1]
BY HeadTailProperties

LEMMA ConcatFacts ==
  ASSUME NEW S, NEW s \in Seq(S), NEW u \in Seq(S)
  PROVE  /\ s \o u \in Seq(S) /\ Len(s \o u) = Len(s) + Len(u)
         /\ \A k \in 1..Len(s) : (s \o u)[k] = s[k]
         /\ \A k \in 1..Len(u) : (s \o u)[Len(s) + k] = u[k]
<1>1. /\ s \o u \in Seq(S) /\ Len(s \o u) = Len(s) + Len(u)
      /\ \A k \in 1..(Len(s) + Len(u)) : (s \o u)[k] = IF k <= Len(s) THEN s[k] ELSE u[k - Len(s)]
  BY ConcatProperties
<1>2. Len(s) \in Nat /\ Len(u) \in Nat
  OBVIOUS
<1>3. ASSUME NEW k \in 1..Len(s) PROVE (s \o u)[k] = s[k]
  <2>1. k \in 1..(Len(s) + Len(u)) /\ k <= Len(s)
    BY <1>2
  <2> QED  BY <1>1, <2>1
<1>4. ASSUME NEW k \in 1..Len(u) PROVE (s \o u)[Len(s) + k] = u[k]
  <2>1. Len(s) + k \in 1..(Len(s) + Len(u)) /\ ~(Len(s) + k <= Len(s)) /\ Len(s) + k - Len(s) = k
    BY <1>2
  <2> QED  BY <1>1, <2>1
<1> QED  BY <1>1, <1>3, <1>4

-----------------------------------------------------------------------------
(* drainGtQueue().                                                         *)

\* Each sample of buffer c is the new one or was in buffer b, and waits only if it waited there.
From(c, b, s) ==
  \A i \in 1..Len(c.buffer) :
    c.buffer[i] = s \/ \E j \in 1..Len(b.buffer) : c.buffer[i] = b.buffer[j] /\ (i > c.next => j > b.next)

LEMMA PushedFacts ==
  ASSUME NEW b, NEW all \in Seq(Nat), NEW seen, NEW s \in Sample,
         Tracks(b, all, seen), Ascending(Append(all, s.true))
  PROVE  /\ Tracks(Drained1(b, s), Append(all, s.true), seen)
         /\ From(Drained1(b, s), b, s)
<1> DEFINE full == Append(b.buffer, s)
           c == Drained1(b, s)
           more == Append(all, s.true)
           n == Len(all)
           l == Len(b.buffer)
<1>0. QueueSize \in Nat /\ QueueSize > 0
  BY EvoAssumption
<1>1. /\ b.buffer \in Seq(Sample) /\ b.next \in Nat /\ b.lost \subseteq Nat
      /\ n \in Nat /\ l \in Nat /\ l <= n /\ b.next <= l
      /\ \A i \in 1..l : b.buffer[i].true = all[n - l + i] /\ b.buffer[i] \in Sample
      /\ s.true \in Nat /\ DOMAIN b.buffer = 1..l
      /\ b = [buffer |-> b.buffer, next |-> b.next, lost |-> b.lost]
  <2>1. b \in [buffer : Seq(Sample), next : Nat, lost : SUBSET Nat]
    BY DEF Tracks
  <2>2. /\ b.buffer \in Seq(Sample) /\ b.next \in Nat /\ b.lost \subseteq Nat
        /\ b = [buffer |-> b.buffer, next |-> b.next, lost |-> b.lost]
    BY <2>1
  <2>3. n \in Nat /\ l \in Nat /\ DOMAIN b.buffer = 1..l /\ \A i \in 1..l : b.buffer[i] \in Sample
    BY <2>2, SeqFacts
  <2>4. l <= n /\ b.next <= l /\ \A i \in 1..l : b.buffer[i].true = all[n - l + i]
    BY <2>3 DEF Tracks
  <2>5. s.true \in Nat
    BY DEF Sample
  <2> QED  BY <2>2, <2>3, <2>4, <2>5
<1>2. /\ full \in Seq(Sample) /\ Len(full) = l + 1
      /\ \A i \in 1..l : full[i] = b.buffer[i]
      /\ full[l + 1] = s
  BY <1>1, AppendFacts
<1>3. /\ more \in Seq(Nat) /\ Len(more) = n + 1
      /\ \A i \in 1..n : more[i] = all[i]
      /\ more[n + 1] = s.true
  BY <1>1, AppendFacts
<1>4. {all[i] : i \in 1..(n - l + b.next)} = seen \cup b.lost /\ seen \cap b.lost = {}
  BY DEF Tracks, Passed
<1>5. CASE Len(full) <= QueueSize
  <2>1. c = [buffer |-> full, next |-> b.next, lost |-> b.lost]
    BY <1>1, <1>5 DEF Drained1
  <2> HIDE DEF c, full, more
  <2>2. c \in [buffer : Seq(Sample), next : Nat, lost : SUBSET Nat]
    BY <1>1, <1>2, <2>1
  <2>3. Len(c.buffer) <= Len(more) /\ c.next <= Len(c.buffer)
    BY <1>1, <1>2, <1>3, <2>1
  <2>4. \A i \in DOMAIN c.buffer : c.buffer[i].true = more[Len(more) - Len(c.buffer) + i]
    <3> SUFFICES ASSUME NEW i \in 1..(l + 1) PROVE full[i].true = more[(n + 1) - (l + 1) + i]
      BY <1>2, <1>3, <2>1, SeqFacts
    <3>1. CASE i = l + 1
      <4>1. (n + 1) - (l + 1) + i = n + 1
        BY <1>1, <3>1
      <4> QED  BY <1>2, <1>3, <3>1, <4>1
    <3>2. CASE i # l + 1
      <4>1. i \in 1..l /\ (n + 1) - (l + 1) + i = n - l + i /\ n - l + i \in 1..n
        BY <1>1, <3>2
      <4> QED  BY <1>1, <1>2, <1>3, <4>1
    <3> QED  BY <3>1, <3>2
  <2>5. Passed(c, more) = n - l + b.next /\ 1..(n - l + b.next) \subseteq 1..n
    BY <1>1, <1>2, <1>3, <2>1 DEF Passed
  <2>6. {more[i] : i \in 1..Passed(c, more)} = seen \cup c.lost
    BY <1>3, <1>4, <2>1, <2>5
  <2>7. Tracks(c, more, seen)
    BY <1>4, <2>1, <2>2, <2>3, <2>4, <2>6 DEF Tracks
  <2> HIDE DEF l
  <2>8. ASSUME NEW i \in 1..Len(c.buffer)
        PROVE  c.buffer[i] = s \/ \E j \in 1..l : c.buffer[i] = b.buffer[j] /\ (i > c.next => j > b.next)
    <3>1. i = l + 1 \/ i \in 1..l
      BY <1>1, <1>2, <2>1
    <3> QED  BY <1>2, <2>1, <3>1
  <2> QED  BY <2>7, <2>8 DEF c, more, l, From
<1>6. CASE Len(full) > QueueSize
  <2>1. c = [buffer |-> Tail(full), next |-> CursorAfterEviction(b.next),
             lost |-> IF b.next = 0 THEN b.lost \cup {Head(full).true} ELSE b.lost]
    <3>1. ~(Len(full) <= QueueSize)
      BY <1>0, <1>1, <1>2, <1>6
    <3>2. c = [buffer |-> Tail(full), next |-> CursorAfterEviction(b.next),
               lost |-> IF b.next = 0 THEN b.lost \cup {Head(full).true} ELSE b.lost]
      BY <3>1 DEF Drained1
    <3> QED  BY <3>2
  <2>2. l >= 1 /\ full # <<>>
    BY <1>0, <1>1, <1>2, <1>6
  <2> HIDE DEF c, full, more, n, l
  <2>3. /\ Tail(full) \in Seq(Sample) /\ Len(Tail(full)) = l
        /\ \A k \in 1..l : Tail(full)[k] = full[k + 1]
        /\ Head(full) = b.buffer[1]
    <3>1. /\ Tail(full) \in Seq(Sample) /\ Len(Tail(full)) = Len(full) - 1
          /\ \A k \in 1..(Len(full) - 1) : Tail(full)[k] = full[k + 1]
          /\ Head(full) = full[1]
      BY <1>2, <2>2, TailFacts
    <3>2. Len(full) - 1 = l /\ 1 \in 1..l
      BY <1>1, <1>2, <2>2
    <3> QED  BY <1>2, <3>1, <3>2
  <2>4. c.next = (IF b.next > 0 THEN b.next - 1 ELSE 0) /\ c.next \in Nat /\ c.next <= l
    BY <1>1, <2>1 DEF CursorAfterEviction
  <2>5. c.lost = (IF b.next = 0 THEN b.lost \cup {all[n - l + 1]} ELSE b.lost)
    <3>1. Head(full).true = all[n - l + 1]
      <4>1. 1 \in 1..l /\ b.buffer[1].true = all[n - l + 1]
        BY <1>1, <2>2
      <4> QED  BY <2>3, <4>1
    <3> QED  BY <2>1, <3>1
  <2>6. n - l + 1 \in 1..n /\ all[n - l + 1] \in Nat
    <3>1. n - l + 1 \in 1..n
      BY <1>1, <2>2
    <3> QED  BY <3>1, SeqFacts DEF n
  <2>7. c \in [buffer : Seq(Sample), next : Nat, lost : SUBSET Nat]
    <3>1. c.lost \in SUBSET Nat
      BY <1>1, <2>5, <2>6
    <3> QED  BY <2>1, <2>3, <2>4, <3>1
  <2>8. c.buffer = Tail(full) /\ Len(c.buffer) = l /\ DOMAIN c.buffer = 1..l
    BY <2>1, <2>3, SeqFacts
  <2>9. \A i \in DOMAIN c.buffer : c.buffer[i].true = more[Len(more) - Len(c.buffer) + i]
    <3> SUFFICES ASSUME NEW i \in 1..l PROVE full[i + 1].true = more[n + 1 - l + i]
      <4>1. Len(more) - Len(c.buffer) = n + 1 - l
        BY <1>1, <1>3, <2>8
      <4> QED  BY <2>3, <2>8, <4>1
    <3>1. CASE i = l
      <4>1. n + 1 - l + i = n + 1
        BY <1>1, <3>1
      <4> QED  BY <1>2, <1>3, <3>1, <4>1
    <3>2. CASE i # l
      <4>1. i + 1 \in 1..l /\ n + 1 - l + i = n - l + (i + 1) /\ n - l + (i + 1) \in 1..n
        BY <1>1, <3>2
      <4> QED  BY <1>1, <1>2, <1>3, <4>1
    <3> QED  BY <3>1, <3>2
  <2>10. {more[i] : i \in 1..Passed(c, more)} = seen \cup c.lost /\ seen \cap c.lost = {}
    <3>1. Passed(c, more) = n + 1 - l + c.next
      <4>1. Passed(c, more) = Len(more) - Len(c.buffer) + c.next
        BY DEF Passed
      <4> QED  BY <1>1, <1>3, <2>4, <2>8, <4>1
    <3>2. CASE b.next > 0
      <4>1. Passed(c, more) = n - l + b.next /\ c.lost = b.lost /\ 1..(n - l + b.next) \subseteq 1..n
        BY <1>1, <2>4, <2>5, <3>1, <3>2
      <4> QED  BY <1>3, <1>4, <4>1
    <3>3. CASE b.next = 0
      <4>1. /\ Passed(c, more) = n - l + 1 /\ c.lost = b.lost \cup {all[n - l + 1]}
            /\ 1..(n - l + 1) \subseteq 1..n
            /\ 1..(n - l + 1) = 1..(n - l + b.next) \cup {n - l + 1}
        BY <1>1, <2>2, <2>4, <2>5, <3>1, <3>3
      <4>2. {more[i] : i \in 1..(n - l + 1)} = {all[i] : i \in 1..(n - l + b.next)} \cup {all[n - l + 1]}
        <5>1. \A i \in 1..(n - l + 1) : more[i] = all[i]
          BY <1>3, <4>1
        <5>2. {more[i] : i \in 1..(n - l + 1)} = {all[i] : i \in 1..(n - l + 1)}
          BY <5>1
        <5> QED  BY <4>1, <5>2
      <4>3. all[n - l + 1] \notin seen
        <5> SUFFICES ASSUME all[n - l + 1] \in seen PROVE FALSE
          OBVIOUS
        <5>1. PICK i \in 1..(n - l + b.next) : all[i] = all[n - l + 1]
          BY <1>4
        <5>2. i \in 1..n /\ i < n - l + 1 /\ i \in DOMAIN more /\ n - l + 1 \in DOMAIN more
          <6>1. DOMAIN more = 1..(n + 1)
            BY <1>3, SeqFacts
          <6> QED  BY <1>1, <2>2, <3>3, <6>1
        <5>3. more[i] < more[n - l + 1]
          BY <5>2 DEF Ascending, more
        <5>4. more[i] = all[i] /\ more[n - l + 1] = all[n - l + 1]
          BY <1>3, <2>6, <5>2
        <5>5. all[n - l + 1] < all[n - l + 1]
          BY <5>1, <5>3, <5>4
        <5> QED  BY <2>6, <5>5
      <4> QED  BY <1>4, <4>1, <4>2, <4>3
    <3> QED  BY <1>1, <3>2, <3>3
  <2>11. Len(c.buffer) <= Len(more) /\ c.next <= Len(c.buffer)
    BY <1>1, <1>3, <2>4, <2>8
  <2>12. Tracks(c, more, seen)
    BY <2>7, <2>9, <2>10, <2>11 DEF Tracks
  <2>13. ASSUME NEW i \in 1..Len(c.buffer)
         PROVE  c.buffer[i] = s \/ \E j \in 1..l : c.buffer[i] = b.buffer[j] /\ (i > c.next => j > b.next)
    <3>1. i \in 1..l /\ c.buffer[i] = full[i + 1]
      BY <2>3, <2>8
    <3>2. CASE i = l
      BY <1>2, <3>1, <3>2
    <3>3. CASE i # l
      <4>1. i + 1 \in 1..l
        BY <1>1, <3>1, <3>3
      <4>2. i > c.next => i + 1 > b.next
        BY <1>1, <2>4, <3>1
      <4> QED  BY <1>2, <3>1, <4>1, <4>2
    <3> QED  BY <3>2, <3>3
  <2> QED  BY <2>12, <2>13 DEF c, more, l, From
<1>7. Len(full) \in Nat
  BY <1>1, <1>2
<1> HIDE DEF full, more
<1> QED  BY <1>0, <1>5, <1>6, <1>7

\* One turn of the loop over the queue, with what the turns before it left.
Turn(after, n) == IF n = 0 THEN Held ELSE Drained1(after[n - 1], gtQueue[n])
IsDrain(f, n) == f = [k \in 0..n |-> Turn(f, k)]
Drain == CHOOSE f : IsDrain(f, Len(gtQueue))

LEMMA DrainIsLast == DrainGtQueue = Drain[Len(gtQueue)]
BY DEF DrainGtQueue, Drain, IsDrain, Turn, Held

LEMMA DrainExists == \A n \in Nat : \E f : IsDrain(f, n)
<1> DEFINE Bad == {n \in Nat : ~\E f : IsDrain(f, n)}
<1> SUFFICES ASSUME Bad # {} PROVE FALSE
  OBVIOUS
<1>1. PICK m \in Bad : \A k \in Bad : m <= k
  BY LeastNatural
<1>2. m # 0
  <2> DEFINE f == [k \in 0..0 |-> Held]
  <2>1. \A k \in 0..0 : Turn(f, k) = Held
    BY DEF Turn
  <2>2. f = [k \in 0..0 |-> Turn(f, k)]
    BY <2>1
  <2>3. 0 \notin Bad
    BY <2>2 DEF IsDrain
  <2> QED  BY <2>3
<1>3. m - 1 \in Nat /\ m - 1 \notin Bad
  BY <1>1, <1>2
<1>4. PICK f : IsDrain(f, m - 1)
  BY <1>3
<1> DEFINE g == [k \in 0..m |-> Turn(f, k)]
<1>5. \A k \in 0..(m - 1) : f[k] = g[k]
  BY <1>3, <1>4 DEF IsDrain
<1>6. ASSUME NEW k \in 0..m PROVE Turn(f, k) = Turn(g, k)
  <2>1. CASE k = 0
    BY <2>1 DEF Turn
  <2>2. CASE k # 0
    <3> HIDE DEF g
    <3>1. k - 1 \in 0..(m - 1)
      BY <1>3, <2>2
    <3>2. f[k - 1] = g[k - 1]
      BY <1>5, <3>1
    <3> QED  BY <2>2, <3>2 DEF Turn
  <2> QED  BY <2>1, <2>2
<1>7. g = [k \in 0..m |-> Turn(g, k)]
  <2>1. \A k \in 0..m : g[k] = Turn(g, k)
    BY <1>6
  <2> QED  BY <2>1
<1>8. m \notin Bad
  BY <1>7 DEF IsDrain
<1> QED  BY <1>1, <1>8

\* The samples taken in once n of the queue are in the buffer.
Taken(n) ==
  [i \in 1..(Len(drained) + n) |->
     IF i <= Len(drained) THEN drained[i] ELSE gtQueue[i - Len(drained)].true]

LEMMA TakenFacts ==
  ASSUME TypeOK, QueueOK, NEW n \in 0..Len(gtQueue)
  PROVE  /\ Taken(n) \in Seq(Nat) /\ Len(Taken(n)) = Len(drained) + n /\ Ascending(Taken(n))
         /\ n # 0 => Taken(n) = Append(Taken(n - 1), gtQueue[n].true)
<1>1. /\ drained \in Seq(Nat) /\ Len(drained) \in Nat /\ Len(gtQueue) \in Nat /\ n \in Nat
      /\ \A i \in 1..Len(drained) : drained[i] \in Nat
      /\ \A i \in 1..Len(gtQueue) : gtQueue[i].true \in Nat
      /\ DOMAIN drained = 1..Len(drained) /\ DOMAIN gtQueue = 1..Len(gtQueue)
  <2>1. drained \in Seq(Nat) /\ gtQueue \in Seq(Sample)
    BY DEF TypeOK
  <2>2. /\ Len(drained) \in Nat /\ DOMAIN drained = 1..Len(drained) /\ \A i \in 1..Len(drained) : drained[i] \in Nat
        /\ Len(gtQueue) \in Nat /\ DOMAIN gtQueue = 1..Len(gtQueue) /\ \A i \in 1..Len(gtQueue) : gtQueue[i] \in Sample
    BY <2>1, SeqFacts
  <2> QED  BY <2>1, <2>2 DEF Sample
<1>2. ASSUME NEW k \in 0..Len(gtQueue)
      PROVE  Taken(k) \in Seq(Nat) /\ Len(Taken(k)) = Len(drained) + k /\ DOMAIN Taken(k) = 1..(Len(drained) + k)
  <2>1. Len(drained) + k \in Nat
    BY <1>1
  <2>2. \A i \in 1..(Len(drained) + k) :
          (IF i <= Len(drained) THEN drained[i] ELSE gtQueue[i - Len(drained)].true) \in Nat
    <3> SUFFICES ASSUME NEW i \in 1..(Len(drained) + k), ~(i <= Len(drained))
                 PROVE  gtQueue[i - Len(drained)].true \in Nat
      BY <1>1
    <3>1. i - Len(drained) \in 1..Len(gtQueue)
      BY <1>1
    <3> QED  BY <1>1, <3>1
  <2>3. Taken(k) \in [1..(Len(drained) + k) -> Nat]
    BY <2>2 DEF Taken
  <2> QED  BY <2>1, <2>3, IsASeq, LenProperties
<1>3. ASSUME NEW i \in 1..(Len(drained) + n), NEW j \in 1..(Len(drained) + n), i < j
      PROVE  Taken(n)[i] < Taken(n)[j]
  <2>1. /\ Taken(n)[i] = IF i <= Len(drained) THEN drained[i] ELSE gtQueue[i - Len(drained)].true
        /\ Taken(n)[j] = IF j <= Len(drained) THEN drained[j] ELSE gtQueue[j - Len(drained)].true
    BY DEF Taken
  <2>2. CASE j <= Len(drained)
    <3>1. i \in 1..Len(drained) /\ j \in 1..Len(drained)
      BY <1>1, <1>3, <2>2
    <3>2. drained[i] < drained[j]
      BY <1>1, <1>3, <3>1 DEF QueueOK, Ascending
    <3> QED  BY <2>1, <3>1, <3>2
  <2>3. CASE i <= Len(drained) /\ ~(j <= Len(drained))
    <3>1. i \in 1..Len(drained) /\ j - Len(drained) \in 1..Len(gtQueue)
      BY <1>1, <2>3
    <3> QED  BY <1>1, <2>1, <2>3, <3>1 DEF QueueOK
  <2>4. CASE ~(i <= Len(drained))
    <3>1. /\ i - Len(drained) \in 1..Len(gtQueue) /\ j - Len(drained) \in 1..Len(gtQueue)
          /\ i - Len(drained) < j - Len(drained) /\ ~(j <= Len(drained))
      BY <1>1, <1>3, <2>4
    <3>2. gtQueue[i - Len(drained)].true < gtQueue[j - Len(drained)].true
      <4> DEFINE x == i - Len(drained)
                 y == j - Len(drained)
      <4>1. x \in DOMAIN gtQueue /\ y \in DOMAIN gtQueue /\ x < y
        BY <1>1, <3>1
      <4> HIDE DEF x, y
      <4>2. gtQueue[x].true < gtQueue[y].true
        BY <4>1 DEF QueueOK
      <4> QED  BY <4>2 DEF x, y
    <3> QED  BY <2>1, <2>4, <3>1, <3>2
  <2> QED  BY <1>1, <2>2, <2>3, <2>4
<1>4. ASSUME n # 0 PROVE Taken(n) = Append(Taken(n - 1), gtQueue[n].true)
  <2> DEFINE s == Taken(n - 1)
             e == gtQueue[n].true
  <2>1. n - 1 \in 0..Len(gtQueue) /\ n \in 1..Len(gtQueue) /\ e \in Nat /\ Len(drained) + (n - 1) + 1 = Len(drained) + n
    BY <1>1, <1>4
  <2>2. s \in Seq(Nat) /\ Len(s) = Len(drained) + (n - 1)
    BY <1>2, <2>1
  <2> HIDE DEF s, e
  <2>3. /\ Append(s, e) \in Seq(Nat) /\ Len(Append(s, e)) = Len(drained) + n
        /\ \A k \in 1..(Len(drained) + (n - 1)) : Append(s, e)[k] = s[k]
        /\ Append(s, e)[Len(drained) + n] = e
    BY <2>1, <2>2, AppendFacts
  <2>4. ASSUME NEW i \in 1..(Len(drained) + n) PROVE Taken(n)[i] = Append(s, e)[i]
    <3>1. CASE i = Len(drained) + n
      <4>1. ~(i <= Len(drained)) /\ i - Len(drained) = n
        BY <1>1, <2>1, <3>1
      <4> QED  BY <2>3, <3>1, <4>1 DEF Taken, e
    <3>2. CASE i # Len(drained) + n
      <4>1. i \in 1..(Len(drained) + (n - 1))
        <5>1. Len(drained) \in Nat /\ n \in Nat
          BY <1>1
        <5> QED  BY <5>1, <3>2
      <4> QED  BY <2>3, <4>1 DEF Taken, s
    <3> QED  BY <3>1, <3>2
  <2>5. Taken(n) = Append(s, e)
    <3>1. Taken(n) \in Seq(Nat) /\ Len(Taken(n)) = Len(drained) + n
      BY <1>2
    <3> QED  BY <2>3, <2>4, <3>1, SeqEqual
  <2> QED  BY <2>5 DEF s, e
<1> QED  BY <1>2, <1>3, <1>4 DEF Ascending

LEMMA TakenNone ==
  ASSUME TypeOK, QueueOK
  PROVE  Taken(0) = drained
<1>1. drained \in Seq(Nat) /\ Len(drained) \in Nat /\ Len(gtQueue) \in Nat
  BY SeqFacts DEF TypeOK
<1>2. Taken(0) \in Seq(Nat) /\ Len(Taken(0)) = Len(drained)
  <2>1. 0 \in 0..Len(gtQueue)
    BY <1>1
  <2> QED  BY <1>1, <2>1, TakenFacts
<1>3. \A i \in 1..Len(Taken(0)) : Taken(0)[i] = drained[i]
  BY <1>1, <1>2 DEF Taken
<1> QED  BY <1>1, <1>2, <1>3, SeqEqual

\* Where a sample of the buffer comes from once n of the queue are in it.
Known0(s, n, late0) ==
  \/ \E k \in 1..n : s = gtQueue[k]
  \/ \E j \in 1..Len(gtBuffer) : s = gtBuffer[j] /\ (late0 => j > nextGt)

Drained0(b, n) ==
  /\ Tracks(b, Taken(n), Range(examined))
  /\ \A i \in 1..Len(b.buffer) : Known0(b.buffer[i], n, i > b.next)

LEMMA DrainFacts ==
  ASSUME TypeOK, QueueOK, BufferOK
  PROVE  Drained0(DrainGtQueue, Len(gtQueue))
<1> DEFINE f == Drain
           Bad == {n \in 0..Len(gtQueue) : ~Drained0(f[n], n)}
<1>1. Len(gtQueue) \in Nat /\ \A k \in 1..Len(gtQueue) : gtQueue[k] \in Sample
  BY SeqFacts DEF TypeOK
<1>2. \A n \in 0..Len(gtQueue) : f[n] = Turn(f, n)
  <2>1. IsDrain(f, Len(gtQueue))
    BY <1>1, DrainExists DEF Drain
  <2> QED  BY <2>1 DEF IsDrain
<1> HIDE DEF f
<1>3. Drained0(f[0], 0)
  <2>1. f[0] = Held
    BY <1>1, <1>2 DEF Turn
  <2>2. Tracks(Held, Taken(0), Range(examined))
    BY TakenNone DEF BufferOK
  <2>3. \A i \in 1..Len(Held.buffer) : Known0(Held.buffer[i], 0, i > Held.next)
    BY DEF Known0, Held
  <2> QED  BY <2>1, <2>2, <2>3 DEF Drained0
<1>4. ASSUME NEW n \in 0..Len(gtQueue), n # 0, Drained0(f[n - 1], n - 1)
      PROVE  Drained0(f[n], n)
  <2> DEFINE b == f[n - 1]
             c == f[n]
             s == gtQueue[n]
  <2>1. n \in Nat /\ n - 1 \in 0..Len(gtQueue) /\ n \in 1..Len(gtQueue) /\ s \in Sample
    BY <1>1, <1>4
  <2>2. c = Drained1(b, s)
    BY <1>2, <1>4 DEF Turn
  <2>3. Taken(n - 1) \in Seq(Nat) /\ Taken(n) = Append(Taken(n - 1), s.true) /\ Ascending(Taken(n))
    BY <1>4, <2>1, TakenFacts
  <2>4. Tracks(b, Taken(n - 1), Range(examined))
    BY <1>4 DEF Drained0
  <2> DEFINE all == Taken(n - 1)
             seen == Range(examined)
  <2>a. Ascending(Append(all, s.true)) /\ all \in Seq(Nat) /\ Tracks(b, all, seen) /\ Taken(n) = Append(all, s.true)
    BY <2>3, <2>4
  <2> HIDE DEF b, c, s, all, seen
  <2>b. Tracks(Drained1(b, s), Append(all, s.true), seen) /\ From(Drained1(b, s), b, s)
    BY <2>1, <2>a, PushedFacts
  <2>5. Tracks(c, Taken(n), Range(examined)) /\ From(c, b, s)
    BY <2>2, <2>a, <2>b DEF seen
  <2>6. ASSUME NEW i \in 1..Len(c.buffer) PROVE Known0(c.buffer[i], n, i > c.next)
    <3>1. CASE c.buffer[i] = s
      BY <2>1, <3>1 DEF Known0, s
    <3>2. CASE c.buffer[i] # s
      <4>1. PICK j \in 1..Len(b.buffer) : c.buffer[i] = b.buffer[j] /\ (i > c.next => j > b.next)
        BY <2>5, <3>2 DEF From
      <4>2. Known0(b.buffer[j], n - 1, j > b.next)
        BY <1>4, <4>1 DEF Drained0, b
      <4>3. 1..(n - 1) \subseteq 1..n
        BY <2>1
      <4> QED  BY <4>1, <4>2, <4>3 DEF Known0
    <3> QED  BY <3>1, <3>2
  <2> QED  BY <2>5, <2>6 DEF Drained0, c
<1>5. Bad = {}
  <2> SUFFICES ASSUME Bad # {} PROVE FALSE
    OBVIOUS
  <2>1. PICK m \in Bad : \A k \in Bad : m <= k
    <3>1. Bad \in SUBSET Nat
      BY <1>1
    <3> HIDE DEF Bad
    <3> QED  BY <3>1, LeastNatural
  <2>2. m # 0
    BY <1>3
  <2>3. m - 1 \in 0..Len(gtQueue) /\ m - 1 \notin Bad
    BY <1>1, <2>1, <2>2
  <2> QED  BY <1>4, <2>1, <2>2, <2>3
<1> QED  BY <1>1, <1>5, DrainIsLast DEF f

-----------------------------------------------------------------------------
(* The buffer a frame is matched with.                                     *)

NowDrained == IF opts.file THEN drained ELSE drained \o [i \in DOMAIN gtQueue |-> gtQueue[i].true]
NowLate == late \cup {t \in TrueTimes(gtQueue) : t < bracket}

LEMMA NowDrainedIsTaken ==
  ASSUME TypeOK, QueueOK
  PROVE  NowDrained = Taken(Len(gtQueue))
<1>1. /\ drained \in Seq(Nat) /\ Len(drained) \in Nat /\ gtQueue \in Seq(Sample) /\ Len(gtQueue) \in Nat
      /\ DOMAIN gtQueue = 1..Len(gtQueue) /\ \A i \in 1..Len(gtQueue) : gtQueue[i].true \in Nat
  <2>1. drained \in Seq(Nat) /\ gtQueue \in Seq(Sample)
    BY DEF TypeOK
  <2>2. /\ Len(drained) \in Nat /\ Len(gtQueue) \in Nat /\ DOMAIN gtQueue = 1..Len(gtQueue)
        /\ \A i \in 1..Len(gtQueue) : gtQueue[i] \in Sample
    BY <2>1, SeqFacts
  <2> QED  BY <2>1, <2>2 DEF Sample
<1>2. CASE opts.file
  <2>1. Len(gtQueue) = 0
    BY <1>2 DEF QueueOK
  <2> QED  BY <1>2, <2>1, TakenNone DEF NowDrained
<1>3. CASE ~opts.file
  <2> DEFINE u == [i \in DOMAIN gtQueue |-> gtQueue[i].true]
             all == Taken(Len(gtQueue))
  <2>1. u \in Seq(Nat) /\ Len(u) = Len(gtQueue) /\ \A i \in 1..Len(u) : u[i] = gtQueue[i].true
    <3>1. u \in [1..Len(gtQueue) -> Nat]
      BY <1>1
    <3> QED  BY <1>1, <3>1, IsASeq, LenProperties
  <2>2. NowDrained = drained \o u
    BY <1>3 DEF NowDrained
  <2> HIDE DEF u
  <2>3. /\ drained \o u \in Seq(Nat) /\ Len(drained \o u) = Len(drained) + Len(u)
        /\ \A k \in 1..Len(drained) : (drained \o u)[k] = drained[k]
        /\ \A k \in 1..Len(u) : (drained \o u)[Len(drained) + k] = u[k]
    <3>1. drained \in Seq(Nat) /\ u \in Seq(Nat)
      BY <1>1, <2>1
    <3> QED  BY ONLY <3>1, ConcatFacts
  <2>4. all \in Seq(Nat) /\ Len(all) = Len(drained) + Len(gtQueue)
    <3>1. Len(gtQueue) \in 0..Len(gtQueue)
      BY <1>1
    <3> QED  BY <3>1, TakenFacts
  <2>5. ASSUME NEW i \in 1..(Len(drained) + Len(gtQueue)) PROVE (drained \o u)[i] = all[i]
    <3>1. all[i] = IF i <= Len(drained) THEN drained[i] ELSE gtQueue[i - Len(drained)].true
      BY DEF Taken
    <3>2. CASE i <= Len(drained)
      BY <1>1, <2>3, <3>1, <3>2
    <3>3. CASE ~(i <= Len(drained))
      <4> DEFINE k == i - Len(drained)
      <4>1. k \in 1..Len(u) /\ Len(drained) + k = i
        BY <1>1, <2>1, <3>3
      <4> HIDE DEF k
      <4>2. (drained \o u)[i] = u[k]
        BY <2>3, <4>1
      <4> QED  BY <2>1, <3>1, <3>3, <4>1, <4>2 DEF k
    <3> QED  BY <3>2, <3>3
  <2> HIDE DEF all
  <2> QED  BY <2>1, <2>2, <2>3, <2>4, <2>5, SeqEqual DEF all
<1> QED  BY <1>2, <1>3

\* The buffer a frame is matched with: shifted to the start of the run, and what waits in
\* it is no older than the frame before, or late.
Ready(b) ==
  /\ Tracks(b, NowDrained, Range(examined))
  /\ \A i \in 1..Len(b.buffer) : b.buffer[i].t = b.buffer[i].true
  /\ \A i \in (b.next + 1)..Len(b.buffer) : b.buffer[i].true >= bracket \/ b.buffer[i].true \in NowLate
  /\ opts.file => /\ b.lost = {} /\ Len(b.buffer) = Len(NowDrained) /\ NowLate = {}
                  /\ \A i \in 1..b.next : NowDrained[i] <= bracket
                  /\ \A i \in (b.next + 1)..Len(b.buffer) : b.buffer[i].true > bracket

LEMMA FileReady ==
  ASSUME TypeOK, QueueOK, BufferOK, FileOK, startTime = Start, opts.file
  PROVE  Ready(Buffer)
<1> DEFINE l == Len(gtBuffer)
           u == ShiftedFile
<1>1. /\ gtBuffer \in Seq(Sample) /\ nextGt \in Nat /\ l \in Nat /\ DOMAIN gtBuffer = 1..l
      /\ \A i \in 1..l : gtBuffer[i] \in Sample
      /\ Start \in Nat /\ evicted = {}
  <2>1. gtBuffer \in Seq(Sample) /\ nextGt \in Nat
    BY DEF BufferOK, Tracks, Held
  <2>2. l \in Nat /\ DOMAIN gtBuffer = 1..l /\ \A i \in 1..l : gtBuffer[i] \in Sample
    BY <2>1, SeqFacts
  <2> QED  BY <2>1, <2>2, EvoAssumption DEF FileOK
<1>2. /\ u \in Seq(Sample) /\ Len(u) = l /\ DOMAIN u = 1..l
      /\ \A i \in 1..l : u[i].true = gtBuffer[i].true /\ u[i].t = gtBuffer[i].true
  <2>1. CASE shifted
    <3>1. u = gtBuffer
      BY <2>1 DEF ShiftedFile
    <3>2. \A i \in 1..l : gtBuffer[i].t = gtBuffer[i].true
      <4>1. ASSUME NEW i \in 1..l PROVE gtBuffer[i].t = gtBuffer[i].true + 0
        BY <1>1, <2>1 DEF BufferOK
      <4> QED  BY <1>1, <4>1 DEF Sample
    <3> QED  BY <1>1, <3>1, <3>2
  <2>2. CASE ~shifted
    <3>1. u = [i \in DOMAIN gtBuffer |-> [gtBuffer[i] EXCEPT !.t = @ - startTime]]
      BY <2>2 DEF ShiftedFile
    <3>2. ASSUME NEW i \in 1..l
          PROVE  u[i] \in Sample /\ u[i].true = gtBuffer[i].true /\ u[i].t = gtBuffer[i].true
      <4>1. gtBuffer[i].t = gtBuffer[i].true + Start /\ gtBuffer[i] \in Sample
        BY <1>1, <2>2 DEF BufferOK
      <4> DEFINE s == gtBuffer[i]
                 d == s.t - startTime
      <4>2. u[i] = [s EXCEPT !.t = d]
        BY <1>1, <3>1
      <4>3. d = s.true /\ d \in Int /\ s \in Sample
        BY <1>1, <4>1 DEF Sample
      <4> HIDE DEF u, s, d
      <4>4. [s EXCEPT !.t = d] = [t |-> d, true |-> s.true] /\ s.true \in Nat
        BY <4>3 DEF Sample
      <4>5. u[i] \in Sample /\ u[i].true = s.true /\ u[i].t = d
        BY <4>2, <4>3, <4>4 DEF Sample
      <4> QED  BY <4>3, <4>5 DEF s
    <3>3. u \in [1..l -> Sample]
      BY <1>1, <3>1, <3>2
    <3>4. u \in Seq(Sample) /\ Len(u) = l
      BY <1>1, <3>3, IsASeq, LenProperties
    <3> QED  BY <3>2, <3>3, <3>4
  <2> QED  BY <2>1, <2>2
<1>3. Buffer = [buffer |-> u, next |-> nextGt, lost |-> evicted]
  BY DEF Buffer
<1>4. NowDrained = drained /\ NowLate = {}
  <2>1. TrueTimes(gtQueue) = {}
    BY SeqFacts DEF QueueOK, TrueTimes
  <2> QED  BY <2>1 DEF NowDrained, NowLate, FileOK
<1>5. Tracks(Buffer, NowDrained, Range(examined))
  <2>1. /\ Len(gtBuffer) <= Len(drained) /\ nextGt <= Len(gtBuffer)
        /\ \A i \in DOMAIN gtBuffer : gtBuffer[i].true = drained[Len(drained) - Len(gtBuffer) + i]
        /\ {drained[i] : i \in 1..(Len(drained) - Len(gtBuffer) + nextGt)} = Range(examined) \cup evicted
        /\ Range(examined) \cap evicted = {}
    BY DEF BufferOK, Tracks, Held, Passed
  <2> HIDE DEF u
  <2>2. Buffer \in [buffer : Seq(Sample), next : Nat, lost : SUBSET Nat]
    BY <1>1, <1>2, <1>3
  <2>3. \A i \in DOMAIN Buffer.buffer : Buffer.buffer[i].true = drained[Len(drained) - Len(Buffer.buffer) + i]
    BY <1>1, <1>2, <1>3, <2>1
  <2> QED  BY <1>2, <1>3, <1>4, <2>1, <2>2, <2>3 DEF Tracks, Passed
<1>6. \A i \in (nextGt + 1)..l : u[i].true > bracket
  <2>1. \A i \in (nextGt + 1)..l : i \in 1..l /\ gtBuffer[i].true > bracket
    BY <1>1 DEF BufferOK
  <2> QED  BY <1>2, <2>1
<1>7. \A i \in (nextGt + 1)..l : u[i].true >= bracket
  <2>1. \A i \in (nextGt + 1)..l : u[i].true \in Nat
    <3>1. ASSUME NEW i \in (nextGt + 1)..l PROVE u[i].true \in Nat
      <4>1. i \in 1..l
        BY <1>1
      <4> QED  BY <1>1, <1>2, <4>1 DEF Sample
    <3> QED  BY <3>1
  <2>2. bracket \in Int
    BY DEF TypeOK
  <2> QED  BY <1>6, <2>1, <2>2
<1>8. Len(gtBuffer) = Len(drained) /\ \A i \in 1..nextGt : drained[i] <= bracket
  BY DEF FileOK
<1> HIDE DEF u
<1> QED  BY <1>1, <1>2, <1>3, <1>4, <1>5, <1>6, <1>7, <1>8 DEF Ready

LEMMA TopicReady ==
  ASSUME TypeOK, QueueOK, BufferOK, startTime = Start, ~opts.file
  PROVE  Ready(Buffer)
<1> DEFINE b == Buffer
           n == Len(gtQueue)
<1>1. b = DrainGtQueue
  BY DEF Buffer
<1>2. Tracks(b, Taken(n), Range(examined)) /\ \A i \in 1..Len(b.buffer) : Known0(b.buffer[i], n, i > b.next)
  BY <1>1, DrainFacts DEF Drained0
<1>3. NowDrained = Taken(n)
  BY NowDrainedIsTaken
<1>4. /\ n \in Nat /\ bracket \in Int /\ DOMAIN gtQueue = 1..n /\ \A k \in 1..n : gtQueue[k] \in Sample
      /\ Start \in Nat
  BY SeqFacts, EvoAssumption DEF TypeOK
<1>5. b.next \in Nat /\ Len(b.buffer) \in Nat
  BY <1>2, SeqFacts DEF Tracks
<1>6. Len(gtBuffer) \in Nat /\ nextGt \in Nat /\ DOMAIN gtBuffer = 1..Len(gtBuffer) /\ \A j \in 1..Len(gtBuffer) : gtBuffer[j] \in Sample
  <2>1. gtBuffer \in Seq(Sample) /\ nextGt \in Nat
    BY DEF BufferOK, Tracks, Held
  <2> QED  BY <2>1, SeqFacts
<1> HIDE DEF b, n
<1>7. ASSUME NEW i \in 1..Len(b.buffer)
      PROVE  /\ b.buffer[i].t = b.buffer[i].true
             /\ i > b.next => b.buffer[i].true >= bracket \/ b.buffer[i].true \in NowLate
  <2>1. CASE \E k \in 1..n : b.buffer[i] = gtQueue[k]
    <3>1. PICK k \in 1..n : b.buffer[i] = gtQueue[k]
      BY <2>1
    <3>2. gtQueue[k].t = gtQueue[k].true + Start - Start /\ gtQueue[k] \in Sample
      BY <1>4 DEF QueueOK
    <3>3. gtQueue[k].true < bracket => gtQueue[k].true \in NowLate
      BY <1>4 DEF NowLate, TrueTimes
    <3> QED  BY <1>4, <3>1, <3>2, <3>3 DEF Sample
  <2>2. CASE \E j \in 1..Len(gtBuffer) : b.buffer[i] = gtBuffer[j] /\ (i > b.next => j > nextGt)
    <3>1. PICK j \in 1..Len(gtBuffer) : b.buffer[i] = gtBuffer[j] /\ (i > b.next => j > nextGt)
      BY <2>2
    <3>2. gtBuffer[j].t = gtBuffer[j].true + 0 /\ gtBuffer[j] \in Sample
      BY <1>6 DEF BufferOK
    <3>3. j > nextGt => gtBuffer[j].true > bracket
      BY <1>6 DEF BufferOK
    <3> QED  BY <1>4, <3>1, <3>2, <3>3 DEF Sample
  <2> QED  BY <1>2, <2>1, <2>2 DEF Known0
<1>8. \A i \in (b.next + 1)..Len(b.buffer) : i \in 1..Len(b.buffer) /\ i > b.next
  BY <1>5
<1> QED  BY <1>2, <1>3, <1>7, <1>8 DEF Ready, b

-----------------------------------------------------------------------------
(* The samples that a frame closes the bracket of.                         *)

\* They are the ones behind the cursor that are no later than the frame.
IsDue(due, b, now) ==
  /\ due \in Seq(Sample) /\ b.next + Len(due) <= Len(b.buffer)
  /\ \A i \in 1..Len(due) : due[i] = b.buffer[b.next + i] /\ due[i].t <= now
  /\ b.next + Len(due) < Len(b.buffer) => b.buffer[b.next + Len(due) + 1].t > now

LEMMA DueFacts ==
  ASSUME NEW b, b.buffer \in Seq(Sample), b.next \in Nat, b.next <= Len(b.buffer), NEW now \in Int
  PROVE  IsDue(DueSamples(b, now), b, now)
<1> DEFINE l == Len(b.buffer)
           Later(e) == e < l => b.buffer[e + 1].t > now
           IsEnd(e) == (\A i \in (b.next + 1)..e : b.buffer[i].t <= now) /\ Later(e)
           Ends == {e \in b.next..l : Later(e)}
           end == CHOOSE e \in b.next..l : IsEnd(e)
<1>1. l \in Nat /\ \A i \in 1..l : b.buffer[i] \in Sample /\ b.buffer[i].t \in Int
  <2>1. l \in Nat /\ \A i \in 1..l : b.buffer[i] \in Sample
    BY SeqFacts
  <2> QED  BY <2>1 DEF Sample
<1>2. l \in Ends /\ Ends \in SUBSET Nat
  BY <1>1
<1>3. PICK m \in Ends : \A k \in Ends : m <= k
  <2> HIDE DEF Ends
  <2> QED  BY <1>2, LeastNatural
<1>4. IsEnd(m)
  <2>1. ASSUME NEW i \in (b.next + 1)..m PROVE b.buffer[i].t <= now
    <3>1. i - 1 \in b.next..l /\ i - 1 < m /\ i - 1 < l /\ i - 1 + 1 = i /\ i \in 1..l
      BY <1>1, <1>3
    <3>2. i - 1 \notin Ends
      BY <1>1, <1>3, <3>1
    <3>3. ~(b.buffer[i].t > now)
      BY <3>1, <3>2
    <3> QED  BY <1>1, <3>1, <3>3
  <2> QED  BY <1>3, <2>1
<1>5. end \in b.next..l /\ IsEnd(end)
  <2>1. m \in b.next..l
    BY <1>3
  <2> HIDE DEF IsEnd
  <2> QED  BY <1>4, <2>1
<1> DEFINE due == SubSeq(b.buffer, b.next + 1, end)
<1>6. DueSamples(b, now) = due
  BY DEF DueSamples
<1> HIDE DEF end
<1>7. due \in Seq(Sample) /\ Len(due) = end - b.next /\ \A i \in 1..(end - b.next) : due[i] = b.buffer[b.next + i]
  <2>1. b.next + 1 \in 1..(l + 1) /\ end \in (b.next + 1 - 1)..l
    BY <1>1, <1>5
  <2>2. \A i \in (b.next + 1)..end : b.buffer[i] \in Sample
    <3>1. \A i \in (b.next + 1)..end : i \in 1..l
      BY <1>1, <1>5
    <3> QED  BY <1>1, <3>1
  <2>3. /\ due \in Seq(Sample)
        /\ Len(due) = IF b.next + 1 <= end THEN end - (b.next + 1) + 1 ELSE 0
        /\ \A i \in 1..(end - (b.next + 1) + 1) : due[i] = b.buffer[(b.next + 1) + i - 1]
    <3> DEFINE first == b.next + 1
               s == b.buffer
    <3>1. first \in Int /\ end \in Int /\ \A i \in first..end : s[i] \in Sample
      BY <1>1, <1>5, <2>2
    <3> HIDE DEF first, s
    <3>2. /\ SubSeq(s, first, end) \in Seq(Sample)
          /\ Len(SubSeq(s, first, end)) = IF first <= end THEN end - first + 1 ELSE 0
          /\ \A i \in 1..(end - first + 1) : SubSeq(s, first, end)[i] = s[first + i - 1]
      BY <3>1, SubSeqProperties
    <3> QED  BY <3>2 DEF first, s
  <2> DEFINE next == b.next
  <2>a. next \in Nat /\ end \in Int /\ end >= next
    BY <1>1, <1>5
  <2> HIDE DEF due, next
  <2>4. Len(due) = end - next
    <3>1. next + 1 <= end \/ end = next
      BY <2>a
    <3>2. Len(due) = IF next + 1 <= end THEN end - (next + 1) + 1 ELSE 0
      BY <2>3 DEF next
    <3> QED  BY <2>a, <3>1, <3>2
  <2>5. \A i \in 1..(end - next) : due[i] = b.buffer[next + i]
    <3>1. ASSUME NEW i \in 1..(end - next) PROVE due[i] = b.buffer[next + i]
      <4>1. i \in 1..(end - (next + 1) + 1) /\ (next + 1) + i - 1 = next + i
        BY <2>a
      <4>2. due[i] = b.buffer[(next + 1) + i - 1]
        BY <2>3, <4>1 DEF next
      <4> QED  BY <4>1, <4>2
    <3> QED  BY <3>1
  <2> QED  BY <2>3, <2>4, <2>5 DEF next
<1>8. \A i \in 1..(end - b.next) : due[i].t <= now
  <2>1. ASSUME NEW i \in 1..(end - b.next) PROVE due[i].t <= now
    <3>1. b.next + i \in (b.next + 1)..end
      BY <1>5
    <3> QED  BY <1>5, <1>7, <3>1
  <2> QED  BY <2>1
<1> HIDE DEF due
<1>9. b.next + (end - b.next) = end
  BY <1>5
<1>10. b.next + Len(due) = end /\ end <= l /\ (end < l => b.buffer[end + 1].t > now)
  BY <1>1, <1>5, <1>7, <1>9
<1>11. due \in Seq(Sample) /\ b.next + Len(due) <= l
  BY <1>7, <1>10
<1>12. \A i \in 1..Len(due) : due[i] = b.buffer[b.next + i] /\ due[i].t <= now
  BY <1>7, <1>8
<1>13. b.next + Len(due) < l => b.buffer[b.next + Len(due) + 1].t > now
  BY <1>10
<1> QED  BY <1>6, <1>11, <1>12, <1>13 DEF IsDue

-----------------------------------------------------------------------------
(* The matches of a frame: FlattenSeq of a row per sample.                 *)

\* A row holds at most one match, and rows are in the order of their samples.
IsRows(q) ==
  /\ q \in Seq(Seq(Match))
  /\ \A i \in 1..Len(q) : Len(q[i]) <= 1
  /\ \A i, j \in 1..Len(q) : i < j /\ q[i] # <<>> /\ q[j] # <<>> => q[i][1].true < q[j][1].true

\* The matches of the first n rows, in order.
Flat(s, q, n) ==
  /\ s \in Seq(Match)
  /\ \A k \in 1..Len(s) : \E i \in 1..n : q[i] # <<>> /\ s[k] = q[i][1]
  /\ \A i \in 1..n : q[i] # <<>> => \E k \in 1..Len(s) : s[k] = q[i][1]
  /\ \A k, l \in 1..Len(s) : k < l => s[k].true < s[l].true

Join(f, q, i) == IF i = 1 THEN q[i] ELSE f[i - 1] \o q[i]
IsJoin(f, q, n) == f = [i \in 1..n |-> Join(f, q, i)]
Joined(q) == CHOOSE f : IsJoin(f, q, Len(q))

LEMMA FlattenIsJoined ==
  ASSUME NEW q, Len(q) # 0
  PROVE  FlattenSeq(q) = Joined(q)[Len(q)]
BY DEF FlattenSeq, Joined, IsJoin, Join

LEMMA JoinExists ==
  ASSUME NEW q
  PROVE  \A n \in Nat : \E f : IsJoin(f, q, n)
<1> DEFINE Bad == {n \in Nat : ~\E f : IsJoin(f, q, n)}
<1> SUFFICES ASSUME Bad # {} PROVE FALSE
  OBVIOUS
<1>1. PICK m \in Bad : \A k \in Bad : m <= k
  BY LeastNatural
<1>2. m # 0
  <2> DEFINE f == [k \in 1..0 |-> <<>>]
  <2>1. f = [k \in 1..0 |-> Join(f, q, k)]
    OBVIOUS
  <2>2. 0 \notin Bad
    BY <2>1 DEF IsJoin
  <2> QED  BY <2>2
<1>3. m - 1 \in Nat /\ m - 1 \notin Bad
  BY <1>1, <1>2
<1>4. PICK f : IsJoin(f, q, m - 1)
  BY <1>3
<1> DEFINE g == [k \in 1..m |-> Join(f, q, k)]
<1>5. \A k \in 1..(m - 1) : f[k] = g[k]
  BY <1>3, <1>4 DEF IsJoin
<1>6. ASSUME NEW k \in 1..m PROVE Join(f, q, k) = Join(g, q, k)
  <2>1. CASE k = 1
    BY <2>1 DEF Join
  <2>2. CASE k # 1
    <3> HIDE DEF g
    <3>1. k - 1 \in 1..(m - 1)
      BY <1>3, <2>2
    <3>2. f[k - 1] = g[k - 1]
      BY <1>5, <3>1
    <3> QED  BY <2>2, <3>2 DEF Join
  <2> QED  BY <2>1, <2>2
<1>7. g = [k \in 1..m |-> Join(g, q, k)]
  <2>1. \A k \in 1..m : g[k] = Join(g, q, k)
    BY <1>6
  <2> QED  BY <2>1
<1>8. m \notin Bad
  BY <1>7 DEF IsJoin
<1> QED  BY <1>1, <1>8

LEMMA FlatStep ==
  ASSUME NEW q, IsRows(q), NEW n \in 1..Len(q), NEW s, Flat(s, q, n - 1), NEW r, r = q[n]
  PROVE  Flat(s \o r, q, n)
<1> DEFINE c == s \o r
<1>1. /\ s \in Seq(Match) /\ r \in Seq(Match) /\ Len(r) \in Nat /\ Len(r) <= 1 /\ Len(s) \in Nat
      /\ r # <<>> <=> Len(r) = 1
      /\ n \in Nat /\ Len(q) \in Nat /\ n - 1 \in Nat
  <2>1. q \in Seq(Seq(Match)) /\ Len(r) <= 1 /\ s \in Seq(Match)
    BY DEF IsRows, Flat
  <2>2. Len(q) \in Nat /\ r \in Seq(Match)
    BY <2>1, SeqFacts
  <2>3. Len(r) \in Nat /\ Len(s) \in Nat /\ (r = <<>> <=> Len(r) = 0)
    BY <2>1, <2>2, SeqFacts
  <2>4. n \in Nat /\ n - 1 \in Nat
    BY <2>2
  <2>5. r # <<>> <=> Len(r) = 1
    <3>1. Len(r) = 0 \/ Len(r) = 1
      BY <2>1, <2>3, ZeroOrOne
    <3> QED  BY <2>3, <3>1
  <2>6. Len(r) \in Nat /\ Len(s) \in Nat /\ Len(r) <= 1
    BY <2>1, <2>3
  <2> QED  BY <2>1, <2>2, <2>4, <2>5, <2>6
<1>2. /\ c \in Seq(Match) /\ Len(c) = Len(s) + Len(r)
      /\ \A k \in 1..Len(s) : c[k] = s[k]
      /\ \A k \in 1..Len(r) : c[Len(s) + k] = r[k]
  BY <1>1, ConcatFacts
<1> HIDE DEF c
<1>3. ASSUME NEW k \in 1..Len(c), ~(k <= Len(s))
      PROVE  k = Len(s) + 1 /\ Len(r) = 1 /\ c[k] = r[1]
  <2>1. k = Len(s) + 1 /\ Len(r) = 1
    BY <1>1, <1>2, <1>3
  <2> QED  BY <1>1, <1>2, <2>1
<1>4. \A i \in 1..(n - 1) : i \in 1..n /\ i \in 1..Len(q) /\ i < n
  BY <1>1
<1>5. ASSUME NEW k \in 1..Len(c) PROVE \E i \in 1..n : q[i] # <<>> /\ c[k] = q[i][1]
  <2>1. CASE k <= Len(s)
    <3>1. k \in 1..Len(s)
      BY <1>1, <1>2, <2>1
    <3>2. PICK i \in 1..(n - 1) : q[i] # <<>> /\ s[k] = q[i][1]
      BY <3>1 DEF Flat
    <3> QED  BY <1>2, <1>4, <3>1, <3>2
  <2>2. CASE ~(k <= Len(s))
    <3>1. n \in 1..n
      BY <1>1
    <3> QED  BY <1>1, <1>3, <2>2, <3>1
  <2> QED  BY <2>1, <2>2
<1>6. ASSUME NEW i \in 1..n, q[i] # <<>> PROVE \E k \in 1..Len(c) : c[k] = q[i][1]
  <2>1. CASE i = n
    <3>1. Len(r) = 1 /\ Len(s) + 1 \in 1..Len(c) /\ 1 \in 1..Len(r)
      BY <1>1, <1>2, <1>6, <2>1
    <3>2. c[Len(s) + 1] = q[i][1]
      BY <1>2, <2>1, <3>1
    <3> QED  BY <3>1, <3>2
  <2>2. CASE i # n
    <3>1. i \in 1..(n - 1)
      BY <1>1, <2>2
    <3>2. PICK k \in 1..Len(s) : s[k] = q[i][1]
      BY <1>6, <3>1 DEF Flat
    <3>3. k \in 1..Len(c)
      BY <1>1, <1>2
    <3> QED  BY <1>2, <3>2, <3>3
  <2> QED  BY <2>1, <2>2
<1>7. ASSUME NEW k \in 1..Len(c), NEW l \in 1..Len(c), k < l PROVE c[k].true < c[l].true
  <2>1. CASE l <= Len(s)
    <3>1. k \in 1..Len(s) /\ l \in 1..Len(s)
      BY <1>1, <1>2, <1>7, <2>1
    <3> QED  BY <1>2, <1>7, <3>1 DEF Flat
  <2>2. CASE ~(l <= Len(s))
    <3>1. l = Len(s) + 1 /\ Len(r) = 1 /\ c[l] = r[1]
      BY <1>3, <2>2
    <3>2. k \in 1..Len(s)
      BY <1>1, <1>2, <1>7, <3>1
    <3>3. PICK i \in 1..(n - 1) : q[i] # <<>> /\ s[k] = q[i][1]
      BY <3>2 DEF Flat
    <3>4. q[i][1].true < q[n][1].true
      <4>1. i \in 1..Len(q) /\ n \in 1..Len(q) /\ i < n /\ q[n] # <<>>
        BY <1>1, <1>4, <3>1, <3>3
      <4> QED  BY <3>3, <4>1 DEF IsRows
    <3> QED  BY <1>2, <3>1, <3>2, <3>3, <3>4
  <2> QED  BY <2>1, <2>2
<1> QED  BY <1>2, <1>5, <1>6, <1>7 DEF Flat, c

LEMMA FlattenFacts ==
  ASSUME NEW q, IsRows(q)
  PROVE  Flat(FlattenSeq(q), q, Len(q))
<1> DEFINE f == Joined(q)
           Bad == {n \in 1..Len(q) : ~Flat(f[n], q, n)}
<1>1. Len(q) \in Nat /\ (q = <<>> <=> Len(q) = 0)
  BY SeqFacts DEF IsRows
<1>2. CASE Len(q) = 0
  <2>1. FlattenSeq(q) = <<>>
    BY <1>1, <1>2 DEF FlattenSeq
  <2> QED  BY <1>2, <2>1 DEF Flat
<1>3. CASE Len(q) # 0
  <2>1. \A n \in 1..Len(q) : f[n] = Join(f, q, n)
    <3>1. IsJoin(f, q, Len(q))
      BY <1>1, JoinExists DEF Joined
    <3> QED  BY <3>1 DEF IsJoin
  <2> HIDE DEF f
  <2>2. Flat(f[1], q, 1)
    <3>1. f[1] = q[1] /\ 1 \in 1..Len(q)
      BY <1>1, <1>3, <2>1 DEF Join
    <3>2. q[1] \in Seq(Match) /\ Len(q[1]) <= 1
      BY <3>1, SeqFacts DEF IsRows
    <3>3. Len(q[1]) \in Nat /\ (q[1] = <<>> <=> Len(q[1]) = 0)
      BY <3>2, SeqFacts
    <3>4. \A k \in 1..Len(q[1]) : k = 1 /\ q[1] # <<>>
      BY <3>2, <3>3
    <3>5. \A i \in 1..1 : i = 1
      OBVIOUS
    <3>6. q[1] # <<>> => 1 \in 1..Len(q[1])
      BY <3>3
    <3>7. 1 \in 1..1
      OBVIOUS
    <3> HIDE DEF Bad
    <3>8. \A k, l \in 1..Len(q[1]) : ~(k < l)
      BY <3>4
    <3> QED  BY <3>1, <3>2, <3>4, <3>5, <3>6, <3>7, <3>8 DEF Flat
  <2>3. ASSUME NEW n \in 1..Len(q), n # 1, Flat(f[n - 1], q, n - 1)
        PROVE  Flat(f[n], q, n)
    <3>1. f[n] = f[n - 1] \o q[n]
      BY <2>1, <2>3 DEF Join
    <3> QED  BY <2>3, <3>1, FlatStep
  <2>4. Bad = {}
    <3> SUFFICES ASSUME Bad # {} PROVE FALSE
      OBVIOUS
    <3>1. PICK m \in Bad : \A k \in Bad : m <= k
      <4>1. Bad \in SUBSET Nat
        BY <1>1
      <4> HIDE DEF Bad
      <4> QED  BY <4>1, LeastNatural
    <3>2. m # 1
      BY <2>2
    <3>3. m - 1 \in 1..Len(q) /\ m - 1 \notin Bad
      BY <1>1, <3>1, <3>2
    <3> QED  BY <2>3, <3>1, <3>2, <3>3
  <2> QED  BY <1>1, <1>3, <2>4, FlattenIsJoined DEF f
<1> QED  BY <1>2, <1>3

-----------------------------------------------------------------------------
(* The match of one sample.                                                *)

One(m, s, now) ==
  IF bracket = NoFrame THEN <<>>
  ELSE IF m = "nearest" THEN NearestMatch(s, bracket, now) ELSE InterpMatch(s, bracket, now)
Rows(m, due, now) == [i \in DOMAIN due |-> One(m, due[i], now)]

LEMMA MatchesAreFlat ==
  ASSUME NEW due, NEW now
  PROVE  Matches(due, now) = [m \in AssocModes |-> FlattenSeq(Rows(m, due, now))]
BY DEF Matches, One, Rows

\* The frame before is the last of all frames.
LEMMA FramesBefore ==
  ASSUME TypeOK, FramesOK
  PROVE  /\ \A f \in Range(frames) : f \in Nat /\ f <= bracket
         /\ bracket = NoFrame <=> frames = <<>>
         /\ frames # <<>> => bracket \in Range(frames) /\ bracket \in Nat
<1>1. /\ Len(frames) \in Nat /\ DOMAIN frames = 1..Len(frames) /\ \A k \in 1..Len(frames) : frames[k] \in Nat
      /\ frames = <<>> <=> Len(frames) = 0
  BY SeqFacts DEF TypeOK
<1>2. CASE frames = <<>>
  BY <1>1, <1>2 DEF FramesOK, Range
<1>3. CASE frames # <<>>
  <2>1. Len(frames) \in 1..Len(frames) /\ bracket = frames[Len(frames)] /\ bracket \in Nat
    <3>1. Len(frames) \in 1..Len(frames)
      BY <1>1, <1>3
    <3> QED  BY <1>1, <1>3, <3>1 DEF FramesOK
  <2>2. ASSUME NEW k \in 1..Len(frames) PROVE frames[k] \in Nat /\ frames[k] <= bracket
    <3>1. CASE k = Len(frames)
      BY <2>1, <3>1
    <3>2. CASE k # Len(frames)
      <4>1. k < Len(frames)
        BY <1>1, <3>2, BelowTop
      <4>2. frames[k] < frames[Len(frames)]
        BY <1>1, <2>1, <4>1 DEF FramesOK, Ascending
      <4>3. frames[k] < bracket /\ frames[k] \in Nat
        BY <1>1, <2>1, <4>2
      <4> QED  BY <2>1, <4>3
    <3> QED  BY <3>1, <3>2
  <2> QED  BY <1>1, <1>3, <2>1, <2>2 DEF Range, NoFrame
<1> QED  BY <1>2, <1>3

\* The frames once `now' is done: no other lies between the two sides of the bracket.
LEMMA Between ==
  ASSUME TypeOK, FramesOK, frames # <<>>, NEW now \in Nat, now > bracket
  PROVE  /\ bracket \in Nat
         /\ \A f \in Range(frames) \cup {now} : f \in Nat /\ (f <= bracket \/ f = now)
         /\ {f \in Range(frames) \cup {now} : bracket <= f /\ f <= now} = {bracket, now}
<1>1. bracket \in Nat /\ bracket \in Range(frames) /\ \A f \in Range(frames) : f \in Nat /\ f <= bracket
  BY FramesBefore
<1>2. \A f \in Range(frames) \cup {now} : f \in Nat /\ (f <= bracket \/ f = now)
  BY <1>1
<1>3. ASSUME NEW f \in Range(frames) \cup {now}, bracket <= f, f <= now PROVE f \in {bracket, now}
  BY <1>1, <1>2, <1>3
<1>4. /\ bracket \in Range(frames) \cup {now} /\ now \in Range(frames) \cup {now}
      /\ bracket <= bracket /\ bracket <= now /\ now <= now
  BY <1>1
<1> HIDE DEF Range
<1>5. {f \in Range(frames) \cup {now} : bracket <= f /\ f <= now} = {bracket, now}
  BY <1>3, <1>4
<1> QED  BY <1>1, <1>2, <1>5

\* The nearer of the two sides is the nearest of all frames.
LEMMA NearerIsNearest ==
  ASSUME TypeOK, FramesOK, frames # <<>>, NEW now \in Nat, now > bracket,
         NEW s \in Sample, s.t = s.true, bracket <= s.true, s.true <= now
  PROVE  LET f == Nearer(s, bracket, now)
         IN /\ f \in Range(frames) \cup {now} /\ f \in Nat
            /\ Apart(f, s.true) = (IF f = bracket THEN s.t - bracket ELSE now - s.t)
            /\ \A g \in Range(frames) \cup {now} : Apart(g, s.true) >= Apart(f, s.true)
<1> DEFINE x == s.true
           f == Nearer(s, bracket, now)
<1>1. x \in Nat /\ s.t = x
  BY DEF Sample
<1>2. bracket \in Nat /\ bracket \in Range(frames)
  BY FramesBefore
<1> HIDE DEF x
<1>3. f = (IF x - bracket <= now - x THEN bracket ELSE now)
  BY <1>1 DEF Nearer, x
<1>4. x >= bracket /\ x <= now
  BY DEF x
<1> HIDE DEF f
<1>5. f = bracket \/ f = now
  BY <1>3
<1>6. Apart(f, x) = (IF f = bracket THEN x - bracket ELSE now - x)
  BY <1>1, <1>2, <1>4, <1>5 DEF Apart
<1>7. ASSUME NEW g \in Range(frames) \cup {now} PROVE Apart(g, x) >= Apart(f, x)
  <2>1. g \in Nat /\ (g <= bracket \/ g = now)
    BY Between
  <2>2. CASE g <= bracket
    <3>1. Apart(g, x) = x - g
      BY <1>1, <1>2, <1>4, <2>1, <2>2 DEF Apart
    <3> QED  BY <1>1, <1>2, <1>3, <1>4, <1>6, <2>1, <2>2, <3>1
  <2>3. CASE g = now
    <3>1. Apart(g, x) = now - x
      BY <1>1, <1>4, <2>3 DEF Apart
    <3> QED  BY <1>1, <1>2, <1>3, <1>4, <1>6, <3>1
  <2> QED  BY <2>1, <2>2, <2>3
<1> QED  BY <1>1, <1>2, <1>5, <1>6, <1>7 DEF x, f

\* One sample gives at most one match, of the sample and rightful unless the bracket of
\* the sample closed before; for a checkpoint there is one if a frame is near.
IsMatchOf(r, m, s, now) ==
  /\ r \in Seq(Match) /\ Len(r) <= 1
  /\ r # <<>> => /\ frames # <<>> /\ r[1].true = s.true
                 /\ s.true >= bracket => Rightful(m, r[1], Range(frames) \cup {now})
  /\ opts.file /\ m = "nearest" /\ s.true >= bracket /\ frames # <<>> =>
       (r # <<>> <=> Near(s.true, Range(frames) \cup {now}))

LEMMA SingleFacts ==
  ASSUME NEW p \in Match
  PROVE  <<p>> \in Seq(Match) /\ Len(<<p>>) = 1 /\ <<p>>[1] = p /\ <<p>> # <<>>
OBVIOUS

LEMMA NearestFacts ==
  ASSUME TypeOK, FramesOK, frames # <<>>, NEW now \in Nat, now > bracket,
         NEW s \in Sample, s.t = s.true, s.true <= now
  PROVE  IsMatchOf(NearestMatch(s, bracket, now), "nearest", s, now)
<1> DEFINE f == Nearer(s, bracket, now)
           gap == IF f = bracket THEN s.t - bracket ELSE now - s.t
           p == [true |-> s.true, at |-> s.t, from |-> f, to |-> f]
           taken == (opts.file \/ opts.nearestLive) /\ gap <= MaxTimeDiff
           times == Range(frames) \cup {now}
           r == NearestMatch(s, bracket, now)
<1>1. r = IF taken THEN <<p>> ELSE <<>>
  <2> HIDE DEF f
  <2> QED  BY DEF NearestMatch, f
<1>2. f \in Int
  BY DEF Nearer, TypeOK
<1>3. p \in Match
  <2> HIDE DEF f
  <2> QED  BY <1>2 DEF Match, Sample
<1>4. p.true = s.true /\ p.at = s.true /\ p.from = f
  OBVIOUS
<1>5. ASSUME s.true >= bracket
      PROVE  /\ f \in times /\ Apart(f, s.true) = gap
             /\ \A g \in times : g \in Nat /\ Apart(g, s.true) >= gap
  <2>1. bracket <= s.true
    <3>1. s.true \in Nat /\ bracket \in Int
      BY DEF Sample, TypeOK
    <3> QED  BY <1>5, <3>1
  <2>2. /\ f \in times /\ Apart(f, s.true) = gap
        /\ \A g \in times : Apart(g, s.true) >= Apart(f, s.true)
    BY <2>1, NearerIsNearest
  <2>3. \A g \in times : g \in Nat
    BY Between
  <2> QED  BY <2>2, <2>3
<1>0. s.true \in Nat /\ s.t \in Int
  BY DEF Sample
<1> HIDE DEF p, f, gap, times
<1>6. taken /\ s.true >= bracket => Rightful("nearest", p, times)
  BY <1>4, <1>5 DEF Rightful
<1>7. ASSUME opts.file, s.true >= bracket PROVE taken <=> Near(s.true, times)
  <2>1. gap \in Int /\ MaxTimeDiff \in Int
    <3>1. s.t \in Int /\ bracket \in Int
      BY DEF Sample, TypeOK
    <3> QED  BY <3>1, EvoAssumption DEF gap
  <2>2. gap <= MaxTimeDiff => Near(s.true, times)
    BY <1>5, <1>7 DEF Near
  <2>3. ASSUME Near(s.true, times) PROVE gap <= MaxTimeDiff
    <3>1. PICK g \in times : Apart(g, s.true) <= MaxTimeDiff
      BY <2>3 DEF Near
    <3>2. Apart(g, s.true) >= gap /\ Apart(g, s.true) \in Int
      <4>1. g \in Nat /\ s.true \in Nat
        BY <1>5, <1>7 DEF Sample
      <4> QED  BY <1>5, <1>7, <4>1 DEF Apart
    <3> QED  BY <2>1, <3>1, <3>2
  <2> QED  BY <1>7, <2>2, <2>3
<1> HIDE DEF taken, r
<1>8. CASE taken
  <2>1. r \in Seq(Match) /\ Len(r) = 1 /\ r # <<>> /\ r[1] = p
    BY <1>1, <1>3, <1>8, SingleFacts
  <2> QED  BY <1>4, <1>6, <1>7, <1>8, <2>1 DEF IsMatchOf, r, times
<1>9. CASE ~taken
  <2>1. r = <<>> /\ r \in Seq(Match) /\ Len(r) <= 1
    BY <1>1, <1>9
  <2> QED  BY <1>7, <1>9, <2>1 DEF IsMatchOf, r, times
<1> QED  BY <1>8, <1>9

LEMMA InterpFacts ==
  ASSUME TypeOK, FramesOK, frames # <<>>, NEW now \in Nat, now > bracket,
         NEW s \in Sample, s.t = s.true, s.true <= now
  PROVE  IsMatchOf(InterpMatch(s, bracket, now), "interp", s, now)
<1> DEFINE p == [true |-> s.true, at |-> s.t, from |-> bracket, to |-> now]
           taken == ~opts.file /\ now - bracket <= 2 * MaxTimeDiff
           times == Range(frames) \cup {now}
           r == InterpMatch(s, bracket, now)
<1>1. r = IF taken THEN <<p>> ELSE <<>>
  BY DEF InterpMatch
<1>2. p \in Match
  BY DEF Match, Sample, TypeOK
<1>3. p.true = s.true /\ p.at = s.true /\ p.from = bracket /\ p.to = now
  OBVIOUS
<1> HIDE DEF p
<1>4. s.true >= bracket => Rightful("interp", p, times)
  <2>1. s.true \in Nat /\ bracket \in Int
    BY DEF Sample, TypeOK
  <2>2. s.true >= bracket => bracket <= s.true
    BY <2>1
  <2>3. {f \in times : bracket <= f /\ f <= now} = {bracket, now}
    BY Between
  <2> QED  BY <1>3, <2>2, <2>3 DEF Rightful
<1> HIDE DEF taken, r, times
<1>5. CASE taken
  <2>1. r \in Seq(Match) /\ Len(r) = 1 /\ r # <<>> /\ r[1] = p
    BY <1>1, <1>2, <1>5, SingleFacts
  <2> QED  BY <1>3, <1>4, <2>1 DEF IsMatchOf, r, times
<1>6. CASE ~taken
  <2>1. r = <<>> /\ r \in Seq(Match) /\ Len(r) <= 1
    BY <1>1, <1>6
  <2> QED  BY <2>1 DEF IsMatchOf, r, times
<1> QED  BY <1>5, <1>6

LEMMA OneFacts ==
  ASSUME TypeOK, FramesOK, NEW now \in Nat, frames # <<>> => now > bracket, NEW m \in AssocModes,
         NEW s \in Sample, s.t = s.true, s.true <= now
  PROVE  IsMatchOf(One(m, s, now), m, s, now)
<1>1. CASE frames = <<>>
  <2>1. One(m, s, now) = <<>>
    BY <1>1, FramesBefore DEF One
  <2> QED  BY <1>1, <2>1 DEF IsMatchOf
<1>2. CASE frames # <<>>
  <2>1. bracket # NoFrame
    BY <1>2, FramesBefore
  <2>2. CASE m = "nearest"
    BY <1>2, <2>1, <2>2, NearestFacts DEF One
  <2>3. CASE m = "interp"
    <3>1. m # "nearest"
      BY <2>3
    <3> QED  BY <1>2, <2>1, <2>3, <3>1, InterpFacts DEF One
  <2> QED  BY <2>2, <2>3 DEF AssocModes
<1> QED  BY <1>1, <1>2

-----------------------------------------------------------------------------
(* processEvo(), conjunct by conjunct.                                     *)

\* What holds while a frame is processed.
Closing(b, due, now) ==
  /\ Ready(b) /\ IsDue(due, b, now) /\ now \in Nat
  /\ frames # <<>> => now > bracket

\* The due samples are the next of those taken in, in order.
LEMMA DueSampleFacts ==
  ASSUME TypeOK, QueueOK, NEW b, NEW due, NEW now, Closing(b, due, now)
  PROVE  LET p == Passed(b, NowDrained)
         IN /\ NowDrained \in Seq(Nat) /\ Ascending(NowDrained)
            /\ p \in Nat /\ p + Len(due) <= Len(NowDrained) /\ Len(due) \in Nat
            /\ \A i \in 1..Len(due) :
                 /\ due[i] \in Sample /\ due[i].t = due[i].true /\ due[i].true <= now
                 /\ p + i \in DOMAIN NowDrained /\ due[i].true = NowDrained[p + i]
                 /\ due[i].true >= bracket \/ due[i].true \in NowLate
            /\ \A i, j \in 1..Len(due) : i < j => due[i].true < due[j].true
            /\ \A x \in Range(examined) \cup b.lost, i \in 1..Len(due) : x < due[i].true
<1> DEFINE all == NowDrained
           n == Len(all)
           l == Len(b.buffer)
           p == n - l + b.next
           d == Len(due)
<1>1. all \in Seq(Nat) /\ Ascending(all)
  <2>1. Len(gtQueue) \in 0..Len(gtQueue)
    <3>1. Len(gtQueue) \in Nat
      BY SeqFacts DEF TypeOK
    <3> QED  BY <3>1
  <2> QED  BY <2>1, NowDrainedIsTaken, TakenFacts
<1> HIDE DEF all
<1>2. n \in Nat /\ DOMAIN all = 1..n /\ \A i \in 1..n : all[i] \in Nat
  BY <1>1, SeqFacts
<1>3. /\ b.buffer \in Seq(Sample) /\ b.next \in Nat /\ l <= n /\ b.next <= l
      /\ \A i \in DOMAIN b.buffer : b.buffer[i].true = all[n - l + i]
      /\ {all[i] : i \in 1..p} = Range(examined) \cup b.lost
  BY DEF Closing, Ready, Tracks, Passed, all
<1>4. l \in Nat /\ DOMAIN b.buffer = 1..l /\ \A i \in 1..l : b.buffer[i] \in Sample
  BY <1>3, SeqFacts
<1>5. due \in Seq(Sample) /\ b.next + d <= l /\ \A i \in 1..d : due[i] = b.buffer[b.next + i] /\ due[i].t <= now
  BY DEF Closing, IsDue
<1>6. d \in Nat /\ \A i \in 1..d : due[i] \in Sample
  BY <1>5, SeqFacts
<1> DEFINE next == b.next
<1>7. next \in Nat /\ next <= l /\ next + d <= l /\ p = n - l + next
  BY <1>3, <1>5
<1> HIDE DEF n, l, d, p, next
<1>8. p \in Nat /\ p + d <= n
  BY <1>2, <1>3, <1>4, <1>6, <1>7
<1>9. ASSUME NEW i \in 1..d
      PROVE  /\ due[i] \in Sample /\ due[i].t = due[i].true /\ due[i].true <= now
             /\ p + i \in DOMAIN all /\ due[i].true = all[p + i]
             /\ due[i].true >= bracket \/ due[i].true \in NowLate
  <2>1. next + i \in 1..l /\ next + i \in (next + 1)..l /\ p + i \in 1..n /\ n - l + (next + i) = p + i
    <3>1. n \in Nat /\ l \in Nat /\ d \in Nat /\ i \in 1..d
      BY <1>2, <1>4, <1>6
    <3>2. next + i \in 1..l /\ next + i \in (next + 1)..l
      BY <3>1, <1>7
    <3>3. p + i \in 1..n
      BY <3>1, <1>8
    <3>4. n - l + (next + i) = p + i
      BY <3>1, <1>7
    <3> QED  BY <3>2, <3>3, <3>4
  <2>2. due[i] = b.buffer[next + i] /\ due[i].t <= now /\ due[i] \in Sample
    BY <1>5, <1>6 DEF next, d
  <2>3. due[i].t = due[i].true
    BY <2>1, <2>2 DEF Closing, Ready, l
  <2>4. due[i].true = all[p + i]
    <3>1. b.buffer[next + i].true = all[n - l + (next + i)]
      BY <1>3, <1>4, <2>1
    <3> QED  BY <2>1, <2>2, <3>1
  <2>5. due[i].true >= bracket \/ due[i].true \in NowLate
    BY <2>1, <2>2 DEF Closing, Ready, next, l
  <2> QED  BY <1>2, <2>1, <2>2, <2>3, <2>4, <2>5
<1>10. ASSUME NEW i \in 1..d, NEW j \in 1..d, i < j PROVE due[i].true < due[j].true
  <2>1. p + i < p + j
    BY <1>6, <1>8, <1>10
  <2>2. all[p + i] < all[p + j]
    BY <1>1, <1>9, <2>1 DEF Ascending
  <2> QED  BY <1>9, <2>2
<1>11. ASSUME NEW x \in Range(examined) \cup b.lost, NEW i \in 1..d PROVE x < due[i].true
  <2>1. PICK k \in 1..p : x = all[k]
    BY <1>3
  <2>2. k \in DOMAIN all /\ k < p + i
    BY <1>2, <1>6, <1>8
  <2>3. all[k] < all[p + i]
    BY <1>1, <1>9, <2>2 DEF Ascending
  <2> QED  BY <1>9, <2>1, <2>3
<1>12. Passed(b, NowDrained) = p
  BY DEF Passed, p, n, l, all, next
<1> QED  BY <1>1, <1>6, <1>8, <1>9, <1>10, <1>11, <1>12 DEF all, d, n

LEMMA RowFacts ==
  ASSUME TypeOK, QueueOK, FramesOK, NEW b, NEW due, NEW now, Closing(b, due, now), NEW m \in AssocModes
  PROVE  LET q == Rows(m, due, now)
         IN /\ IsRows(q) /\ Len(q) = Len(due)
            /\ \A i \in 1..Len(due) : IsMatchOf(q[i], m, due[i], now)
<1> DEFINE q == Rows(m, due, now)
<1>1. /\ Len(due) \in Nat /\ \A i \in 1..Len(due) : due[i] \in Sample /\ due[i].t = due[i].true /\ due[i].true <= now
      /\ \A i, j \in 1..Len(due) : i < j => due[i].true < due[j].true
  BY DueSampleFacts
<1>2. now \in Nat /\ (frames # <<>> => now > bracket) /\ due \in Seq(Sample)
  BY DEF Closing, IsDue
<1>3. DOMAIN due = 1..Len(due) /\ q = [i \in 1..Len(due) |-> One(m, due[i], now)]
  BY <1>2, SeqFacts DEF Rows
<1>4. ASSUME NEW i \in 1..Len(due) PROVE IsMatchOf(q[i], m, due[i], now)
  <2>1. q[i] = One(m, due[i], now)
    BY <1>3
  <2> QED  BY <1>1, <1>2, <2>1, OneFacts
<1>5. \A i \in 1..Len(due) : /\ q[i] \in Seq(Match) /\ Len(q[i]) <= 1
                             /\ q[i] # <<>> => q[i][1].true = due[i].true
  BY <1>4 DEF IsMatchOf
<1> HIDE DEF q
<1>6. q \in Seq(Seq(Match)) /\ Len(q) = Len(due)
  <2>1. q \in [1..Len(due) -> Seq(Match)]
    BY <1>3, <1>5
  <2> QED  BY <1>1, <2>1, IsASeq, LenProperties
<1>7. IsRows(q)
  BY <1>1, <1>5, <1>6 DEF IsRows
<1> QED  BY <1>4, <1>6, <1>7 DEF q

\* The matches a frame adds in one mode.
Gained(new, m, due, now) ==
  /\ new \in Seq(Match)
  /\ \A k \in 1..Len(new) : \E i \in 1..Len(due) :
       /\ frames # <<>> /\ new[k].true = due[i].true
       /\ due[i].true >= bracket => Rightful(m, new[k], Range(frames) \cup {now})
  /\ \A k, l \in 1..Len(new) : k < l => new[k].true < new[l].true
  /\ opts.file /\ m = "nearest" /\ frames # <<>> =>
       \A i \in 1..Len(due) :
         due[i].true >= bracket => /\ Near(due[i].true, Range(frames) \cup {now})
                                       => \E k \in 1..Len(new) : new[k].true = due[i].true
                                   /\ (\E k \in 1..Len(new) : new[k].true = due[i].true)
                                       => Near(due[i].true, Range(frames) \cup {now})

LEMMA GainedFacts ==
  ASSUME TypeOK, QueueOK, FramesOK, NEW b, NEW due, NEW now, Closing(b, due, now), NEW m \in AssocModes
  PROVE  Gained(Matches(due, now)[m], m, due, now)
<1> DEFINE q == Rows(m, due, now)
           new == Matches(due, now)[m]
           times == Range(frames) \cup {now}
<1>1. IsRows(q) /\ Len(q) = Len(due) /\ \A i \in 1..Len(due) : IsMatchOf(q[i], m, due[i], now)
  BY RowFacts
<1>2. new = FlattenSeq(q)
  BY MatchesAreFlat
<1> HIDE DEF q, new
<1>3. Flat(new, q, Len(due))
  BY <1>1, <1>2, FlattenFacts
<1>4. new \in Seq(Match) /\ \A k, l \in 1..Len(new) : k < l => new[k].true < new[l].true
  BY <1>3 DEF Flat
<1>5. ASSUME NEW k \in 1..Len(new)
      PROVE  \E i \in 1..Len(due) :
               /\ q[i] # <<>> /\ frames # <<>> /\ new[k].true = due[i].true
               /\ due[i].true >= bracket => Rightful(m, new[k], times)
  <2>1. PICK i \in 1..Len(due) : q[i] # <<>> /\ new[k] = q[i][1]
    BY <1>3 DEF Flat
  <2>2. IsMatchOf(q[i], m, due[i], now)
    BY <1>1
  <2>3. /\ frames # <<>> /\ q[i][1].true = due[i].true
        /\ due[i].true >= bracket => Rightful(m, q[i][1], times)
    BY <2>1, <2>2 DEF IsMatchOf
  <2> QED  BY <2>1, <2>3
<1>6. ASSUME opts.file, m = "nearest", frames # <<>>, NEW i \in 1..Len(due), due[i].true >= bracket
      PROVE  /\ Near(due[i].true, times) => \E k \in 1..Len(new) : new[k].true = due[i].true
             /\ (\E k \in 1..Len(new) : new[k].true = due[i].true) => Near(due[i].true, times)
  <2>1. IsMatchOf(q[i], m, due[i], now)
    BY <1>1
  <2>2. q[i] # <<>> => Near(due[i].true, times)
    BY <1>6, <2>1 DEF IsMatchOf
  <2>3. Near(due[i].true, times) => q[i] # <<>>
    BY <1>6, <2>1 DEF IsMatchOf
  <2>4. q[i] # <<>> => \E k \in 1..Len(new) : new[k].true = due[i].true
    <3> SUFFICES ASSUME q[i] # <<>> PROVE \E k \in 1..Len(new) : new[k].true = due[i].true
      OBVIOUS
    <3>1. PICK k \in 1..Len(new) : new[k] = q[i][1]
      BY <1>3 DEF Flat
    <3>2. q[i][1].true = due[i].true
      BY <2>1 DEF IsMatchOf
    <3> QED  BY <3>1, <3>2
  <2>5. ASSUME NEW k \in 1..Len(new), new[k].true = due[i].true PROVE q[i] # <<>>
    <3>1. PICK j \in 1..Len(due) : q[j] # <<>> /\ new[k].true = due[j].true
      BY <1>5
    <3>2. /\ \A x, y \in 1..Len(due) : x < y => due[x].true < due[y].true
          /\ \A x \in 1..Len(due) : due[x] \in Sample
          /\ Len(due) \in Nat
      BY DueSampleFacts
    <3>3. due[i].true \in Nat /\ due[j].true = due[i].true
      BY <2>5, <3>1, <3>2 DEF Sample
    <3>4. ~(i < j) /\ ~(j < i)
      <4>1. ~(due[i].true < due[j].true) /\ ~(due[j].true < due[i].true)
        BY <3>3
      <4> QED  BY <3>2, <4>1
    <3>5. i = j
      BY <3>2, <3>4
    <3> QED  BY <3>1, <3>5
  <2> QED  BY <2>2, <2>3, <2>4, <2>5
<1> HIDE DEF times
<1>7. opts.file /\ m = "nearest" /\ frames # <<>> =>
       \A i \in 1..Len(due) :
         due[i].true >= bracket => /\ Near(due[i].true, times)
                                       => \E k \in 1..Len(new) : new[k].true = due[i].true
                                   /\ (\E k \in 1..Len(new) : new[k].true = due[i].true)
                                       => Near(due[i].true, times)
  BY <1>6
<1> QED  BY <1>4, <1>5, <1>7 DEF Gained, new, times

LEMMA JoinAscending ==
  ASSUME NEW s \in Seq(Nat), NEW u \in Seq(Nat), Ascending(s), Ascending(u),
         \A x \in Range(s), y \in Range(u) : x < y
  PROVE  s \o u \in Seq(Nat) /\ Ascending(s \o u) /\ Range(s \o u) = Range(s) \cup Range(u)
<1> DEFINE c == s \o u
<1>1. /\ c \in Seq(Nat) /\ Len(c) = Len(s) + Len(u)
      /\ \A k \in 1..Len(s) : c[k] = s[k]
      /\ \A k \in 1..Len(u) : c[Len(s) + k] = u[k]
  BY ConcatFacts
<1>2. /\ Len(s) \in Nat /\ DOMAIN s = 1..Len(s) /\ Len(u) \in Nat /\ DOMAIN u = 1..Len(u)
      /\ DOMAIN c = 1..(Len(s) + Len(u))
  BY <1>1, SeqFacts
<1> HIDE DEF c
<1>3. ASSUME NEW k \in 1..(Len(s) + Len(u)), ~(k <= Len(s))
      PROVE  k - Len(s) \in 1..Len(u) /\ c[k] = u[k - Len(s)]
  <2>1. k - Len(s) \in 1..Len(u) /\ Len(s) + (k - Len(s)) = k
    BY <1>2, <1>3
  <2>2. c[Len(s) + (k - Len(s))] = u[k - Len(s)]
    BY <1>1, <2>1
  <2> QED  BY <2>1, <2>2
<1>4. ASSUME NEW k \in 1..(Len(s) + Len(u)), k <= Len(s)
      PROVE  k \in 1..Len(s) /\ c[k] = s[k]
  BY <1>1, <1>2, <1>4
<1>5. Range(c) = Range(s) \cup Range(u)
  <2>1. ASSUME NEW k \in 1..(Len(s) + Len(u)) PROVE c[k] \in Range(s) \cup Range(u)
    <3>1. CASE k <= Len(s)
      BY <1>2, <1>4, <3>1 DEF Range
    <3>2. CASE ~(k <= Len(s))
      BY <1>2, <1>3, <3>2 DEF Range
    <3> QED  BY <3>1, <3>2
  <2>2. ASSUME NEW k \in 1..Len(s) PROVE s[k] \in Range(c)
    <3>1. k \in 1..(Len(s) + Len(u)) /\ c[k] = s[k]
      BY <1>1, <1>2
    <3> QED  BY <1>2, <3>1 DEF Range
  <2>3. ASSUME NEW k \in 1..Len(u) PROVE u[k] \in Range(c)
    <3>1. Len(s) + k \in 1..(Len(s) + Len(u)) /\ c[Len(s) + k] = u[k]
      BY <1>1, <1>2
    <3> QED  BY <1>2, <3>1 DEF Range
  <2> QED  BY <1>2, <2>1, <2>2, <2>3 DEF Range
<1>6. ASSUME NEW i \in 1..(Len(s) + Len(u)), NEW j \in 1..(Len(s) + Len(u)), i < j PROVE c[i] < c[j]
  <2>1. CASE j <= Len(s)
    <3>1. i <= Len(s)
      BY <1>2, <1>6, <2>1
    <3> QED  BY <1>2, <1>4, <1>6, <2>1, <3>1 DEF Ascending
  <2>2. CASE i <= Len(s) /\ ~(j <= Len(s))
    <3>1. i \in DOMAIN s /\ j - Len(s) \in DOMAIN u /\ c[i] = s[i] /\ c[j] = u[j - Len(s)]
      BY <1>2, <1>3, <1>4, <2>2
    <3> QED  BY <3>1 DEF Range
  <2>3. CASE ~(i <= Len(s))
    <3>1. ~(j <= Len(s)) /\ i - Len(s) < j - Len(s)
      BY <1>2, <1>6, <2>3
    <3>2. i - Len(s) \in DOMAIN u /\ j - Len(s) \in DOMAIN u /\ c[i] = u[i - Len(s)] /\ c[j] = u[j - Len(s)]
      BY <1>2, <1>3, <2>3, <3>1
    <3>3. u[i - Len(s)] < u[j - Len(s)]
      <4> DEFINE x == i - Len(s)
                 y == j - Len(s)
      <4>1. x \in DOMAIN u /\ y \in DOMAIN u /\ x < y
        BY <3>1, <3>2
      <4> HIDE DEF x, y
      <4>2. u[x] < u[y]
        BY <4>1 DEF Ascending
      <4> QED  BY <4>2 DEF x, y
    <3> QED  BY <3>2, <3>3
  <2> QED  BY <2>1, <2>2, <2>3
<1> QED  BY <1>1, <1>2, <1>5, <1>6 DEF Ascending, c

\* What a frame leaves.
Processed(b, due, now) ==
  /\ gtBuffer' = b.buffer /\ nextGt' = b.next + Len(due) /\ evicted' = b.lost
  /\ matched' = [m \in AssocModes |-> matched[m] \o Matches(due, now)[m]]
  /\ lastStats' = Redrawn(Matches(due, now)) /\ evoStats' = lastStats'
  /\ examined' = examined \o [i \in DOMAIN due |-> due[i].true]
  /\ bracket' = now /\ frames' = Append(frames, now)
  /\ shifted' = opts.file /\ drained' = NowDrained /\ late' = NowLate
  /\ gtQueue' = (IF opts.file THEN gtQueue ELSE <<>>)
  /\ csv = <<>> /\ UNCHANGED <<opts, startTime, csv>>

LEMMA ProcessStep ==
  ASSUME IInv, ProcessEvo
  PROVE  startTime = Start /\ \E b, due, now : Closing(b, due, now) /\ Processed(b, due, now)
<1>1. startTime = Start
  BY DEF IInv, TypeOK, ProcessEvo
<1>2. Ready(Buffer)
  BY <1>1, FileReady, TopicReady DEF IInv
<1>3. PICK now \in Times :
        /\ frames # <<>> => now > Last(frames)
        /\ gtBuffer' = Buffer.buffer /\ nextGt' = Buffer.next + Len(DueSamples(Buffer, now))
        /\ evicted' = Buffer.lost
        /\ matched' = [m \in AssocModes |-> matched[m] \o Matches(DueSamples(Buffer, now), now)[m]]
        /\ lastStats' = Redrawn(Matches(DueSamples(Buffer, now), now)) /\ evoStats' = lastStats'
        /\ examined' = examined \o [i \in DOMAIN DueSamples(Buffer, now) |-> DueSamples(Buffer, now)[i].true]
        /\ bracket' = now /\ frames' = Append(frames, now)
  BY DEF ProcessEvo
<1> DEFINE b == Buffer
           due == DueSamples(b, now)
<1>4. now \in Nat
  BY EvoAssumption DEF Times
<1>5. IsDue(due, b, now)
  <2>1. b.buffer \in Seq(Sample) /\ b.next \in Nat /\ b.next <= Len(b.buffer)
    BY <1>2 DEF Ready, Tracks
  <2>2. now \in Int
    BY <1>4
  <2> HIDE DEF b
  <2> QED  BY <2>1, <2>2, DueFacts
<1>6. frames # <<>> => now > bracket
  BY <1>3 DEF IInv, FramesOK, Last
<1>7. Closing(b, due, now)
  BY <1>2, <1>4, <1>5, <1>6 DEF Closing
<1>8. /\ shifted' = opts.file /\ drained' = NowDrained /\ late' = NowLate
      /\ gtQueue' = (IF opts.file THEN gtQueue ELSE <<>>)
      /\ csv = <<>> /\ UNCHANGED <<opts, startTime, csv>>
  BY DEF ProcessEvo, NowDrained, NowLate
<1>9. Processed(b, due, now)
  BY <1>3, <1>8 DEF Processed
<1> QED  BY <1>1, <1>7, <1>9

LEMMA FramesAfter ==
  ASSUME TypeOK, FramesOK, NEW b, NEW due, NEW now, Closing(b, due, now), Processed(b, due, now)
  PROVE  /\ frames' \in Seq(Nat) /\ frames' # <<>> /\ bracket' \in Nat
         /\ Range(frames') = Range(frames) \cup {now}
         /\ frames'[1] = IF frames = <<>> THEN now ELSE frames[1]
         /\ frames'[Len(frames')] = now
         /\ FramesOK'
<1> DEFINE u == <<now>>
           f == frames \o u
<1>1. frames \in Seq(Nat) /\ now \in Nat /\ frames' = Append(frames, now) /\ bracket' = now
  BY DEF TypeOK, Closing, Processed
<1>2. /\ frames' \in Seq(Nat) /\ Len(frames') = Len(frames) + 1
      /\ \A k \in 1..Len(frames) : frames'[k] = frames[k]
      /\ frames'[Len(frames) + 1] = now
  BY <1>1, AppendFacts
<1>3. Len(frames) \in Nat /\ DOMAIN frames = 1..Len(frames) /\ (frames = <<>> <=> Len(frames) = 0)
  BY <1>1, SeqFacts
<1>4. frames' # <<>> /\ frames'[Len(frames')] = now /\ DOMAIN frames' = 1..(Len(frames) + 1)
  BY <1>2, <1>3, SeqFacts
<1>5. frames'[1] = IF frames = <<>> THEN now ELSE frames[1]
  <2>1. CASE frames = <<>>
    BY <1>2, <1>3, <2>1
  <2>2. CASE frames # <<>>
    <3>1. 1 \in 1..Len(frames)
      BY <1>3, <2>2
    <3> QED  BY <1>2, <2>2, <3>1
  <2> QED  BY <2>1, <2>2
<1>6. u \in Seq(Nat) /\ Ascending(u) /\ Range(u) = {now}
  BY <1>1 DEF Ascending, Range
<1>7. frames' = f
  BY <1>1, AppendIsConcat
<1>8. \A x \in Range(frames), y \in Range(u) : x < y
  <2>1. frames # <<>> => now > bracket
    BY DEF Closing
  <2>2. \A x \in Range(frames) : x \in Nat /\ x <= bracket /\ frames # <<>>
    BY <1>3, FramesBefore DEF Range
  <2>3. bracket \in Int
    BY DEF TypeOK
  <2> QED  BY <1>1, <1>6, <2>1, <2>2, <2>3
<1> HIDE DEF u
<1>9. Ascending(f) /\ Range(f) = Range(frames) \cup {now}
  BY <1>1, <1>6, <1>8, JoinAscending DEF FramesOK
<1>10. FramesOK'
  <2>1. Ascending(frames)'
    BY <1>7, <1>9 DEF Ascending
  <2> QED  BY <1>1, <1>4, <2>1 DEF FramesOK
<1> QED  BY <1>1, <1>2, <1>4, <1>5, <1>7, <1>9, <1>10

DueTimes(due) == [i \in DOMAIN due |-> due[i].true]

LEMMA ExaminedAfter ==
  ASSUME TypeOK, QueueOK, BufferOK, FramesOK,
         NEW b, NEW due, NEW now, Closing(b, due, now), Processed(b, due, now)
  PROVE  /\ examined' \in Seq(Nat) /\ Ascending(examined')
         /\ Range(examined') = Range(examined) \cup {due[i].true : i \in 1..Len(due)}
         /\ \A i \in DOMAIN examined' : examined'[i] <= now
<1> DEFINE u == DueTimes(due)
<1>1. /\ Len(due) \in Nat
      /\ \A i \in 1..Len(due) : due[i].true \in Nat /\ due[i].true <= now
      /\ \A i, j \in 1..Len(due) : i < j => due[i].true < due[j].true
      /\ \A x \in Range(examined), i \in 1..Len(due) : x < due[i].true
  <2>1. /\ Len(due) \in Nat
        /\ \A i \in 1..Len(due) : due[i] \in Sample /\ due[i].true <= now
        /\ \A i, j \in 1..Len(due) : i < j => due[i].true < due[j].true
        /\ \A x \in Range(examined) \cup b.lost, i \in 1..Len(due) : x < due[i].true
    BY DueSampleFacts
  <2> QED  BY <2>1 DEF Sample
<1>2. DOMAIN due = 1..Len(due)
  BY SeqFacts DEF Closing, IsDue
<1>3. u = [i \in 1..Len(due) |-> due[i].true]
  BY <1>2 DEF DueTimes
<1> HIDE DEF u
<1>4. u \in Seq(Nat) /\ Len(u) = Len(due) /\ DOMAIN u = 1..Len(due)
  <2>1. u \in [1..Len(due) -> Nat]
    BY <1>1, <1>3
  <2> QED  BY <1>1, <1>3, <2>1, IsASeq, LenProperties
<1>5. Ascending(u) /\ Range(u) = {due[i].true : i \in 1..Len(due)}
  BY <1>1, <1>3, <1>4 DEF Ascending, Range
<1>6. examined' = examined \o u
  BY DEF Processed, u, DueTimes
<1>7. examined \in Seq(Nat) /\ Ascending(examined)
  BY DEF TypeOK, BufferOK
<1>8. \A x \in Range(examined), y \in Range(u) : x < y
  BY <1>1, <1>5
<1>9. /\ examined' \in Seq(Nat) /\ Ascending(examined')
      /\ Range(examined') = Range(examined) \cup Range(u)
  BY <1>4, <1>5, <1>6, <1>7, <1>8, JoinAscending
<1>10. ASSUME NEW x \in Range(examined') PROVE x <= now
  <2>1. CASE x \in Range(examined)
    <3>1. x \in Nat /\ x <= bracket
      <4>1. PICK i \in DOMAIN examined : x = examined[i]
        BY <2>1 DEF Range
      <4> QED  BY <1>7, <4>1, SeqFacts DEF BufferOK
    <3>2. bracket <= now
      <4>1. frames = <<>> => bracket = -1
        BY FramesBefore DEF NoFrame
      <4>2. bracket \in Int /\ now \in Nat /\ (frames # <<>> => now > bracket)
        BY DEF TypeOK, Closing
      <4> QED  BY <4>1, <4>2
    <3> QED  BY <3>1, <3>2 DEF TypeOK, Closing
  <2>2. CASE x \in Range(u)
    BY <1>1, <1>5, <2>2
  <2> QED  BY <1>9, <2>1, <2>2
<1> QED  BY <1>5, <1>9, <1>10 DEF Range

LEMMA TypeAfter ==
  ASSUME TypeOK, QueueOK, BufferOK, FramesOK,
         NEW b, NEW due, NEW now, Closing(b, due, now), Processed(b, due, now)
  PROVE  TypeOK'
<1> DEFINE new == Matches(due, now)
<1>1. opts' = opts /\ startTime' = startTime /\ shifted' = opts.file /\ bracket' = now
  BY DEF Processed
<1>2. gtQueue' \in Seq(Sample)
  BY DEF TypeOK, Processed
<1>3. drained' \in Seq(Nat)
  BY DueSampleFacts DEF Processed
<1>4. examined' \in Seq(Nat)
  BY ExaminedAfter
<1>5. frames' \in Seq(Nat)
  BY FramesAfter
<1>6. \A m \in AssocModes : new[m] \in Seq(Match)
  BY GainedFacts DEF Gained
<1> HIDE DEF new
<1>7. ASSUME NEW m \in AssocModes
      PROVE  /\ matched[m] \o new[m] \in Seq(Match)
             /\ Redrawn(new)[m] = Len(matched[m] \o new[m])
  <2> DEFINE s == matched[m]
             u == new[m]
  <2>1. s \in Seq(Match) /\ u \in Seq(Match) /\ lastStats[m] = Len(s)
    BY <1>6 DEF TypeOK
  <2> HIDE DEF s, u
  <2>2. s \o u \in Seq(Match) /\ Len(s \o u) = Len(s) + Len(u) /\ Len(s) \in Nat /\ (u = <<>> => Len(u) = 0)
    BY <2>1, ConcatFacts, SeqFacts
  <2>3. Redrawn(new)[m] = IF u = <<>> THEN lastStats[m] ELSE Len(s) + Len(u)
    BY DEF Redrawn, s, u
  <2>4. Redrawn(new)[m] = Len(s \o u)
    <3>1. CASE u = <<>>
      <4>1. Len(u) = 0 /\ Len(s) + 0 = Len(s)
        BY <2>2, <3>1
      <4>2. Redrawn(new)[m] = Len(s)
        BY <2>1, <2>3, <3>1
      <4> QED  BY <2>2, <4>1, <4>2
    <3>2. CASE u # <<>>
      BY <2>2, <2>3, <3>2
    <3> QED  BY <3>1, <3>2
  <2> QED  BY <2>2, <2>4 DEF s, u
<1>8. matched' = [m \in AssocModes |-> matched[m] \o new[m]]
  BY DEF Processed, new
<1>9. matched' \in [AssocModes -> Seq(Match)]
  BY <1>7, <1>8
<1>10. lastStats' = [m \in AssocModes |-> Len(matched'[m])]
  <2>1. lastStats' = Redrawn(new) /\ Redrawn(new) = [m \in AssocModes |-> Redrawn(new)[m]]
    BY DEF Processed, new, Redrawn
  <2>2. \A m \in AssocModes : Redrawn(new)[m] = Len(matched'[m])
    BY <1>7, <1>8
  <2> QED  BY <2>1, <2>2
<1>11. evoStats' = lastStats'
  BY DEF Processed
<1>12. now \in Nat
  BY DEF Closing
<1> QED  BY <1>1, <1>2, <1>3, <1>4, <1>5, <1>9, <1>10, <1>11, <1>12 DEF TypeOK

LEMMA QueueAfter ==
  ASSUME TypeOK, QueueOK, NEW b, NEW due, NEW now, Closing(b, due, now), Processed(b, due, now)
  PROVE  QueueOK'
<1>1. gtQueue' = <<>>
  BY DEF QueueOK, Processed
<1>2. Ascending(drained)'
  BY DueSampleFacts DEF Processed, Ascending
<1> QED  BY <1>1, <1>2 DEF QueueOK

\* The cursor moves behind the due samples.
LEMMA Advance ==
  ASSUME TypeOK, QueueOK, NEW b, NEW due, NEW now, Closing(b, due, now)
  PROVE  Tracks([buffer |-> b.buffer, next |-> b.next + Len(due), lost |-> b.lost], NowDrained,
                Range(examined) \cup {due[i].true : i \in 1..Len(due)})
<1> DEFINE all == NowDrained
           p == Passed(b, all)
           d == Len(due)
           c == [buffer |-> b.buffer, next |-> b.next + d, lost |-> b.lost]
           seen == Range(examined)
           more == {due[i].true : i \in 1..d}
<1>1. /\ p \in Nat /\ p + d <= Len(all) /\ d \in Nat /\ all \in Seq(Nat)
      /\ \A i \in 1..d : due[i].true = all[p + i]
      /\ \A x \in seen \cup b.lost, i \in 1..d : x < due[i].true
  BY DueSampleFacts
<1>2. Tracks(b, all, seen)
  BY DEF Closing, Ready
<1>3. /\ b.buffer \in Seq(Sample) /\ b.next \in Nat /\ b.lost \in SUBSET Nat /\ Len(b.buffer) <= Len(all)
      /\ \A i \in DOMAIN b.buffer : b.buffer[i].true = all[Len(all) - Len(b.buffer) + i]
      /\ {all[i] : i \in 1..p} = seen \cup b.lost /\ seen \cap b.lost = {}
  BY <1>2 DEF Tracks
<1>4. b.next + d <= Len(b.buffer)
  BY DEF Closing, IsDue
<1>5. Passed(c, all) = p + d
  <2>1. Len(all) \in Nat /\ Len(b.buffer) \in Nat
    BY <1>1, <1>3, SeqFacts
  <2> HIDE DEF all, d
  <2>2. Passed(c, all) = Len(all) - Len(b.buffer) + (b.next + d)
    BY DEF Passed
  <2> QED  BY <1>1, <1>3, <2>1, <2>2 DEF Passed
<1> HIDE DEF p, d, all, more, seen
<1>6. {all[i] : i \in 1..(p + d)} = {all[i] : i \in 1..p} \cup more
  <2>1. ASSUME NEW i \in 1..(p + d) PROVE all[i] \in {all[k] : k \in 1..p} \cup more
    <3>1. CASE i <= p
      <4>1. i \in 1..p
        BY <1>1, <3>1
      <4> QED  BY <4>1
    <3>2. CASE ~(i <= p)
      <4> DEFINE k == i - p
      <4>1. k \in 1..d /\ p + k = i
        BY <1>1, <3>2
      <4> HIDE DEF k
      <4>2. due[k].true = all[i]
        BY <1>1, <4>1
      <4> QED  BY <4>1, <4>2 DEF more
    <3> QED  BY <3>1, <3>2
  <2>2. ASSUME NEW i \in 1..p PROVE all[i] \in {all[k] : k \in 1..(p + d)}
    <3>1. i \in 1..(p + d)
      BY <1>1
    <3> QED  BY <3>1
  <2>3. ASSUME NEW i \in 1..d PROVE due[i].true \in {all[k] : k \in 1..(p + d)}
    <3>1. p + i \in 1..(p + d)
      BY <1>1
    <3> QED  BY <1>1, <3>1
  <2> QED  BY <2>1, <2>2, <2>3 DEF more
<1>7. more \cap b.lost = {}
  <2> SUFFICES ASSUME NEW i \in 1..d, due[i].true \in b.lost PROVE FALSE
    BY DEF more
  <2>1. due[i].true < due[i].true /\ due[i].true \in Nat
    BY <1>1, <1>3
  <2> QED  BY <2>1
<1>8. {all[i] : i \in 1..Passed(c, all)} = (seen \cup more) \cup c.lost /\ (seen \cup more) \cap c.lost = {}
  BY <1>3, <1>5, <1>6, <1>7
<1>9. c \in [buffer : Seq(Sample), next : Nat, lost : SUBSET Nat]
  BY <1>1, <1>3
<1>10. Tracks(c, all, seen \cup more)
  BY <1>3, <1>4, <1>8, <1>9 DEF Tracks
<1> QED  BY <1>10 DEF all, d, more, seen

LEMMA BufferAfter ==
  ASSUME TypeOK, QueueOK, BufferOK, FramesOK,
         NEW b, NEW due, NEW now, Closing(b, due, now), Processed(b, due, now)
  PROVE  BufferOK'
<1>1. /\ gtBuffer' = b.buffer /\ nextGt' = b.next + Len(due) /\ evicted' = b.lost /\ drained' = NowDrained
      /\ opts' = opts /\ shifted' = opts.file /\ bracket' = now
  BY DEF Processed
<1>2. /\ Ascending(examined') /\ \A i \in DOMAIN examined' : examined'[i] <= now
      /\ Range(examined') = Range(examined) \cup {due[i].true : i \in 1..Len(due)}
  BY ExaminedAfter
<1>3. Tracks(Held', drained', Range(examined'))
  <2>1. Held' = [buffer |-> b.buffer, next |-> b.next + Len(due), lost |-> b.lost]
    BY <1>1 DEF Held
  <2> QED  BY <1>1, <1>2, <2>1, Advance
<1>4. /\ b.buffer \in Seq(Sample) /\ b.next \in Nat
      /\ \A i \in 1..Len(b.buffer) : b.buffer[i].t = b.buffer[i].true
  BY DEF Closing, Ready, Tracks
<1>5. Len(b.buffer) \in Nat /\ DOMAIN b.buffer = 1..Len(b.buffer) /\ \A i \in 1..Len(b.buffer) : b.buffer[i] \in Sample
  BY <1>4, SeqFacts
<1>6. \A i \in DOMAIN gtBuffer' : gtBuffer'[i].t = gtBuffer'[i].true + (IF opts.file /\ ~shifted' THEN Start ELSE 0)
  BY <1>1, <1>4, <1>5 DEF Sample
<1>7. ASSUME NEW i \in (nextGt' + 1)..Len(gtBuffer') PROVE gtBuffer'[i].true > now
  <2> DEFINE e == b.next + Len(due)
             all == NowDrained
  <2>1. e \in Nat /\ e <= Len(b.buffer) /\ (e < Len(b.buffer) => b.buffer[e + 1].t > now) /\ now \in Nat
    <3>1. Len(due) \in Nat
      BY DueSampleFacts
    <3> QED  BY <1>4, <3>1 DEF Closing, IsDue
  <2> HIDE DEF e
  <2>2. nextGt' = e /\ i \in 1..Len(b.buffer) /\ e < Len(b.buffer) /\ e + 1 \in 1..Len(b.buffer) /\ e + 1 <= i
    <3>1. nextGt' = e
      BY <1>1 DEF e
    <3> QED  BY <1>1, <1>5, <2>1, <3>1
  <2>3. b.buffer[e + 1].true > now /\ b.buffer[i] \in Sample /\ b.buffer[e + 1] \in Sample
    BY <1>4, <1>5, <2>1, <2>2
  <2>4. CASE i = e + 1
    BY <1>1, <2>3, <2>4
  <2>5. CASE i # e + 1
    <3> DEFINE k == Len(all) - Len(b.buffer)
    <3>1. /\ all \in Seq(Nat) /\ Ascending(all) /\ Len(b.buffer) <= Len(all)
          /\ \A j \in 1..Len(b.buffer) : b.buffer[j].true = all[k + j]
      BY <1>5, DueSampleFacts DEF Closing, Ready, Tracks
    <3>2. Len(all) \in Nat /\ DOMAIN all = 1..Len(all)
      BY <3>1, SeqFacts
    <3> HIDE DEF all
    <3>3. k + i \in DOMAIN all /\ k + (e + 1) \in DOMAIN all /\ k + (e + 1) < k + i
      <4> DEFINE l == Len(b.buffer)
                 n == Len(all)
      <4>1. l \in Nat /\ n \in Nat /\ l <= n /\ e \in Nat /\ i \in 1..l /\ e + 1 \in 1..l /\ e + 1 <= i /\ i # e + 1
        BY <1>5, <2>1, <2>2, <2>5, <3>1, <3>2
      <4> HIDE DEF l, n
      <4>2. n - l + i \in 1..n /\ n - l + (e + 1) \in 1..n /\ n - l + (e + 1) < n - l + i
        BY <4>1
      <4> QED  BY <3>2, <4>2 DEF l, n
    <3>4. all[k + (e + 1)] < all[k + i]
      <4> DEFINE x == k + (e + 1)
                 y == k + i
      <4>1. x \in DOMAIN all /\ y \in DOMAIN all /\ x < y
        BY <3>3
      <4> HIDE DEF x, y
      <4>2. all[x] < all[y]
        BY <3>1, <4>1 DEF Ascending
      <4> QED  BY <4>2 DEF x, y
    <3>5. b.buffer[e + 1].true < b.buffer[i].true
      <4>1. b.buffer[e + 1].true = all[k + (e + 1)]
        BY <2>2, <3>1
      <4>2. b.buffer[i].true = all[k + i]
        BY <2>2, <3>1
      <4> QED  BY <3>4, <4>1, <4>2
    <3> QED  BY <1>1, <2>1, <2>3, <3>5 DEF Sample
  <2> QED  BY <2>4, <2>5
<1>8. Ascending(examined)'
  BY <1>2 DEF Ascending
<1>9. (Tracks(Held, drained, Range(examined)))'
  BY <1>3 DEF Tracks, Passed, Range
<1> QED  BY <1>1, <1>2, <1>6, <1>7, <1>8, <1>9 DEF BufferOK

LEMMA TimePasses ==
  ASSUME TypeOK, FramesOK, NEW b, NEW due, NEW now, Closing(b, due, now)
  PROVE  bracket <= now /\ bracket \in Int /\ now \in Nat
<1>1. frames = <<>> => bracket = -1
  BY FramesBefore DEF NoFrame
<1>2. bracket \in Int /\ now \in Nat /\ (frames # <<>> => now > bracket)
  BY DEF TypeOK, Closing
<1> QED  BY <1>1, <1>2

LEMMA FileAfter ==
  ASSUME TypeOK, QueueOK, FileOK, FramesOK,
         NEW b, NEW due, NEW now, Closing(b, due, now), Processed(b, due, now)
  PROVE  FileOK'
<1> SUFFICES ASSUME opts'.file PROVE FileOK'
  BY DEF FileOK
<1>1. opts.file /\ evicted' = b.lost /\ late' = NowLate /\ gtBuffer' = b.buffer /\ drained' = NowDrained
      /\ nextGt' = b.next + Len(due) /\ bracket' = now
  BY DEF Processed
<1>2. /\ b.lost = {} /\ Len(b.buffer) = Len(NowDrained) /\ NowLate = {} /\ b.next \in Nat
      /\ \A i \in 1..b.next : NowDrained[i] <= bracket
  BY <1>1 DEF Closing, Ready, Tracks
<1> DEFINE all == NowDrained
           p == Passed(b, all)
<1>3. /\ p + Len(due) <= Len(all) /\ Len(due) \in Nat /\ all \in Seq(Nat)
      /\ \A i \in 1..Len(due) : due[i].true <= now /\ due[i].true = all[p + i]
  BY DueSampleFacts
<1>4. Len(all) \in Nat /\ \A i \in 1..Len(all) : all[i] \in Nat
  BY <1>3, SeqFacts
<1> HIDE DEF all
<1>5. p = b.next
  <2>1. p = Len(all) - Len(b.buffer) + b.next
    BY DEF Passed
  <2> QED  BY <1>2, <1>4, <2>1 DEF all
<1>6. ASSUME NEW i \in 1..(b.next + Len(due)) PROVE all[i] <= now
  <2> DEFINE next == b.next
  <2>1. next \in Nat /\ i \in 1..(next + Len(due)) /\ next + Len(due) <= Len(all)
    BY <1>2, <1>3, <1>5
  <2> HIDE DEF next
  <2>2. CASE i <= next
    <3>1. i \in 1..next /\ i \in 1..Len(all)
      BY <1>3, <1>4, <2>1, <2>2
    <3>2. all[i] <= bracket /\ all[i] \in Nat
      BY <1>2, <1>4, <3>1 DEF next, all
    <3> QED  BY <3>2, TimePasses
  <2>3. CASE ~(i <= next)
    <3> DEFINE k == i - next
    <3>1. k \in 1..Len(due) /\ next + k = i
      BY <1>3, <2>1, <2>3
    <3> HIDE DEF k
    <3>2. due[k].true <= now /\ due[k].true = all[p + k] /\ p = next
      BY <1>3, <1>5, <3>1 DEF next
    <3> QED  BY <3>1, <3>2
  <2> QED  BY <2>2, <2>3
<1>7. \A i \in 1..nextGt' : drained'[i] <= bracket'
  BY <1>1, <1>6 DEF all
<1> QED  BY <1>1, <1>2, <1>7 DEF FileOK

\* A later frame is no nearer, and lies in no closed bracket.
LEMMA RightfulStays ==
  ASSUME TypeOK, FramesOK, NEW now \in Nat, frames # <<>> => now > bracket,
         NEW m \in AssocModes, NEW p \in Match, p.true <= bracket, Rightful(m, p, Range(frames))
  PROVE  Rightful(m, p, Range(frames) \cup {now})
<1> DEFINE times == Range(frames)
           more == times \cup {now}
<1>1. p.true \in Nat /\ p.from \in Int /\ p.to \in Int
  BY DEF Match
<1>2. /\ \A f \in times : f \in Nat /\ f <= bracket
      /\ frames # <<>> => bracket \in times /\ bracket \in Nat
      /\ frames = <<>> => times = {}
  <2>1. frames = <<>> => times = {}
    BY DEF Range
  <2> QED  BY <2>1, FramesBefore
<1>3. p.at = p.true
  BY DEF Rightful
<1> HIDE DEF times
<1>4. ASSUME m = "nearest"
      PROVE  /\ p.from \in more /\ Apart(p.from, p.true) <= MaxTimeDiff
             /\ \A f \in more : Apart(f, p.true) >= Apart(p.from, p.true)
  <2>1. /\ p.from \in times /\ Apart(p.from, p.true) <= MaxTimeDiff
        /\ \A f \in times : Apart(f, p.true) >= Apart(p.from, p.true)
    BY <1>4 DEF Rightful, times
  <2>2. bracket \in times /\ bracket \in Nat /\ now > bracket
    BY <1>2, <2>1
  <2>3. Apart(bracket, p.true) >= Apart(p.from, p.true)
    BY <2>1, <2>2
  <2>4. Apart(now, p.true) = now - p.true
    BY <1>1, <2>2 DEF Apart
  <2>5. Apart(bracket, p.true) = bracket - p.true
    BY <1>1, <2>2 DEF Apart
  <2>6. Apart(p.from, p.true) \in Int
    BY <1>1 DEF Apart
  <2>7. Apart(now, p.true) >= Apart(p.from, p.true)
    BY <1>1, <2>2, <2>3, <2>4, <2>5, <2>6
  <2> QED  BY <2>1, <2>7
<1>5. ASSUME m = "interp"
      PROVE  /\ p.from <= p.true /\ p.true <= p.to
             /\ {f \in more : p.from <= f /\ f <= p.to} = {p.from, p.to}
  <2>1. p.from <= p.true /\ p.true <= p.to /\ {f \in times : p.from <= f /\ f <= p.to} = {p.from, p.to}
    BY <1>5 DEF Rightful, times
  <2>2. p.to \in times
    BY <2>1
  <2>3. p.to <= bracket /\ now > bracket /\ bracket \in Nat
    BY <1>2, <2>2
  <2>4. ~(now <= p.to)
    BY <1>1, <2>3
  <2>5. {f \in more : p.from <= f /\ f <= p.to} = {f \in times : p.from <= f /\ f <= p.to}
    BY <2>4
  <2> QED  BY <2>1, <2>5
<1> QED  BY <1>3, <1>4, <1>5 DEF Rightful, times

LEMMA MatchedAfter ==
  ASSUME TypeOK, QueueOK, BufferOK, FramesOK, MatchedOK,
         NEW b, NEW due, NEW now, Closing(b, due, now), Processed(b, due, now)
  PROVE  MatchedOK'
<1> DEFINE times == Range(frames) \cup {now}
           seen == Range(examined')
<1>1. /\ Range(frames') = times /\ late' = NowLate /\ late \subseteq NowLate
      /\ now \in Nat /\ (frames # <<>> => now > bracket)
  BY FramesAfter DEF Processed, NowLate, Closing
<1>2. seen = Range(examined) \cup {due[i].true : i \in 1..Len(due)}
  BY ExaminedAfter
<1>3. /\ \A i \in 1..Len(due) : due[i].true >= bracket \/ due[i].true \in NowLate
      /\ \A x \in Range(examined), i \in 1..Len(due) : x < due[i].true
  BY DueSampleFacts
<1>4. \A x \in Range(examined) : x <= bracket
  BY DEF BufferOK, Range
<1> HIDE DEF times, seen
<1>5. ASSUME NEW m \in AssocModes
      PROVE  /\ \A k \in DOMAIN matched'[m] :
                  /\ matched'[m][k].true \in seen
                  /\ matched'[m][k].true \notin NowLate => Rightful(m, matched'[m][k], times)
             /\ \A k, l \in DOMAIN matched'[m] : k < l => matched'[m][k].true < matched'[m][l].true
  <2> DEFINE s == matched[m]
             u == Matches(due, now)[m]
             c == matched'[m]
  <2>1. c = s \o u
    BY DEF Processed
  <2>2. Gained(u, m, due, now)
    BY GainedFacts
  <2>3. s \in Seq(Match) /\ u \in Seq(Match)
    BY <2>2 DEF TypeOK, Gained
  <2>4. /\ \A k \in DOMAIN s : /\ s[k].true \in Range(examined)
                               /\ s[k].true \notin late => Rightful(m, s[k], Range(frames))
        /\ \A k, l \in DOMAIN s : k < l => s[k].true < s[l].true
    BY DEF MatchedOK
  <2> HIDE DEF s, u, c
  <2>5. /\ c \in Seq(Match) /\ Len(c) = Len(s) + Len(u)
        /\ \A k \in 1..Len(s) : c[k] = s[k]
        /\ \A k \in 1..Len(u) : c[Len(s) + k] = u[k]
    BY <2>1, <2>3, ConcatFacts
  <2>6. /\ Len(s) \in Nat /\ DOMAIN s = 1..Len(s) /\ \A k \in 1..Len(s) : s[k] \in Match
        /\ Len(u) \in Nat /\ DOMAIN c = 1..(Len(s) + Len(u))
    BY <2>3, <2>5, SeqFacts
  <2>7. ASSUME NEW k \in 1..(Len(s) + Len(u)), k <= Len(s) PROVE k \in 1..Len(s) /\ c[k] = s[k]
    BY <2>5, <2>6, <2>7
  <2>8. ASSUME NEW k \in 1..(Len(s) + Len(u)), ~(k <= Len(s))
        PROVE  k - Len(s) \in 1..Len(u) /\ c[k] = u[k - Len(s)]
    <3>1. k - Len(s) \in 1..Len(u) /\ Len(s) + (k - Len(s)) = k
      BY <2>6, <2>8
    <3>2. c[Len(s) + (k - Len(s))] = u[k - Len(s)]
      BY <2>5, <3>1
    <3> QED  BY <3>1, <3>2
  <2>9. ASSUME NEW k \in 1..(Len(s) + Len(u))
        PROVE  c[k].true \in seen /\ (c[k].true \notin NowLate => Rightful(m, c[k], times))
    <3>1. CASE k <= Len(s)
      <4>1. k \in 1..Len(s) /\ c[k] = s[k]
        BY <2>7, <3>1
      <4>2. s[k].true \in Range(examined) /\ s[k].true <= bracket /\ s[k] \in Match
        BY <1>4, <2>4, <2>6, <4>1
      <4>3. s[k].true \notin NowLate => Rightful(m, s[k], Range(frames))
        BY <1>1, <2>4, <2>6, <4>1
      <4>4. s[k].true \notin NowLate => Rightful(m, s[k], times)
        BY <1>1, <4>2, <4>3, RightfulStays DEF times
      <4> QED  BY <1>2, <4>1, <4>2, <4>4
    <3>2. CASE ~(k <= Len(s))
      <4> DEFINE j == k - Len(s)
      <4>1. j \in 1..Len(u) /\ c[k] = u[j]
        BY <2>8, <3>2
      <4> HIDE DEF j
      <4>2. PICK i \in 1..Len(due) : /\ u[j].true = due[i].true
                                     /\ due[i].true >= bracket => Rightful(m, u[j], times)
        BY <2>2, <4>1 DEF Gained, times
      <4> QED  BY <1>2, <1>3, <4>1, <4>2
    <3> QED  BY <3>1, <3>2
  <2>10. ASSUME NEW k \in 1..(Len(s) + Len(u)), NEW l \in 1..(Len(s) + Len(u)), k < l
         PROVE  c[k].true < c[l].true
    <3>1. CASE l <= Len(s)
      <4>1. k <= Len(s)
        BY <2>6, <2>10, <3>1
      <4>2. k \in DOMAIN s /\ l \in DOMAIN s /\ c[k] = s[k] /\ c[l] = s[l]
        BY <2>6, <2>7, <3>1, <4>1
      <4>3. s[k].true < s[l].true
        BY <2>4, <2>10, <4>2
      <4> QED  BY <4>2, <4>3
    <3>2. CASE k <= Len(s) /\ ~(l <= Len(s))
      <4> DEFINE j == l - Len(s)
      <4>1. j \in 1..Len(u) /\ c[l] = u[j]
        BY <2>8, <3>2
      <4> HIDE DEF j
      <4>2. PICK i \in 1..Len(due) : u[j].true = due[i].true
        BY <2>2, <4>1 DEF Gained
      <4>3. c[k] = s[k] /\ s[k].true \in Range(examined)
        BY <2>4, <2>6, <2>7, <3>2
      <4> QED  BY <1>3, <4>1, <4>2, <4>3
    <3>3. CASE ~(k <= Len(s))
      <4> DEFINE x == k - Len(s)
                 y == l - Len(s)
      <4>1. ~(l <= Len(s)) /\ x < y
        BY <2>6, <2>10, <3>3
      <4>2. x \in 1..Len(u) /\ c[k] = u[x] /\ y \in 1..Len(u) /\ c[l] = u[y]
        BY <2>8, <3>3, <4>1
      <4> HIDE DEF x, y
      <4>3. u[x].true < u[y].true
        BY <2>2, <4>1, <4>2 DEF Gained
      <4> QED  BY <4>2, <4>3
    <3> QED  BY <3>1, <3>2, <3>3
  <2> QED  BY <2>6, <2>9, <2>10 DEF c
<1> QED  BY <1>1, <1>5 DEF MatchedOK, seen

\* The due checkpoints are those between the two sides of the bracket.
LEMMA DueCheckpoints ==
  ASSUME TypeOK, QueueOK, BufferOK, FramesOK, opts.file,
         NEW b, NEW due, NEW now, Closing(b, due, now), Processed(b, due, now)
  PROVE  /\ \A i \in 1..Len(due) : due[i].true > bracket /\ due[i].true \in Range(NowDrained)
         /\ \A c \in Range(NowDrained) :
              c > bracket /\ c <= now => \E k \in 1..Len(due) : c = due[k].true
<1> DEFINE all == NowDrained
           p == Passed(b, all)
           next == b.next
           d == Len(due)
<1>1. /\ p + d <= Len(all) /\ d \in Nat /\ all \in Seq(Nat)
      /\ \A i \in 1..d : p + i \in DOMAIN all /\ due[i].true = all[p + i]
  BY DueSampleFacts
<1>2. /\ Len(b.buffer) = Len(all) /\ next \in Nat /\ b.buffer \in Seq(Sample)
      /\ \A i \in 1..next : all[i] <= bracket
      /\ \A i \in (next + 1)..Len(b.buffer) : b.buffer[i].true > bracket
      /\ \A i \in DOMAIN b.buffer : b.buffer[i].true = all[Len(all) - Len(b.buffer) + i]
  BY DEF Closing, Ready, Tracks
<1>3. \A i \in (next + d + 1)..Len(b.buffer) : b.buffer[i].true > now
  <2>1. BufferOK'
    BY BufferAfter
  <2> QED  BY <2>1 DEF BufferOK, Processed
<1>4. bracket \in Int /\ now \in Nat
  BY TimePasses
<1> HIDE DEF all, next, d
<1>5. Len(all) \in Nat /\ DOMAIN all = 1..Len(all) /\ \A i \in 1..Len(all) : all[i] \in Nat
  BY <1>1, SeqFacts
<1>6. p = next
  <2>1. p = Len(all) - Len(b.buffer) + b.next
    BY DEF Passed
  <2> QED  BY <1>2, <1>5, <2>1 DEF next
<1>7. \A i \in 1..Len(all) : b.buffer[i].true = all[i]
  <2>1. DOMAIN b.buffer = 1..Len(all)
    BY <1>2, SeqFacts
  <2>2. ASSUME NEW i \in 1..Len(all) PROVE b.buffer[i].true = all[i]
    <3>1. b.buffer[i].true = all[Len(all) - Len(b.buffer) + i]
      BY <1>2, <2>1
    <3>2. Len(all) - Len(b.buffer) + i = i
      BY <1>2, <1>5
    <3> QED  BY <3>1, <3>2
  <2> QED  BY <2>2
<1> HIDE DEF p
<1>8. ASSUME NEW i \in 1..d PROVE due[i].true > bracket /\ due[i].true \in Range(all)
  <2>1. next + i \in 1..Len(all) /\ next + i \in (next + 1)..Len(all) /\ due[i].true = all[next + i]
    <3>1. p + i \in DOMAIN all /\ due[i].true = all[p + i]
      BY <1>1
    <3>2. next + i \in 1..Len(all) /\ due[i].true = all[next + i]
      BY <1>5, <1>6, <3>1
    <3>3. next + i \in (next + 1)..Len(all)
      BY <1>1, <1>2, <3>2
    <3> QED  BY <3>2, <3>3
  <2>2. b.buffer[next + i].true > bracket /\ b.buffer[next + i].true = all[next + i]
    BY <1>2, <1>7, <2>1
  <2> QED  BY <1>5, <2>1, <2>2 DEF Range
<1>9. ASSUME NEW c \in Range(all), c > bracket, c <= now PROVE \E k \in 1..d : c = due[k].true
  <2>1. PICK i \in 1..Len(all) : c = all[i] /\ c \in Nat
    BY <1>5 DEF Range
  <2>2. i > next
    <3> SUFFICES ASSUME ~(i > next) PROVE FALSE
      OBVIOUS
    <3>1. i \in 1..next
      BY <1>2, <2>1
    <3>2. c <= bracket
      BY <1>2, <2>1, <3>1
    <3> QED  BY <1>4, <1>9, <2>1, <3>2
  <2>3. i <= next + d
    <3> SUFFICES ASSUME ~(i <= next + d) PROVE FALSE
      OBVIOUS
    <3>1. i \in (next + d + 1)..Len(b.buffer)
      BY <1>1, <1>2, <1>5
    <3>2. c > now
      BY <1>3, <1>7, <2>1, <3>1
    <3> QED  BY <1>4, <1>9, <2>1, <3>2
  <2> DEFINE k == i - next
  <2>4. k \in 1..d /\ next + k = i
    BY <1>1, <1>2, <2>2, <2>3
  <2> HIDE DEF k
  <2>5. due[k].true = all[p + k]
    BY <1>1, <2>4
  <2> QED  BY <1>6, <2>1, <2>4, <2>5
<1> QED  BY <1>8, <1>9 DEF all, d

\* A later frame is not nearer to a checkpoint that was passed.
LEMMA NearStays ==
  ASSUME TypeOK, FramesOK, frames # <<>>, NEW now \in Nat, now > bracket, NEW c \in Nat, c <= bracket
  PROVE  Near(c, Range(frames) \cup {now}) <=> Near(c, Range(frames))
<1>1. bracket \in Nat /\ bracket \in Range(frames)
  BY FramesBefore
<1>2. ASSUME Apart(now, c) <= MaxTimeDiff PROVE Apart(bracket, c) <= MaxTimeDiff
  <2>1. Apart(now, c) = now - c /\ Apart(bracket, c) = bracket - c
    BY <1>1 DEF Apart
  <2>2. MaxTimeDiff \in Nat
    BY EvoAssumption
  <2> QED  BY <1>1, <1>2, <2>1, <2>2
<1> QED  BY <1>1, <1>2 DEF Near

LEMMA CheckpointsAfter ==
  ASSUME TypeOK, QueueOK, BufferOK, FramesOK, CheckpointsOK,
         NEW b, NEW due, NEW now, Closing(b, due, now), Processed(b, due, now)
  PROVE  CheckpointsOK'
<1> SUFFICES ASSUME opts'.file
             PROVE  {matched'["nearest"][k].true : k \in DOMAIN matched'["nearest"]} = PassedCheckpoints'
  BY DEF CheckpointsOK
<1> DEFINE times == Range(frames) \cup {now}
           s == matched["nearest"]
           u == Matches(due, now)["nearest"]
           c == matched'["nearest"]
           first == IF frames = <<>> THEN now ELSE frames[1]
           old == {s[k].true : k \in DOMAIN s}
           new == {u[k].true : k \in DOMAIN u}
<1>1. opts.file /\ drained' = NowDrained /\ NowDrained = drained
  BY DEF Processed, NowDrained
<1>2. PassedCheckpoints' = {x \in Range(NowDrained) : first < x /\ x <= now /\ Near(x, times)}
  <2>1. /\ frames' # <<>> /\ Range(frames') = times /\ frames'[1] = first
        /\ frames'[Len(frames')] = now
    BY FramesAfter
  <2>2. Range(drained') = Range(NowDrained)
    BY <1>1
  <2>3. PassedCheckpoints' = {x \in Range(drained') : /\ frames' # <<>> /\ frames'[1] < x /\ x <= frames'[Len(frames')]
                                                      /\ Near(x, Range(frames'))}
    BY DEF PassedCheckpoints, Range, Near
  <2> HIDE DEF times, first
  <2> QED  BY <2>1, <2>2, <2>3
<1>3. "nearest" \in AssocModes
  BY DEF AssocModes
<1>4. Gained(u, "nearest", due, now)
  BY <1>3, GainedFacts
<1>5. {c[k].true : k \in DOMAIN c} = old \cup new
  <2>1. c = s \o u
    BY <1>3 DEF Processed
  <2>2. s \in Seq(Match) /\ u \in Seq(Match)
    BY <1>3, <1>4 DEF TypeOK, Gained
  <2> HIDE DEF s, u, c
  <2>3. /\ c \in Seq(Match) /\ Len(c) = Len(s) + Len(u)
        /\ \A k \in 1..Len(s) : c[k] = s[k]
        /\ \A k \in 1..Len(u) : c[Len(s) + k] = u[k]
    BY <2>1, <2>2, ConcatFacts
  <2>4. /\ Len(s) \in Nat /\ DOMAIN s = 1..Len(s) /\ Len(u) \in Nat /\ DOMAIN u = 1..Len(u)
        /\ DOMAIN c = 1..(Len(s) + Len(u))
    BY <2>2, <2>3, SeqFacts
  <2>5. ASSUME NEW k \in DOMAIN c PROVE c[k].true \in old \cup new
    <3>1. CASE k <= Len(s)
      <4>1. k \in 1..Len(s)
        BY <2>4, <3>1
      <4> QED  BY <2>3, <2>4, <4>1
    <3>2. CASE ~(k <= Len(s))
      <4> DEFINE j == k - Len(s)
      <4>1. j \in 1..Len(u) /\ Len(s) + j = k
        BY <2>4, <3>2
      <4> HIDE DEF j
      <4>2. c[k] = u[j]
        BY <2>3, <4>1
      <4> QED  BY <2>4, <4>1, <4>2
    <3> QED  BY <3>1, <3>2
  <2>6. ASSUME NEW k \in DOMAIN s PROVE k \in DOMAIN c /\ c[k] = s[k]
    BY <2>3, <2>4
  <2>7. ASSUME NEW k \in DOMAIN u PROVE Len(s) + k \in DOMAIN c /\ c[Len(s) + k] = u[k]
    BY <2>3, <2>4
  <2> QED  BY <2>5, <2>6, <2>7
<1>6. DOMAIN u = 1..Len(u)
  BY <1>4, SeqFacts DEF Gained
<1>7. old = {x \in Range(drained) : /\ frames # <<>> /\ frames[1] < x /\ x <= frames[Len(frames)]
                                    /\ Near(x, Range(frames))}
  BY <1>1 DEF CheckpointsOK, PassedCheckpoints
<1>8. now \in Nat /\ (frames # <<>> => now > bracket) /\ bracket \in Int
  BY TimePasses DEF Closing
<1>9. \A x \in Range(drained) : x \in Nat
  <2>1. drained \in Seq(Nat)
    BY DEF TypeOK
  <2> QED  BY <2>1, SeqFacts DEF Range
<1>10. frames # <<>> => frames[1] \in Nat /\ frames[1] <= bracket /\ frames[Len(frames)] = bracket /\ bracket \in Nat
  <2> SUFFICES ASSUME frames # <<>> PROVE frames[1] \in Nat /\ frames[1] <= bracket /\ frames[Len(frames)] = bracket /\ bracket \in Nat
    OBVIOUS
  <2>1. 1 \in DOMAIN frames
    <3>1. frames \in Seq(Nat)
      BY DEF TypeOK
    <3>2. Len(frames) \in Nat /\ DOMAIN frames = 1..Len(frames) /\ Len(frames) # 0
      BY <3>1, SeqFacts
    <3> QED  BY <3>2
  <2>2. frames[1] \in Range(frames)
    BY <2>1 DEF Range
  <2> QED  BY <2>2, FramesBefore DEF FramesOK
<1>11. /\ \A i \in 1..Len(due) : due[i].true > bracket /\ due[i].true \in Range(NowDrained)
       /\ \A x \in Range(NowDrained) : x > bracket /\ x <= now => \E k \in 1..Len(due) : x = due[k].true
       /\ \A i \in 1..Len(due) : due[i].true <= now
  BY <1>1, DueCheckpoints, DueSampleFacts
<1> DEFINE passed == {x \in Range(NowDrained) : first < x /\ x <= now /\ Near(x, times)}
<1>12. ASSUME NEW x \in old PROVE x \in passed
  <2>1. /\ x \in Range(drained) /\ x \in Nat /\ frames # <<>> /\ frames[1] < x /\ x <= bracket
        /\ Near(x, Range(frames))
    BY <1>7, <1>9, <1>10
  <2>2. Near(x, times)
    BY <2>1 DEF Near
  <2>3. x <= now
    BY <1>8, <2>1
  <2> QED  BY <1>1, <2>1, <2>2, <2>3
<1>13. ASSUME NEW x \in new PROVE x \in passed
  <2>1. PICK k \in 1..Len(u) : x = u[k].true
    BY <1>6
  <2>2. PICK i \in 1..Len(due) : frames # <<>> /\ x = due[i].true
    BY <1>4, <2>1 DEF Gained
  <2>3. due[i].true > bracket /\ due[i].true \in Range(NowDrained) /\ due[i].true <= now
    BY <1>11
  <2>4. x \in Nat /\ x > bracket /\ x >= bracket /\ x <= now /\ x \in Range(NowDrained)
    BY <1>1, <1>8, <1>9, <2>2, <2>3
  <2>5. Near(x, times)
    <3>1. (\E j \in 1..Len(u) : u[j].true = due[i].true) => Near(due[i].true, times)
      BY <1>1, <1>4, <2>2, <2>4 DEF Gained
    <3> QED  BY <2>1, <2>2, <3>1
  <2>6. first < x
    BY <1>10, <2>2, <2>4
  <2> QED  BY <2>4, <2>5, <2>6
<1>14. ASSUME NEW x \in passed PROVE x \in old \cup new
  <2>1. x \in Range(drained) /\ x \in Nat /\ x <= now /\ Near(x, times) /\ first < x
    BY <1>1, <1>9
  <2>2. frames # <<>> /\ frames[1] < x
    BY <1>8, <2>1
  <2>3. CASE x <= bracket
    <3>1. Near(x, Range(frames))
      BY <1>8, <2>1, <2>2, <2>3, NearStays
    <3> QED  BY <1>7, <1>10, <2>1, <2>2, <2>3, <3>1
  <2>4. CASE ~(x <= bracket)
    <3>1. x > bracket /\ x >= bracket
      BY <1>8, <2>1, <2>4
    <3>2. PICK i \in 1..Len(due) : x = due[i].true
      BY <1>1, <1>11, <2>1, <3>1
    <3>3. \E k \in 1..Len(u) : u[k].true = due[i].true
      BY <1>1, <1>4, <2>1, <2>2, <3>1, <3>2 DEF Gained
    <3> QED  BY <1>6, <3>2, <3>3
  <2> QED  BY <2>3, <2>4
<1> HIDE DEF old, new, passed
<1>15. old \cup new = passed
  BY <1>12, <1>13, <1>14
<1> QED  BY <1>2, <1>5, <1>15 DEF passed

LEMMA ProcessIInv == IInv /\ ProcessEvo => IInv'
<1> SUFFICES ASSUME IInv, ProcessEvo PROVE IInv'
  OBVIOUS
<1>1. TypeOK /\ QueueOK /\ BufferOK /\ FileOK /\ FramesOK /\ MatchedOK /\ CheckpointsOK
  BY DEF IInv
<1>2. PICK b, due, now : Closing(b, due, now) /\ Processed(b, due, now)
  BY ProcessStep
<1>3. TypeOK'
  BY <1>1, <1>2, TypeAfter
<1>4. QueueOK'
  BY <1>1, <1>2, QueueAfter
<1>5. BufferOK'
  BY <1>1, <1>2, BufferAfter
<1>6. FileOK'
  BY <1>1, <1>2, FileAfter
<1>7. FramesOK'
  BY <1>1, <1>2, FramesAfter
<1>8. MatchedOK'
  BY <1>1, <1>2, MatchedAfter
<1>9. CheckpointsOK'
  BY <1>1, <1>2, CheckpointsAfter
<1>10. CsvOK'
  BY <1>2 DEF Processed, CsvOK
<1> QED  BY <1>3, <1>4, <1>5, <1>6, <1>7, <1>8, <1>9, <1>10 DEF IInv

-----------------------------------------------------------------------------
(* The other steps.                                                        *)

\* A file that was loaded is its lines, as samples in the order of their times.
LEMMA LoadedFile ==
  ASSUME NEW lines \in Lines, NEW buffer \in LoadGtFile(lines)
  PROVE  /\ buffer \in Seq(Sample) /\ DOMAIN buffer = DOMAIN lines
         /\ \A i \in DOMAIN buffer : buffer[i].t = buffer[i].true + Start
         /\ \A i, j \in DOMAIN buffer : i < j => buffer[i].true < buffer[j].true
<1>1. PICK n \in 0..MaxSamples : lines \in [1..n -> Times]
  BY DEF Lines
<1>2. n \in Nat /\ Start \in Nat /\ DOMAIN lines = 1..n /\ \A i \in 1..n : lines[i] \in Nat
  BY <1>1, EvoAssumption DEF Times
<1>3. /\ buffer \in [1..n -> Range(Absolute(lines))]
      /\ \A i, j \in 1..n : i < j => buffer[i].t < buffer[j].t
  BY <1>2 DEF LoadGtFile
<1>4. ASSUME NEW s \in Range(Absolute(lines)) PROVE s \in Sample /\ s.t = s.true + Start
  <2>1. PICK k \in 1..n : s = [t |-> lines[k] + Start, true |-> lines[k]]
    BY <1>2 DEF Range, Absolute
  <2>2. lines[k] \in Nat /\ lines[k] + Start \in Int
    BY <1>2
  <2> QED  BY <2>1, <2>2 DEF Sample
<1>5. \A i \in 1..n : buffer[i] \in Sample /\ buffer[i].t = buffer[i].true + Start
  BY <1>3, <1>4
<1>6. buffer \in Seq(Sample) /\ DOMAIN buffer = 1..n
  <2>1. buffer \in [1..n -> Sample]
    BY <1>3, <1>5
  <2> QED  BY <1>2, <2>1, IsASeq
<1>7. ASSUME NEW i \in 1..n, NEW j \in 1..n, i < j PROVE buffer[i].true < buffer[j].true
  <2>1. buffer[i].t < buffer[j].t
    BY <1>3, <1>7
  <2>2. buffer[i].true \in Nat /\ buffer[j].true \in Nat
    BY <1>5 DEF Sample
  <2>3. buffer[i].t = buffer[i].true + Start /\ buffer[j].t = buffer[j].true + Start
    BY <1>5
  <2> DEFINE x == buffer[i].true
             y == buffer[j].true
  <2>4. x \in Nat /\ y \in Nat /\ x + Start < y + Start
    BY <2>1, <2>2, <2>3
  <2> HIDE DEF x, y
  <2>5. x < y
    BY <1>2, <2>4
  <2> QED  BY <2>5 DEF x, y
<1> QED  BY <1>2, <1>5, <1>6, <1>7

LEMMA InitIInv == Init => IInv
<1> SUFFICES ASSUME Init PROVE IInv
  OBVIOUS
<1>1. PICK o \in [file : BOOLEAN, dense : BOOLEAN, oriented : BOOLEAN, rte : BOOLEAN, roe : BOOLEAN,
                  nearestLive : BOOLEAN],
           lines \in Lines :
        /\ ~o.file => lines = <<>>
        /\ opts = Effective(o)
        /\ gtBuffer \in LoadGtFile(lines)
        /\ drained = [i \in DOMAIN lines |-> gtBuffer[i].true]
  BY DEF Init
<1>2. /\ startTime = 0 /\ gtQueue = <<>> /\ nextGt = 0 /\ shifted = FALSE
      /\ bracket = NoFrame /\ matched = [m \in AssocModes |-> <<>>]
      /\ lastStats = [m \in AssocModes |-> 0] /\ evoStats = lastStats
      /\ csv = <<>> /\ late = {} /\ frames = <<>> /\ examined = <<>> /\ evicted = {}
  BY DEF Init
<1>3. opts.file = o.file /\ o.file \in BOOLEAN
  BY <1>1 DEF Effective
<1>4. /\ gtBuffer \in Seq(Sample) /\ DOMAIN gtBuffer = DOMAIN lines
      /\ \A i \in DOMAIN gtBuffer : gtBuffer[i].t = gtBuffer[i].true + Start
      /\ \A i, j \in DOMAIN gtBuffer : i < j => gtBuffer[i].true < gtBuffer[j].true
  BY <1>1, LoadedFile
<1> DEFINE n == Len(gtBuffer)
<1>5. n \in Nat /\ DOMAIN gtBuffer = 1..n /\ \A i \in 1..n : gtBuffer[i] \in Sample /\ gtBuffer[i].true \in Nat
  <2>1. n \in Nat /\ DOMAIN gtBuffer = 1..n /\ \A i \in 1..n : gtBuffer[i] \in Sample
    BY <1>4, SeqFacts
  <2> QED  BY <2>1 DEF Sample
<1> HIDE DEF n
<1>6. drained \in Seq(Nat) /\ Len(drained) = n /\ DOMAIN drained = 1..n /\ \A i \in 1..n : drained[i] = gtBuffer[i].true
  <2>1. drained = [i \in 1..n |-> gtBuffer[i].true]
    BY <1>1, <1>4, <1>5
  <2>2. drained \in [1..n -> Nat]
    BY <1>5, <2>1
  <2> QED  BY <1>5, <2>1, <2>2, IsASeq, LenProperties
<1>7. TypeOK
  <2>1. gtQueue \in Seq(Sample) /\ examined \in Seq(Nat) /\ frames \in Seq(Nat)
    BY <1>2
  <2>2. bracket \in Int
    BY <1>2 DEF NoFrame
  <2>3. matched \in [AssocModes -> Seq(Match)] /\ \A m \in AssocModes : matched[m] = <<>>
    BY <1>2
  <2>4. [m \in AssocModes |-> 0] = [m \in AssocModes |-> Len(matched[m])]
    BY <2>3
  <2> QED  BY <1>2, <1>3, <1>6, <2>1, <2>2, <2>3, <2>4 DEF TypeOK
<1>8. QueueOK
  <2>1. DOMAIN gtQueue = {}
    BY <1>2
  <2>2. Ascending(drained)
    BY <1>4, <1>5, <1>6 DEF Ascending
  <2> QED  BY <1>2, <2>1, <2>2 DEF QueueOK
<1>9. BufferOK
  <2>1. Held = [buffer |-> gtBuffer, next |-> 0, lost |-> {}]
    BY <1>2 DEF Held
  <2>2. Range(examined) = {}
    BY <1>2 DEF Range
  <2>3. Passed(Held, drained) = 0
    <3>1. Passed(Held, drained) = n - n + 0
      BY <1>6, <2>1 DEF Passed, n
    <3> QED  BY <1>5, <3>1
  <2>4. \A i \in 1..n : n - n + i = i
    BY <1>5
  <2>5. Tracks(Held, drained, Range(examined))
    <3>1. Held \in [buffer : Seq(Sample), next : Nat, lost : SUBSET Nat]
      BY <1>4, <2>1
    <3>2. Len(Held.buffer) = n /\ DOMAIN Held.buffer = 1..n /\ Held.next = 0 /\ Held.lost = {}
      BY <1>5, <2>1 DEF n
    <3>3. Len(Held.buffer) <= Len(drained) /\ Held.next <= Len(Held.buffer)
      BY <1>5, <1>6, <3>2
    <3>4. \A i \in DOMAIN Held.buffer : Held.buffer[i].true = drained[Len(drained) - Len(Held.buffer) + i]
      BY <1>6, <2>1, <2>4, <3>2
    <3>5. {drained[i] : i \in 1..Passed(Held, drained)} = {}
      BY <2>3
    <3> QED  BY <2>2, <3>1, <3>2, <3>3, <3>4, <3>5 DEF Tracks
  <2>6. \A i \in DOMAIN gtBuffer : gtBuffer[i].t = gtBuffer[i].true + (IF opts.file /\ ~shifted THEN Start ELSE 0)
    <3>1. CASE o.file
      BY <1>2, <1>3, <1>4, <3>1
    <3>2. CASE ~o.file
      <4>1. DOMAIN lines = {}
        BY <1>1, <3>2
      <4> QED  BY <1>4, <4>1
    <3> QED  BY <3>1, <3>2
  <2>7. \A i \in (nextGt + 1)..Len(gtBuffer) : gtBuffer[i].true > bracket
    <3>1. \A i \in 1..n : gtBuffer[i].true > -1
      BY <1>5
    <3>2. nextGt + 1 = 1
      BY <1>2
    <3> QED  BY <1>2, <3>1, <3>2 DEF NoFrame, n
  <2>8. Ascending(examined) /\ DOMAIN examined = {}
    BY <1>2 DEF Ascending
  <2> QED  BY <2>5, <2>6, <2>7, <2>8 DEF BufferOK
<1>10. FileOK
  BY <1>2, <1>6 DEF FileOK, n
<1>11. FramesOK
  BY <1>2 DEF FramesOK, Ascending
<1>12. \A m \in AssocModes : DOMAIN matched[m] = {}
  BY <1>2
<1>13. MatchedOK /\ CheckpointsOK
  <2>1. "nearest" \in AssocModes
    BY DEF AssocModes
  <2>2. PassedCheckpoints = {}
    BY <1>2 DEF PassedCheckpoints
  <2> QED  BY <1>12, <2>1, <2>2 DEF MatchedOK, CheckpointsOK
<1> QED  BY <1>2, <1>7, <1>8, <1>9, <1>10, <1>11, <1>13 DEF IInv, CsvOK

LEMMA GtCallbackIInv == IInv /\ GtCallback => IInv'
<1> SUFFICES ASSUME IInv, GtCallback PROVE IInv'
  OBVIOUS
<1>1. PICK t \in Times : (\A k \in Known : k < t) /\ gtQueue' = Append(gtQueue, [t |-> t + Start - startTime, true |-> t])
  BY DEF GtCallback
<1> DEFINE s == [t |-> t + Start - startTime, true |-> t]
           n == Len(gtQueue)
<1>2. t \in Nat /\ Start \in Nat /\ startTime \in Int /\ ~opts.file
  BY EvoAssumption DEF Times, GtCallback, IInv, TypeOK
<1>3. s \in Sample /\ s.true = t /\ s.t = t + Start - startTime
  BY <1>2 DEF Sample
<1>4. gtQueue \in Seq(Sample)
  BY DEF IInv, TypeOK
<1> HIDE DEF s
<1>5. /\ gtQueue' \in Seq(Sample) /\ Len(gtQueue') = n + 1
      /\ \A k \in 1..n : gtQueue'[k] = gtQueue[k]
      /\ gtQueue'[n + 1] = s
  BY <1>1, <1>3, <1>4, AppendFacts DEF s
<1>6. n \in Nat /\ DOMAIN gtQueue = 1..n /\ DOMAIN gtQueue' = 1..(n + 1)
  BY <1>4, <1>5, SeqFacts
<1> HIDE DEF n
<1>7. /\ \A k \in 1..n : gtQueue[k].true < t
      /\ \A k \in DOMAIN drained : drained[k] < t
  BY <1>1, <1>6 DEF Known, TrueTimes, Range
<1>8. UNCHANGED <<opts, startTime, gtBuffer, nextGt, shifted, orientationSeen, drained, evicted, late,
                  bracket, matched, lastStats, evoStats, frames, examined, csv>>
  BY DEF GtCallback, matchVars
<1>9. TypeOK'
  BY <1>5, <1>8 DEF IInv, TypeOK
<1>10. QueueOK'
  <2>0. QueueOK
    BY DEF IInv
  <2>1. ASSUME NEW i \in 1..(n + 1), NEW j \in 1..(n + 1), i < j
        PROVE  gtQueue'[i].true < gtQueue'[j].true
    <3>1. i \in 1..n
      BY <1>6, <2>1
    <3>2. CASE j = n + 1
      BY <1>3, <1>5, <1>7, <3>1, <3>2
    <3>3. CASE j # n + 1
      <4>1. j \in 1..n
        BY <1>6, <3>3
      <4> QED  BY <1>5, <1>6, <2>0, <2>1, <3>1, <4>1 DEF QueueOK
    <3> QED  BY <3>2, <3>3
  <2>2. ASSUME NEW i \in DOMAIN drained, NEW j \in 1..(n + 1) PROVE drained[i] < gtQueue'[j].true
    <3>1. CASE j = n + 1
      BY <1>3, <1>5, <1>7, <3>1
    <3>2. CASE j # n + 1
      <4>1. j \in 1..n
        BY <1>6, <3>2
      <4> QED  BY <1>5, <1>6, <2>0, <4>1 DEF QueueOK
    <3> QED  BY <3>1, <3>2
  <2>3. ASSUME NEW j \in 1..(n + 1) PROVE gtQueue'[j].t = gtQueue'[j].true + Start - startTime
    <3>1. CASE j = n + 1
      BY <1>3, <1>5, <3>1
    <3>2. CASE j # n + 1
      <4>1. j \in 1..n
        BY <1>6, <3>2
      <4> QED  BY <1>5, <1>6, <2>0, <4>1 DEF QueueOK
    <3> QED  BY <3>1, <3>2
  <2>4. Ascending(drained)'
    BY <1>8, <2>0 DEF QueueOK, Ascending
  <2> QED  BY <1>2, <1>6, <1>8, <2>1, <2>2, <2>3, <2>4 DEF QueueOK
<1>11. BufferOK'
  <2>1. Held' = Held
    BY <1>8 DEF Held
  <2>2. BufferOK
    BY DEF IInv
  <2> QED  BY <1>8, <2>1, <2>2 DEF BufferOK
<1>12. FileOK' /\ FramesOK' /\ CsvOK'
  BY <1>8 DEF IInv, FileOK, FramesOK, CsvOK, Ascending
<1>13. MatchedOK'
  BY <1>8 DEF IInv, MatchedOK
<1>14. CheckpointsOK'
  BY <1>2, <1>8 DEF CheckpointsOK
<1> QED  BY <1>9, <1>10, <1>11, <1>12, <1>13, <1>14 DEF IInv

LEMMA SetStartTimeIInv == IInv /\ SetStartTime => IInv'
<1> SUFFICES ASSUME IInv, SetStartTime PROVE IInv'
  OBVIOUS
<1>1. startTime = 0 /\ startTime' = Start /\ gtQueue' = QueueShifted
  BY DEF SetStartTime
<1>2. UNCHANGED <<opts, gtBuffer, nextGt, shifted, orientationSeen, drained, evicted, late,
                  bracket, matched, lastStats, evoStats, frames, examined, csv>>
  BY DEF SetStartTime, matchVars
<1> DEFINE n == Len(gtQueue)
<1>3. n \in Nat /\ DOMAIN gtQueue = 1..n /\ \A i \in 1..n : gtQueue[i] \in Sample
  BY SeqFacts DEF IInv, TypeOK
<1>4. QueueOK /\ Start \in Nat
  BY EvoAssumption DEF IInv
<1>5. gtQueue' = [i \in 1..n |-> [gtQueue[i] EXCEPT !.t = @ - Start]]
  BY <1>1, <1>3 DEF QueueShifted
<1>6. ASSUME NEW i \in 1..n
      PROVE  /\ gtQueue'[i] \in Sample /\ gtQueue'[i].true = gtQueue[i].true
             /\ gtQueue'[i].t = gtQueue[i].true + Start - startTime'
  <2> DEFINE s == gtQueue[i]
             d == s.t - Start
  <2>1. gtQueue'[i] = [s EXCEPT !.t = d]
    BY <1>5
  <2>2. s \in Sample /\ s.t = s.true + Start - startTime
    BY <1>3, <1>4 DEF QueueOK
  <2>3. d \in Int /\ d = s.true + Start - startTime' /\ s.true \in Nat
    BY <1>1, <1>4, <2>2 DEF Sample
  <2> HIDE DEF s, d
  <2>4. [s EXCEPT !.t = d] = [t |-> d, true |-> s.true]
    BY <2>2 DEF Sample
  <2>5. gtQueue'[i] \in Sample /\ gtQueue'[i].true = s.true /\ gtQueue'[i].t = d
    BY <2>1, <2>3, <2>4 DEF Sample
  <2> QED  BY <2>3, <2>5 DEF s
<1>7. gtQueue' \in Seq(Sample) /\ DOMAIN gtQueue' = 1..n
  <2>1. gtQueue' \in [1..n -> Sample]
    BY <1>5, <1>6
  <2> QED  BY <1>3, <1>5, <2>1, IsASeq
<1>8. TypeOK'
  BY <1>1, <1>2, <1>7 DEF IInv, TypeOK
<1>9. QueueOK'
  <2>1. opts'.file => gtQueue' = <<>>
    <3>1. opts.file => n = 0
      BY <1>4 DEF QueueOK
    <3>2. n = 0 => gtQueue' = <<>>
      <4>1. n = 0 => DOMAIN gtQueue' = 1..0
        BY <1>7
      <4>2. n = 0 => Len(gtQueue') = 0
        BY <1>7, <4>1, SeqFacts
      <4> QED  BY <1>7, <4>2, SeqFacts
    <3> QED  BY <1>2, <3>1, <3>2
  <2>2. Ascending(drained)'
    BY <1>2, <1>4 DEF QueueOK, Ascending
  <2> HIDE DEF n
  <2>3. \A i, j \in 1..n : i < j => gtQueue'[i].true < gtQueue'[j].true
    BY <1>3, <1>4, <1>6 DEF QueueOK
  <2>4. \A i \in DOMAIN drained, j \in 1..n : drained[i] < gtQueue'[j].true
    BY <1>3, <1>4, <1>6 DEF QueueOK
  <2>5. \A i \in 1..n : gtQueue'[i].t = gtQueue'[i].true + Start - startTime'
    BY <1>6
  <2> QED  BY <1>2, <1>7, <2>1, <2>2, <2>3, <2>4, <2>5 DEF QueueOK
<1>11. BufferOK'
  <2>1. Held' = Held
    BY <1>2 DEF Held
  <2>2. BufferOK
    BY DEF IInv
  <2> QED  BY <1>2, <2>1, <2>2 DEF BufferOK
<1>12. FileOK' /\ FramesOK' /\ CsvOK'
  BY <1>2 DEF IInv, FileOK, FramesOK, CsvOK, Ascending
<1>13. MatchedOK'
  BY <1>2 DEF IInv, MatchedOK
<1>14. CheckpointsOK'
  BY <1>2 DEF IInv, CheckpointsOK, PassedCheckpoints
<1> QED  BY <1>8, <1>9, <1>11, <1>12, <1>13, <1>14 DEF IInv

\* Nothing but the csv.
LEMMA SameIInv ==
  ASSUME IInv, CsvOK', UNCHANGED <<opts, startTime, gtVars, matchVars>>
  PROVE  IInv'
<1>2. UNCHANGED <<opts, startTime, gtQueue, gtBuffer, nextGt, shifted, orientationSeen, drained, evicted, late,
                  bracket, matched, lastStats, evoStats, frames, examined>>
  BY DEF gtVars, matchVars
<1>8. TypeOK'
  BY <1>2 DEF IInv, TypeOK
<1>9. QueueOK'
  BY <1>2 DEF IInv, QueueOK, Ascending
<1>11. BufferOK'
  <2>1. Held' = Held
    BY <1>2 DEF Held
  <2>2. BufferOK
    BY DEF IInv
  <2> QED  BY <1>2, <2>1, <2>2 DEF BufferOK
<1>12. FileOK' /\ FramesOK'
  BY <1>2 DEF IInv, FileOK, FramesOK, Ascending
<1>13. MatchedOK'
  BY <1>2 DEF IInv, MatchedOK
<1>14. CheckpointsOK'
  BY <1>2 DEF IInv, CheckpointsOK, PassedCheckpoints
<1> QED  BY <1>8, <1>9, <1>11, <1>12, <1>13, <1>14 DEF IInv

LEMMA NextIInv == IInv /\ [Next]_vars => IInv'
<1> SUFFICES ASSUME IInv, [Next]_vars PROVE IInv'
  OBVIOUS
<1>1. CASE GtCallback
  BY <1>1, GtCallbackIInv
<1>2. CASE SetStartTime
  BY <1>2, SetStartTimeIInv
<1>3. CASE ProcessEvo
  BY <1>3, ProcessIInv
<1>4. CASE ExportAtePerFrameCsv
  <2>1. UNCHANGED <<opts, startTime, gtVars, matchVars>>
    BY <1>4 DEF ExportAtePerFrameCsv
  <2>2. CsvOK'
    BY <1>4 DEF ExportAtePerFrameCsv, CsvOK, matchVars
  <2> QED  BY <2>1, <2>2, SameIInv
<1>5. CASE UNCHANGED vars
  <2>1. UNCHANGED <<opts, startTime, gtVars, matchVars>> /\ csv' = csv
    BY <1>5 DEF vars
  <2>2. CsvOK'
    BY <2>1 DEF IInv, CsvOK, matchVars
  <2> QED  BY <2>1, <2>2, SameIInv
<1> QED  BY <1>1, <1>2, <1>3, <1>4, <1>5 DEF Next

\* The inductive invariant of the evaluation, in every reachable state.
THEOREM EvoInvariant == Spec => []IInv
<1> QED  BY InitIInv, NextIInv, PTL DEF Spec

-----------------------------------------------------------------------------
(* What the invariant gives.                                               *)

LEMMA IInvMatches == IInv => MatchesCorrect
<1> SUFFICES ASSUME MatchedOK, NEW m \in AssocModes, NEW p \in Range(matched[m]), p.true \notin late
             PROVE  Rightful(m, p, Range(frames))
  BY DEF IInv, MatchesCorrect, Rightful
<1>1. PICK k \in DOMAIN matched[m] : p = matched[m][k]
  BY DEF Range
<1> QED  BY <1>1 DEF MatchedOK

\* A match made in time is the one that an evaluator with all frames at hand would make:
\* of processEvo() with a file or a topic, however late the samples come.
THEOREM MatchesAreCorrect == Spec => []MatchesCorrect
<1> QED  BY EvoInvariant, IInvMatches, PTL

LEMMA IInvCheckpoints == IInv => CheckpointsMatched
<1> SUFFICES ASSUME IInv, opts.file PROVE CheckpointsMatched
  BY DEF CheckpointsMatched
<1> DEFINE s == matched["nearest"]
           due == {c \in Range(drained) : /\ frames # <<>> /\ frames[1] < c /\ c <= Last(frames)
                                          /\ \E f \in Range(frames) : Apart(f, c) <= MaxTimeDiff}
           f == [k \in 1..Len(s) |-> s[k].true]
<1>1. s \in Seq(Match) /\ \A k, l \in DOMAIN s : k < l => s[k].true < s[l].true
  <2>1. "nearest" \in AssocModes
    BY DEF AssocModes
  <2> QED  BY <2>1 DEF IInv, TypeOK, MatchedOK
<1>2. Len(s) \in Nat /\ DOMAIN s = 1..Len(s) /\ \A k \in 1..Len(s) : s[k].true \in Nat
  <2>1. Len(s) \in Nat /\ DOMAIN s = 1..Len(s) /\ \A k \in 1..Len(s) : s[k] \in Match
    BY <1>1, SeqFacts
  <2> QED  BY <2>1 DEF Match
<1>3. {s[k].true : k \in DOMAIN s} = due
  BY DEF IInv, CheckpointsOK, PassedCheckpoints, Near, Last
<1> HIDE DEF s, due
<1>4. {p.true : p \in Range(s)} = due
  BY <1>3 DEF Range
<1>5. Len(s) = Cardinality(due)
  <2>1. ASSUME NEW k \in 1..Len(s), NEW l \in 1..Len(s), k # l PROVE f[k] # f[l]
    <3>1. k < l \/ l < k
      BY <1>2, <2>1
    <3> QED  BY <1>1, <1>2, <3>1
  <2>2. f \in [1..Len(s) -> due]
    BY <1>2, <1>3
  <2>3. \A c \in due : \E k \in 1..Len(s) : f[k] = c
    BY <1>2, <1>3
  <2> HIDE DEF f
  <2>4. f \in Bijection(1..Len(s), due)
    BY <2>1, <2>2, <2>3 DEF Bijection, Injection, IsInjective, Surjection
  <2>5. ExistsBijection(1..Len(s), due)
    BY <2>4 DEF ExistsBijection
  <2>6. IsFiniteSet(1..Len(s)) /\ Cardinality(1..Len(s)) = Len(s)
    BY <1>2, FS_Interval
  <2> QED  BY <2>5, <2>6, FS_Bijection
<1> QED  BY <1>4, <1>5 DEF CheckpointsMatched, s, due

LEMMA IInvCursor == IInv => CursorExact
<1> SUFFICES ASSUME IInv PROVE CursorExact
  OBVIOUS
<1> DEFINE n == Len(drained)
           l == Len(gtBuffer)
           p == n - l + nextGt
           before == {drained[i] : i \in 1..p}
           after == {drained[i] : i \in (p + 1)..n}
<1>1. /\ gtBuffer \in Seq(Sample) /\ nextGt \in Nat /\ l <= n /\ nextGt <= l
      /\ \A i \in DOMAIN gtBuffer : gtBuffer[i].true = drained[n - l + i]
      /\ before = Range(examined) \cup evicted
      /\ Range(examined) \cap evicted = {}
  BY DEF IInv, BufferOK, Tracks, Passed, Held
<1>2. drained \in Seq(Nat) /\ Ascending(drained) /\ Ascending(examined)
  BY DEF IInv, TypeOK, QueueOK, BufferOK
<1>3. /\ n \in Nat /\ DOMAIN drained = 1..n /\ \A i \in 1..n : drained[i] \in Nat
      /\ l \in Nat /\ DOMAIN gtBuffer = 1..l
  BY <1>1, <1>2, SeqFacts
<1> HIDE DEF n, l
<1>4. p \in 0..n
  BY <1>1, <1>3
<1>5. Waiting = after
  <2>1. ASSUME NEW i \in 1..l, i > nextGt
        PROVE  n - l + i \in (p + 1)..n /\ gtBuffer[i].true = drained[n - l + i]
    BY <1>1, <1>3, <2>1
  <2>2. ASSUME NEW j \in (p + 1)..n
        PROVE  \E i \in {k \in DOMAIN gtBuffer : k > nextGt} : gtBuffer[i].true = drained[j]
    <3> DEFINE i == j - (n - l)
    <3>1. i \in 1..l /\ i > nextGt /\ n - l + i = j
      BY <1>1, <1>3
    <3> HIDE DEF i
    <3>2. gtBuffer[i].true = drained[j]
      BY <1>1, <1>3, <3>1
    <3> QED  BY <1>3, <3>1, <3>2
  <2>3. Waiting = {gtBuffer[i].true : i \in {k \in DOMAIN gtBuffer : k > nextGt}}
    BY DEF Waiting
  <2> HIDE DEF p
  <2>4. ASSUME NEW x \in Waiting PROVE x \in after
    <3>1. PICK i \in DOMAIN gtBuffer : i > nextGt /\ x = gtBuffer[i].true
      BY <2>3
    <3>2. n - l + i \in (p + 1)..n /\ x = drained[n - l + i]
      BY <1>3, <2>1, <3>1
    <3> QED  BY <3>2
  <2>5. ASSUME NEW j \in (p + 1)..n PROVE drained[j] \in Waiting
    BY <2>2, <2>3
  <2> QED  BY <2>4, <2>5
<1> HIDE DEF p
<1>6. Range(drained) = before \cup after
  <2>1. \A i \in 1..n : i \in 1..p \/ i \in (p + 1)..n
    BY <1>3, <1>4
  <2>2. \A i \in 1..p : i \in 1..n
    BY <1>3, <1>4
  <2>3. \A i \in (p + 1)..n : i \in 1..n
    BY <1>3, <1>4
  <2> QED  BY <1>3, <2>1, <2>2, <2>3 DEF Range
<1>7. before \cap after = {}
  <2> SUFFICES ASSUME NEW i \in 1..p, NEW j \in (p + 1)..n, drained[i] = drained[j] PROVE FALSE
    OBVIOUS
  <2>1. i \in 1..n /\ j \in 1..n /\ i < j
    BY <1>3, <1>4
  <2>2. drained[i] < drained[j]
    BY <1>2, <1>3, <2>1 DEF Ascending
  <2> QED  BY <1>3, <2>1, <2>2
<1> HIDE DEF before, after
<1>8. /\ Range(drained) = Range(examined) \cup Waiting \cup evicted
      /\ Range(examined) \cap (Waiting \cup evicted) = {} /\ Waiting \cap evicted = {}
  BY <1>1, <1>5, <1>6, <1>7
<1> QED  BY <1>2, <1>8 DEF CursorExact, Ascending

LEMMA IInvReports == IInv => ReportsAgree
<1> SUFFICES ASSUME IInv, NEW m \in AssocModes
             PROVE  /\ evoStats[m] = Len(matched[m])
                    /\ csv # <<>> => csv[m] = IF "ATE" \in Reported(m, evoStats[m]) THEN evoStats[m] ELSE 0
  BY DEF ReportsAgree
<1>1. evoStats[m] = Len(matched[m])
  BY DEF IInv, TypeOK
<1>2. csv # <<>> => csv[m] = IF Len(matched[m]) < 3 THEN 0 ELSE Len(matched[m])
  BY DEF IInv, CsvOK
<1>3. \A n : "ATE" \in Reported(m, n) <=> ~(n < 3)
  BY DEF Reported
<1> QED  BY <1>1, <1>2, <1>3

\* No checkpoint is passed over or counted twice, from the queue to the report: drainGtQueue()
\* with its bounded buffer, processEvo(), commitMatch() and the csv that finishRun() writes.
THEOREM CheckpointsAreOnce == Spec => []CheckpointsOnce
<1>1. IInv => CheckpointsOnce
  BY IInvCheckpoints, IInvCursor, IInvReports DEF CheckpointsOnce
<1> QED  BY <1>1, EvoInvariant, PTL

=============================================================================
