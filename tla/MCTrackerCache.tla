--------------------------- MODULE MCTrackerCache ---------------------------
(* Bags of four images: in order, each with corners, without, or empty; in  *)
(* every order; and barely further apart than the tolerance.  The settings  *)
(* differ in one thing at a time.                                           *)
EXTENDS TrackerCache

Image(t, scores) == [t |-> t, empty |-> scores = <<>>, scores |-> scores]
Shapes == {<<2, 3, 1, 0, 2>>, <<1, 3, 3, 2, 1>>, <<>>}

Timely == {[i \in 1..4 |-> Image(10 * i, f[i])] : f \in [1..4 -> Shapes]}
Shuffled ==
  {[i \in 1..4 |-> Image(10 * p[i], IF p[i] % 2 = 0 THEN <<2, 3, 1, 0, 2>> ELSE <<1, 3, 3, 2, 1>>)] :
     p \in {q \in [1..4 -> 1..4] : \A i, j \in 1..4 : q[i] = q[j] => i = j}}
Close == {[i \in 1..4 |-> Image(10 + 3 * i, <<0, 2, 1, 0, 0>>)]}
MCBags == Timely \cup Shuffled \cup Close

Plain == [grid |-> 2, mode |-> "topN", spacing |-> 2, minCandidates |-> 1, sub |-> 1]
MCSettings == {
  Plain,
  [Plain EXCEPT !.grid = 3, !.minCandidates = 2],
  [Plain EXCEPT !.spacing = 3, !.minCandidates = 2],
  [Plain EXCEPT !.mode = "grid", !.grid = 3],
  [Plain EXCEPT !.sub = 2]}

MCValid == [x |-> 2, width |-> 4]
=============================================================================
