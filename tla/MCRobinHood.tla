----------------------------- MODULE MCRobinHood -----------------------------
EXTENDS RobinHood

(* Unit 4: the lower two bits of a hash go to the byte, the rest selects   *)
(* the slot.  Keys are 1..n: the same hash for all; two slots; the same    *)
(* slot with different bits; the last slot; better ones for the second     *)
(* multiplier, or worse ones.                                              *)
Spread(k) == (4 * k) + (k % 4)
MCHashes ==
  {[m \in 0..MaxMult |-> [k \in Keys |-> 5]],
   [m \in 0..MaxMult |-> [k \in Keys |-> IF m = 0 THEN 12 + (k % 4) ELSE Spread(k)]],
   [m \in 0..MaxMult |-> [k \in Keys |-> IF m = 0 THEN (4 * (k % 2)) + 8 ELSE (4 * (k % 3)) + (k % 4)]],
   [m \in 0..MaxMult |-> [k \in Keys |-> IF m = 0 THEN 4 * (k \div 4) ELSE 7]]}
==============================================================================
