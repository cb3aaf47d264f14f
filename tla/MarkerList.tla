------------------------------ MODULE MarkerList ------------------------------
(***************************************************************************)
(* The two list markers of src/map/voxelmap.cpp: a dense array of patches  *)
(* with its owners (disc_seg_owner_, dot_pt_owner_) and an index from      *)
(* owner to position (disc_seg_idx_, dot_pt_idx_), so that a patch can be  *)
(* dropped in constant time by moving the last one into its place.         *)
(*                                                                         *)
(* The patch geometry moves together with its owner and is left out: the   *)
(* patch at position i is the one computed for owner[i].                   *)
(***************************************************************************)
EXTENDS Integers, SequencesExt

EmptyList == [owner |-> <<>>, idx |-> <<>>]

(* Deviation: the index of the patch that was moved is left as it was.     *)
ErasedIndexStale(list, id) ==
  IF id \notin DOMAIN list.idx
  THEN list
  ELSE LET last == Last(list.owner)
       IN [owner |-> Front([list.owner EXCEPT ![list.idx[id]] = last]),
           idx   |-> [i \in DOMAIN list.idx \ {id} |-> list.idx[i]]]

(* eraseDisc, eraseDot: the last patch takes the place of the erased one.  *)
Erased(list, id) ==
  IF id \notin DOMAIN list.idx
  THEN list
  ELSE LET pos  == list.idx[id]
           last == Last(list.owner)
       IN [owner |-> Front([list.owner EXCEPT ![pos] = last]),
           idx   |-> [i \in DOMAIN list.idx \ {id} |-> IF i = last THEN pos ELSE list.idx[i]]]

(* appendDisc, appendDot                                                   *)
Appended(list, id) ==
  [owner |-> Append(list.owner, id),
   idx   |-> [i \in DOMAIN list.idx \cup {id} |->
                IF i = id THEN Len(list.owner) + 1 ELSE list.idx[i]]]

Owners(list) == {list.owner[i] : i \in 1..Len(list.owner)}

(* The index and the owner array are inverse to each other.                *)
Indexed(list) ==
  /\ DOMAIN list.idx = Owners(list)
  /\ \A i \in 1..Len(list.owner) : list.idx[list.owner[i]] = i
==============================================================================
