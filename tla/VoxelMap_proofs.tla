---------------------------- MODULE VoxelMap_proofs ---------------------------
(***************************************************************************)
(* Proofs about the map of planes, for any forest, bounds and number of    *)
(* scans: the marker lists stay indexed, a cell locks only for cause, no   *)
(* point is lost or handed over twice on its way down, and the counters    *)
(* and the patches on display agree with the nodes.  The second half is    *)
(* about the hash table under the map, for any keys, hash functions and    *)
(* sizes: lookups find what was put in, and a sweep passes it once.        *)
(***************************************************************************)
EXTENDS VoxelMap, RobinHood, FiniteSetTheorems, SequenceTheorems, WellFoundedInduction, TLAPS

(* A well-formed list: an array, a function, inverse to each other.        *)
ListOK(list) ==
  /\ list = [owner |-> list.owner, idx |-> list.idx]
  /\ list.owner \in Seq(Owners(list))
  /\ list.idx = [i \in DOMAIN list.idx |-> list.idx[i]]
  /\ Indexed(list)

(* The empty lists the map starts with.                                    *)
LEMMA EmptyOK == ListOK(EmptyList)
  BY DEF ListOK, EmptyList, Owners, Indexed

(* Appending a patch for a plane that has none keeps the list well-formed. *)
LEMMA AppendedOK ==
  ASSUME NEW list, ListOK(list), NEW id, id \notin DOMAIN list.idx
  PROVE  ListOK(Appended(list, id))
<1> DEFINE own == list.owner
           new == Appended(list, id)
           S   == Owners(list) \cup {id}
<1>1. own \in Seq(Owners(list)) /\ Owners(list) \subseteq S
  BY DEF ListOK
<1>2. own \in Seq(S) /\ Len(own) \in Nat
  BY <1>1
<1>3. /\ new.owner = Append(own, id) /\ new.owner \in Seq(S)
      /\ Len(new.owner) = Len(own) + 1
      /\ \A i \in 1..Len(own) : new.owner[i] = own[i]
      /\ new.owner[Len(own) + 1] = id
  BY <1>2 DEF Appended
<1>4. Owners(new) = S
  BY <1>2, <1>3 DEF Owners
<1>5. DOMAIN new.idx = S
  BY DEF Appended, ListOK, Indexed
<1>6. ASSUME NEW i \in 1..Len(new.owner) PROVE new.idx[new.owner[i]] = i
  <2>1. CASE i = Len(own) + 1
    BY <2>1, <1>3 DEF Appended
  <2>2. CASE i \in 1..Len(own)
    <3>0. own[i] \in Owners(list)
      BY <2>2 DEF Owners
    <3>1. own[i] \in DOMAIN list.idx /\ own[i] # id
      BY <3>0 DEF ListOK, Indexed
    <3>2. new.idx[own[i]] = list.idx[own[i]]
      BY <3>1 DEF Appended
    <3> QED  BY <2>2, <3>2, <1>3 DEF ListOK, Indexed
  <2> QED  BY <2>1, <2>2, <1>2, <1>3
<1>7. new.owner \in Seq(Owners(new))
  BY <1>3, <1>4
<1>8. new = [owner |-> new.owner, idx |-> new.idx] /\ new.idx = [i \in DOMAIN new.idx |-> new.idx[i]]
  BY DEF Appended
<1> QED  BY <1>4, <1>5, <1>6, <1>7, <1>8 DEF ListOK, Indexed

SwapCut(own, k) == Front([own EXCEPT ![k] = own[Len(own)]])

(* What the moved array looks like: one element shorter, the hole filled   *)
(* by the last one, and nothing missing but the element at k.              *)
SwapFacts(T, own, k) ==
  /\ SwapCut(own, k) \in Seq(T) /\ Len(SwapCut(own, k)) = Len(own) - 1
  /\ \A i \in 1..(Len(own) - 1) : SwapCut(own, k)[i] = IF i = k THEN own[Len(own)] ELSE own[i]
  /\ {SwapCut(own, k)[i] : i \in 1..(Len(own) - 1)} = {own[i] : i \in 1..Len(own)} \ {own[k]}

Injective(own) == \A i, j \in 1..Len(own) : own[i] = own[j] => i = j

(* Moving the last element of an injective array over position k and       *)
(* dropping the end removes exactly the element at k.                      *)
LEMMA SwapErase ==
  ASSUME NEW T, NEW own \in Seq(T), NEW k \in 1..Len(own), Injective(own)
  PROVE  SwapFacts(T, own, k)
<1> DEFINE n   == Len(own)
           swp == [own EXCEPT ![k] = own[n]]
           cut == SwapCut(own, k)
<1>1. n \in Nat /\ n \in 1..n /\ own[n] \in T
  OBVIOUS
<1>2. swp \in Seq(T) /\ Len(swp) = n /\ \A i \in 1..n : swp[i] = IF i = k THEN own[n] ELSE own[i]
  BY <1>1
<1>3. cut = SubSeq(swp, 1, n - 1)
  BY <1>2 DEF SwapCut, Front
<1> HIDE DEF swp, cut
<1>4. /\ cut \in Seq(T) /\ Len(cut) = n - 1
      /\ \A i \in 1..(n - 1) : cut[i] = swp[i]
  BY <1>1, <1>2, <1>3
<1>5. \A i \in 1..(n - 1) : cut[i] = IF i = k THEN own[n] ELSE own[i]
  BY <1>1, <1>2, <1>4
<1>6. ASSUME NEW i \in 1..(n - 1) PROVE cut[i] \in {own[j] : j \in 1..n} /\ cut[i] # own[k]
  BY <1>1, <1>5 DEF Injective
<1>7. ASSUME NEW j \in 1..n, own[j] # own[k] PROVE \E i \in 1..(n - 1) : cut[i] = own[j]
  <2>1. CASE j = n
    <3>1. k # n /\ k \in 1..(n - 1) /\ cut[k] = own[n]
      BY <1>1, <1>5, <1>7, <2>1
    <3> QED  BY <2>1, <3>1
  <2>2. CASE j # n
    <3>1. j \in 1..(n - 1) /\ j # k /\ cut[j] = own[j]
      BY <1>1, <1>5, <1>7, <2>2
    <3> QED  BY <3>1
  <2> QED  BY <2>1, <2>2
<1>8. {cut[i] : i \in 1..(n - 1)} = {own[i] : i \in 1..n} \ {own[k]}
  <2>1. \A x \in {cut[i] : i \in 1..(n - 1)} : x \in {own[i] : i \in 1..n} \ {own[k]}
    BY <1>6
  <2>2. \A x \in {own[i] : i \in 1..n} \ {own[k]} : x \in {cut[i] : i \in 1..(n - 1)}
    BY <1>7
  <2> QED  BY <2>1, <2>2
<1> QED  BY <1>4, <1>5, <1>8 DEF swp, cut, SwapFacts

(* Erasing keeps the list well-formed, wherever the patch was.             *)
LEMMA ErasedOK ==
  ASSUME NEW list, ListOK(list), NEW id
  PROVE  ListOK(Erased(list, id)) /\ id \notin DOMAIN Erased(list, id).idx
<1>1. CASE id \notin DOMAIN list.idx
  BY <1>1 DEF Erased
<1>2. CASE id \in DOMAIN list.idx
  <2> DEFINE own == list.owner
             n   == Len(own)
             new == Erased(list, id)
  <2>1. /\ own \in Seq(Owners(list))
        /\ DOMAIN list.idx = Owners(list)
        /\ \A i \in 1..n : list.idx[own[i]] = i
    BY DEF ListOK, Indexed
  <2>2. Owners(list) = {own[i] : i \in 1..n}
    BY DEF Owners
  <2>3. PICK k \in 1..n : own[k] = id
    BY <1>2, <2>1, <2>2
  <2>4. list.idx[id] = k
    BY <2>1, <2>3
  <2> DEFINE cut == SwapCut(own, k)
  <2>5. /\ cut \in Seq(Owners(list)) /\ Len(cut) = n - 1
        /\ \A i \in 1..(n - 1) : cut[i] = IF i = k THEN own[n] ELSE own[i]
        /\ {cut[i] : i \in 1..(n - 1)} = Owners(list) \ {id}
    <3>1. Injective(own)
      BY <2>1 DEF Injective
    <3>2. own \in Seq(Owners(list)) /\ k \in 1..Len(own)
      BY <2>1
    <3> HIDE DEF own
    <3>3. SwapFacts(Owners(list), own, k)
      BY <3>1, <3>2, SwapErase, Zenon
    <3> QED  BY <3>3, <2>2, <2>3, Zenon DEF SwapFacts
  <2>6. /\ new.owner = cut
        /\ new.idx = [x \in DOMAIN list.idx \ {id} |-> IF x = own[n] THEN k ELSE list.idx[x]]
        /\ new = [owner |-> new.owner, idx |-> new.idx]
    <3>1. Last(own) = own[n]
      BY DEF Last
    <3>2. new = [owner |-> cut,
                 idx |-> [x \in DOMAIN list.idx \ {id} |-> IF x = own[n] THEN k ELSE list.idx[x]]]
      BY <1>2, <2>4, <3>1, Zenon DEF Erased, SwapCut
    <3> QED  BY <3>2
  <2>7. n \in Nat /\ n \in 1..n /\ own[n] \in Owners(list)
    BY <2>1, <2>2, <2>3, SMTT(20)
  <2> HIDE DEF cut, new
  <2>8. Owners(new) = Owners(list) \ {id}
    <3>1. Owners(new) = {new.owner[i] : i \in 1..Len(new.owner)}
      BY DEF Owners
    <3>2. Owners(new) = {cut[i] : i \in 1..(n - 1)}
      BY <2>5, <2>6, <3>1
    <3> QED  BY <2>5, <3>2
  <2>9. DOMAIN new.idx = Owners(new)
    BY <2>1, <2>6, <2>8
  <2>10. ASSUME NEW i \in 1..(n - 1) PROVE new.idx[cut[i]] = i
    <3>1. cut[i] \in DOMAIN list.idx \ {id}
      BY <2>1, <2>5
    <3>2. new.idx[cut[i]] = IF cut[i] = own[n] THEN k ELSE list.idx[cut[i]]
      BY <2>6, <3>1
    <3>3. CASE i = k
      BY <2>5, <2>7, <2>1, <3>2, <3>3
    <3>4. CASE i # k
      <4>0. cut[i] = own[i] /\ i \in 1..n
        BY <2>5, <2>7, <3>4
      <4>1. list.idx[own[i]] = i /\ list.idx[own[n]] = n
        BY <2>1, <2>7, <4>0
      <4>2. own[i] # own[n]
        BY <4>0, <4>1, <2>7
      <4> QED  BY <3>1, <3>2, <4>0, <4>1, <4>2
    <3> QED  BY <3>3, <3>4
  <2>11. new.owner \in Seq(Owners(new))
    <3>1. \A i \in 1..Len(new.owner) : new.owner[i] \in Owners(new)
      BY DEF Owners
    <3> QED  BY <2>5, <2>6, <3>1
  <2>12. Indexed(new)
    BY <2>5, <2>6, <2>9, <2>10 DEF Indexed
  <2>13. ListOK(new) /\ id \notin DOMAIN new.idx
    BY <2>6, <2>8, <2>9, <2>11, <2>12 DEF ListOK
  <2> QED  BY <2>13 DEF new
<1> QED  BY <1>1, <1>2

(* What buildVizMarkers does to one plane's patch.                         *)
LEMMA RedrawnOK ==
  ASSUME NEW list, ListOK(list), NEW id, NEW shown
  PROVE  ListOK(Redrawn(list, id, shown))
BY ErasedOK, AppendedOK DEF Redrawn

ListsOK == ListOK(discs) /\ ListOK(dots)

(* Every other operation of the map leaves the lists alone.                *)
LEMMA ListsStep == ListsOK /\ [Next]_vars => ListsOK'
<1> SUFFICES ASSUME ListsOK, [Next]_vars PROVE ListsOK'
  OBVIOUS
<1>1. ASSUME NEW n \in DOMAIN vizDirty, RefreshMarker(n) PROVE ListsOK'
  BY <1>1, RedrawnOK DEF RefreshMarker, ListsOK
<1>2. CASE UNCHANGED <<discs, dots>>
  BY <1>2 DEF ListsOK
<1>3. ASSUME Bootstrap \/ NextObservation \/ FinishBootstrap \/ UpdateMap PROVE UNCHANGED <<discs, dots>>
  BY <1>3 DEF Bootstrap, NextObservation, FinishBootstrap, UpdateMap, vizVars
<1>4. ASSUME NEW n \in DOMAIN inbox, InsertPoints(n) PROVE UNCHANGED <<discs, dots>>
  BY <1>4 DEF InsertPoints, vizVars
<1>5. ASSUME MergeUpdates PROVE UNCHANGED <<discs, dots>>
  BY <1>5 DEF MergeUpdates
<1>6. ASSUME UNCHANGED vars PROVE UNCHANGED <<discs, dots>>
  BY <1>6 DEF vars, vizVars
<1> QED  BY <1>1, <1>2, <1>3, <1>4, <1>5, <1>6 DEF Next

(* The index of each marker list is the inverse of its owner array: an     *)
(* erase always drops the patch of the plane it was asked to drop.         *)
THEOREM MarkersCorrect == Spec => []MarkersIndexed
<1>1. Init => ListsOK
  BY EmptyOK DEF Init, ListsOK
<1>2. ListsOK => MarkersIndexed
  BY DEF ListsOK, ListOK, MarkersIndexed
<1> QED  BY <1>1, <1>2, ListsStep, PTL DEF Spec
------------------------------------------------------------------------------
(* The locks.  A node is open with its plane in use until a call of        *)
(* insertPoints closes it; before the first scan there is no node, so that *)
(* none can have locked before the bootstrap flag went up.                 *)
Shaped(v) == DOMAIN v = {"status", "isPlane", "size", "retired", "bins", "dirty", "points"}

Justified(n, v, lock, always) ==
  /\ v.status = "CONVERGED" => LivePlane(v) /\ IsFull(v) /\ ~lock /\ ~always
  /\ v.status = "DISABLED" => ~(Layer(n) < MaxLayer) /\ IsFull(v) /\ ~v.isPlane /\ ~lock
  /\ v.status \in {"PARENT", "DISABLED"} => v.retired

NodeOK(n, v, lock, always) ==
  /\ Shaped(v) /\ v.isPlane \in BOOLEAN
  /\ v.status = "OPEN" => v.retired = FALSE
  /\ Justified(n, v, lock, always)

LocksInv ==
  /\ \A n \in DOMAIN node : NodeOK(n, node[n], AntiLock, opts.alwaysUpdate)
  /\ stage = "fresh" => DOMAIN node = {} /\ DOMAIN inbox = {}

(* A node just created is fine, whatever the options.                      *)
LEMMA NewNodeOK == ASSUME NEW n, NEW lock, NEW always PROVE NodeOK(n, NewNode, lock, always)
  BY DEF NodeOK, NewNode, Shaped, Justified

(* The flag the judgement depends on only ever falls once nodes exist.     *)
LEMMA FlagFalls ==
  ASSUME NEW n, NEW v, NEW lock, NEW lock2, NEW always,
         NodeOK(n, v, lock, always), lock2 => lock
  PROVE  NodeOK(n, v, lock2, always)
  BY DEF NodeOK, Shaped, Justified

(* Sorting a scan into its roots creates roots and touches no other node.  *)
LEMMA FillOK ==
  ASSUME LocksInv, opts' = opts, NEW cells, NEW live, FillBuckets(cells, live),
         DOMAIN node = {} \/ booting' = booting
  PROVE  LocksInv'
<1> DEFINE fresh == {<<r>> : r \in activeKeys'} \ DOMAIN node
<1>1. /\ stage' = "insert"
      /\ node' = [n \in DOMAIN node \cup fresh |-> IF n \in fresh THEN NewNode ELSE node[n]]
  BY DEF FillBuckets
<1> HIDE DEF fresh
<1>2. ASSUME NEW n \in DOMAIN node' PROVE NodeOK(n, node'[n], AntiLock', opts'.alwaysUpdate)
  <2>1. CASE n \in fresh
    BY <1>1, <2>1, NewNodeOK
  <2>2. CASE n \notin fresh
    <3>1. n \in DOMAIN node /\ node'[n] = node[n]
      BY <1>1, <1>2, <2>2
    <3>2. AntiLock' = AntiLock
      BY <3>1 DEF AntiLock
    <3> QED  BY <3>1, <3>2 DEF LocksInv
  <2> QED  BY <2>1, <2>2
<1> QED  BY <1>1, <1>2 DEF LocksInv

(* What a call stores in its node first: still open, its plane refitted.   *)
LEMMA FittedOK ==
  ASSUME NEW n, NEW b, NEW plane \in BOOLEAN, Shaped(node[n]), node[n].retired = FALSE
  PROVE  LET w == Fitted(Received(n, b), plane)
         IN /\ Shaped(Received(n, b)) /\ Shaped(w)
            /\ w.isPlane \in BOOLEAN /\ w.status = node[n].status /\ w.retired = FALSE
            /\ Received(n, b).isPlane = node[n].isPlane
            /\ Received(n, b).status = node[n].status /\ Received(n, b).retired = FALSE
<1> DEFINE v   == node[n]
           r   == Received(n, b)
           w   == Fitted(r, plane)
           hit == {Bin(n, p) : p \in BagToSet(b)}
           pts == IF Stored(v) THEN v.points (+) b ELSE v.points
           good == plane /\ Cardinality(r.bins) >= MinReps
<1>1. r = [v EXCEPT !.bins = v.bins \cup hit, !.dirty = v.dirty \cup hit, !.points = pts]
  BY Zenon DEF Received
<1>2. w = [r EXCEPT !.isPlane = good, !.size = Cardinality(r.bins), !.dirty = {}]
  BY Zenon DEF Fitted
<1>3. good \in BOOLEAN
  OBVIOUS
<1> HIDE DEF hit, pts, r, w, good
<1>4. Shaped(r) /\ r.isPlane = v.isPlane /\ r.status = v.status /\ r.retired = v.retired
  BY <1>1 DEF Shaped
<1>5. Shaped(w) /\ w.isPlane = good /\ w.status = r.status /\ w.retired = r.retired
  BY <1>2, <1>4 DEF Shaped
<1> QED  BY <1>3, <1>4, <1>5 DEF w, r

(* Creating children keeps every node that was there.                      *)
LEMMA PassOK ==
  ASSUME NEW n, NEW b, NEW nodes, NEW st, PassToChildren(n, b, nodes, st), NEW lock, NEW always,
         \A m \in DOMAIN nodes : NodeOK(m, nodes[m], lock, always)
  PROVE  \A m \in DOMAIN node' : NodeOK(m, node'[m], lock, always)
<1> DEFINE fresh == Children(n, b) \ DOMAIN nodes
<1>1. node' = [c \in DOMAIN nodes \cup fresh |-> IF c \in fresh THEN NewNode ELSE nodes[c]]
  BY DEF PassToChildren
<1> HIDE DEF fresh
<1> TAKE m \in DOMAIN node'
<1>2. CASE m \in fresh
  BY <1>1, <1>2, NewNodeOK
<1>3. CASE m \notin fresh
  BY <1>1, <1>3
<1> QED  BY <1>2, <1>3

(* One entry of the map of nodes is replaced by a sound one.               *)
LEMMA KeepOK ==
  ASSUME NEW n, NEW v, NEW lock, NEW always,
         n \in DOMAIN node => NodeOK(n, v, lock, always),
         \A m \in DOMAIN node : NodeOK(m, node[m], lock, always)
  PROVE  \A m \in DOMAIN Keep(n, v) : NodeOK(m, Keep(n, v)[m], lock, always)
<1>1. Keep(n, v) = [node EXCEPT ![n] = v]
  BY DEF Keep
<1>2. DOMAIN Keep(n, v) = DOMAIN node
      /\ \A m \in DOMAIN node : Keep(n, v)[m] = IF m = n THEN v ELSE node[m]
  BY <1>1
<1> QED  BY <1>2, Zenon

(* A call of insertPoints leaves every node open or locked for cause.      *)
LEMMA InsertOK ==
  ASSUME LocksInv, NEW n \in DOMAIN inbox, InsertPoints(n)
  PROVE  LocksInv'
<1> DEFINE lock == AntiLock
           always == opts.alwaysUpdate
           b == inbox[n]
           v == Received(n, b)
           OK(nodes) == \A m \in DOMAIN nodes : NodeOK(m, nodes[m], lock, always)
<1>1. OK(node) /\ stage # "fresh"
  BY DEF LocksInv
<1>2. stage' = stage /\ AntiLock' = lock /\ opts' = opts
  BY DEF InsertPoints, scanVars, AntiLock
<1>3. ASSUME node' = node PROVE OK(node')
  BY <1>1, <1>3
<1>4. ASSUME PassToChildren(n, b, node, stats) PROVE OK(node')
  BY <1>1, <1>4, PassOK
<1>5. ASSUME node[n].status = "OPEN", node' = Keep(n, v) PROVE OK(node')
  <2>1. n \in DOMAIN node => NodeOK(n, v, lock, always)
    <3> SUFFICES ASSUME n \in DOMAIN node PROVE NodeOK(n, v, lock, always)
      OBVIOUS
    <3>1. Shaped(node[n]) /\ node[n].retired = FALSE /\ node[n].isPlane \in BOOLEAN
      BY <1>1, <1>5 DEF NodeOK
    <3>2. Shaped(v) /\ v.isPlane = node[n].isPlane /\ v.status = "OPEN" /\ v.retired = FALSE
      BY <1>5, <3>1, FittedOK
    <3> HIDE DEF v
    <3> QED  BY <3>1, <3>2 DEF NodeOK, Justified
  <2> QED  BY <1>1, <1>5, <2>1, KeepOK
<1>6. ASSUME node[n].status = "OPEN", NEW plane \in BOOLEAN, Fit(n, b, Fitted(v, plane))
      PROVE  OK(node')
  <2> DEFINE w == Fitted(v, plane)
             closed == [w EXCEPT !.status = "PARENT", !.retired = TRUE, !.points = EmptyBag]
             final == IF w.isPlane THEN "CONVERGED" ELSE "DISABLED"
             locked == [w EXCEPT !.status = final, !.retired = ~w.isPlane, !.bins = {}, !.points = EmptyBag]
  <2>1. n \in DOMAIN node =>
          Shaped(w) /\ w.isPlane \in BOOLEAN /\ w.status = "OPEN" /\ w.retired = FALSE
    BY <1>1, <1>6, FittedOK DEF NodeOK
  <2>2. CASE Subdivide(n, b, w)
    <3>1. n \in DOMAIN node => NodeOK(n, closed, lock, always)
      <4> HIDE DEF w
      <4> QED  BY <2>1 DEF NodeOK, Justified, Shaped
    <3>2. OK(Keep(n, closed))
      BY <1>1, <3>1, KeepOK
    <3>3. PassToChildren(n, Handover(n, b), Keep(n, closed), Transition(PlaneCount(node[n], w), "OPEN", "PARENT"))
      BY <2>2, Zenon DEF Subdivide
    <3> HIDE DEF closed, w
    <3> QED  BY <3>2, <3>3, PassOK
  <2>3. CASE ~(~w.isPlane /\ Layer(n) < MaxLayer) /\ ShouldLock(w) /\ Lock(n, w)
    <3>1. n \in DOMAIN node => NodeOK(n, locked, lock, always)
      <4>1. IsFull(w) /\ ~(always /\ w.isPlane) /\ ~lock
        BY <2>3, Zenon DEF ShouldLock
      <4> HIDE DEF w
      <4> QED  BY <2>1, <2>3, <4>1 DEF NodeOK, Justified, Shaped, LivePlane, IsFull
    <3>2. node' = Keep(n, locked)
      BY <2>3, Zenon DEF Lock
    <3> HIDE DEF locked, w
    <3> QED  BY <1>1, <3>1, <3>2, KeepOK
  <2>4. CASE StayOpen(n, w)
    <3>1. n \in DOMAIN node => NodeOK(n, w, lock, always)
      <4> HIDE DEF w
      <4> QED  BY <2>1 DEF NodeOK, Justified
    <3>2. node' = Keep(n, w)
      BY <2>4, Zenon DEF StayOpen
    <3> HIDE DEF w
    <3> QED  BY <1>1, <3>1, <3>2, KeepOK
  <2> QED  BY <1>6, <2>2, <2>3, <2>4, Zenon DEF Fit
<1> QED
  <2>1. OK(node')
    <3> HIDE DEF OK, v, b
    <3>1. \/ node' = node
          \/ PassToChildren(n, b, node, stats)
          \/ node[n].status = "OPEN" /\ node' = Keep(n, v)
          \/ node[n].status = "OPEN" /\ \E plane \in BOOLEAN : Fit(n, b, Fitted(v, plane))
      BY Zenon DEF InsertPoints, v, b
    <3> QED  BY <1>3, <1>4, <1>5, <1>6, <3>1
  <2> QED  BY <1>1, <1>2, <2>1 DEF LocksInv

(* Every step keeps the nodes open or locked for cause.                    *)
LEMMA LocksStep == LocksInv /\ [Next]_vars => LocksInv'
<1> SUFFICES ASSUME LocksInv, [Next]_vars PROVE LocksInv'
  OBVIOUS
<1>1. CASE Bootstrap
  BY <1>1, FillOK DEF Bootstrap, LocksInv
<1>2. CASE NextObservation
  BY <1>2, FillOK DEF NextObservation
<1>3. CASE UpdateMap
  BY <1>3, FillOK DEF UpdateMap
<1>4. CASE FinishBootstrap
  <2>1. node' = node /\ stage' # "fresh" /\ opts' = opts /\ (AntiLock' => AntiLock)
    BY <1>4 DEF FinishBootstrap, mapVars, AntiLock
  <2> QED  BY <2>1, FlagFalls DEF LocksInv
<1>5. ASSUME NEW n \in DOMAIN inbox, InsertPoints(n) PROVE LocksInv'
  BY <1>5, InsertOK
<1>6. CASE MergeUpdates \/ \E n \in DOMAIN vizDirty : RefreshMarker(n)
  <2>1. MergeUpdates => UNCHANGED scanVars /\ node' = node /\ stage' = "idle"
    BY Zenon DEF MergeUpdates
  <2>2. ASSUME NEW n \in DOMAIN vizDirty, RefreshMarker(n)
        PROVE  UNCHANGED scanVars /\ node' = node /\ stage' # "fresh"
    BY <2>2 DEF RefreshMarker, mapVars
  <2>3. UNCHANGED scanVars /\ node' = node /\ stage' # "fresh"
    BY <1>6, <2>1, <2>2
  <2> QED  BY <2>3 DEF LocksInv, scanVars, AntiLock
<1>7. CASE UNCHANGED vars
  BY <1>7 DEF vars, scanVars, mapVars, AntiLock, LocksInv
<1> QED  BY <1>1, <1>2, <1>3, <1>4, <1>5, <1>6, <1>7 DEF Next

(* No cell is frozen or given up before it is full, while the sequential   *)
(* bootstrap is inserting, or, under always_update, while it is a plane.   *)
THEOREM LocksCorrect == Spec => []LocksJustified
<1>1. Init => LocksInv
  BY DEF Init, LocksInv
<1>2. LocksInv => LocksJustified
  BY DEF LocksInv, NodeOK, Justified, LocksJustified
<1> QED  BY <1>1, <1>2, LocksStep, PTL DEF Spec
------------------------------------------------------------------------------
(* Paths.  A node is a prefix of the positions inside it, so the nodes     *)
(* around a position are a chain.                                          *)
Sites == Roots \cup Octants \cup Cells

(* A position is a path of fixed length over the sites.                    *)
LEMMA PositionFacts ==
  ASSUME NEW p \in Positions
  PROVE  p \in Seq(Sites) /\ Len(p) = MaxLayer + 2
<1> DEFINE path(r, k, c) == <<r>> \o k \o <<c>>
<1>0. Positions = {path(r, k, c) : r \in Roots, k \in [1..MaxLayer -> Octants], c \in Cells}
  BY DEF Positions
<1> HIDE DEF path
<1>1. PICK r \in Roots, k \in [1..MaxLayer -> Octants], c \in Cells : p = path(r, k, c)
  BY <1>0
<1> USE DEF path
<1>2. MaxLayer \in Nat
  BY VoxelAssumption
<1>3. <<r>> \in Seq(Sites) /\ Len(<<r>>) = 1 /\ <<c>> \in Seq(Sites) /\ Len(<<c>>) = 1
  BY DEF Sites
<1>4. k \in Seq(Sites) /\ Len(k) = MaxLayer
  <2>1. k \in [1..MaxLayer -> Sites]
    BY DEF Sites
  <2> QED  BY <1>2, <2>1
<1>5. PICK a \in Seq(Sites), z \in Seq(Sites) : a = <<r>> /\ z = <<c>>
  BY <1>3
<1>6. (a \o k) \in Seq(Sites) /\ Len(a \o k) = MaxLayer + 1
  BY <1>2, <1>3, <1>4, <1>5, ConcatProperties
<1>7. (a \o k) \o z \in Seq(Sites) /\ Len((a \o k) \o z) = (MaxLayer + 1) + 1
  BY <1>3, <1>5, <1>6, ConcatProperties
<1> QED  BY <1>1, <1>2, <1>5, <1>7

(* A prefix, element by element.                                           *)
LEMMA PrefixIs ==
  ASSUME NEW s \in Seq(Sites), NEW t \in Seq(Sites)
  PROVE  IsPrefix(s, t) <=> Len(s) <= Len(t) /\ \A i \in 1..Len(s) : s[i] = t[i]
<1>1. Len(s) \in Nat /\ Len(t) \in Nat
  OBVIOUS
<1>2. SubSeq(s, 1, Len(s)) = s
  BY SubSeqFull
<1>3. ASSUME Len(s) <= Len(t) PROVE s = SubSeq(t, 1, Len(s)) <=> \A i \in 1..Len(s) : s[i] = t[i]
  <2>1. /\ SubSeq(t, 1, Len(s)) \in Seq(Sites) /\ Len(SubSeq(t, 1, Len(s))) = Len(s)
        /\ \A i \in 1..Len(s) : SubSeq(t, 1, Len(s))[i] = t[i]
    BY <1>1, <1>3
  <2>2. PICK u \in Seq(Sites) : u = SubSeq(t, 1, Len(s))
    BY <2>1
  <2>3. s = u <=> \A i \in 1..Len(s) : s[i] = u[i]
    BY <2>1, <2>2, SeqEqual
  <2> QED  BY <2>1, <2>2, <2>3
<1> QED  BY <1>2, <1>3 DEF IsPrefix

(* Every cut of a position is a node around it.                            *)
LEMMA PrefixNode ==
  ASSUME NEW p \in Positions, NEW l \in 1..(MaxLayer + 1)
  PROVE  /\ SubSeq(p, 1, l) \in Nodes /\ SubSeq(p, 1, l) \in Seq(Sites)
         /\ IsPrefix(SubSeq(p, 1, l), p) /\ Len(SubSeq(p, 1, l)) = l
<1>1. MaxLayer \in Nat /\ p \in Seq(Sites) /\ Len(p) = MaxLayer + 2
  BY VoxelAssumption, PositionFacts
<1>2. l - 1 \in 0..MaxLayer /\ (l - 1) + 1 = l
  BY <1>1
<1>3. SubSeq(p, 1, l) \in Nodes
  BY <1>2 DEF Nodes
<1>4. /\ SubSeq(p, 1, l) \in Seq(Sites) /\ Len(SubSeq(p, 1, l)) = l
      /\ \A i \in 1..l : SubSeq(p, 1, l)[i] = p[i]
  BY <1>1
<1>5. l <= Len(p)
  BY <1>1
<1> QED  BY <1>1, <1>3, <1>4, <1>5, PrefixIs

(* Every node is such a cut.                                               *)
LEMMA NodeFacts ==
  ASSUME NEW n \in Nodes
  PROVE  n \in Seq(Sites) /\ Len(n) \in 1..(MaxLayer + 1) /\ \E p \in Positions : IsPrefix(n, p)
<1>1. PICK p \in Positions, l \in 0..MaxLayer : n = SubSeq(p, 1, l + 1)
  BY DEF Nodes
<1>2. l + 1 \in 1..(MaxLayer + 1)
  BY VoxelAssumption
<1> QED  BY <1>1, <1>2, PrefixNode

(* Being inside is a partial order, total on the nodes around one place.   *)
LEMMA PrefixOrder ==
  /\ \A n \in Nodes : IsPrefix(n, n)
  /\ \A m, n \in Nodes : IsPrefix(m, n) /\ IsPrefix(n, m) => m = n
  /\ \A m, n \in Nodes, t \in Nodes \cup Positions : IsPrefix(m, n) /\ IsPrefix(n, t) => IsPrefix(m, t)
  /\ \A m, n \in Nodes, t \in Nodes \cup Positions :
       IsPrefix(m, t) /\ IsPrefix(n, t) => IsPrefix(m, n) \/ IsPrefix(n, m)
<1>1. \A s \in Nodes \cup Positions : s \in Seq(Sites) /\ Len(s) \in Nat
  BY NodeFacts, PositionFacts, VoxelAssumption
<1>2. \A s, t \in Nodes \cup Positions :
         IsPrefix(s, t) <=> Len(s) <= Len(t) /\ \A i \in 1..Len(s) : s[i] = t[i]
  BY <1>1, PrefixIs
<1>3. \A n \in Nodes : IsPrefix(n, n)
  BY <1>1, <1>2
<1>4. ASSUME NEW m \in Nodes, NEW n \in Nodes, IsPrefix(m, n), IsPrefix(n, m) PROVE m = n
  <2>1. Len(m) = Len(n) /\ \A i \in 1..Len(m) : m[i] = n[i]
    BY <1>1, <1>2, <1>4
  <2> QED  BY <1>1, <2>1, SeqEqual
<1>5. ASSUME NEW m \in Nodes, NEW n \in Nodes, NEW t \in Nodes \cup Positions,
             IsPrefix(m, n), IsPrefix(n, t)
      PROVE  IsPrefix(m, t)
  <2>1. /\ Len(m) <= Len(n) /\ \A i \in 1..Len(m) : m[i] = n[i]
        /\ Len(n) <= Len(t) /\ \A i \in 1..Len(n) : n[i] = t[i]
    BY <1>2, <1>5
  <2>2. Len(m) <= Len(t) /\ \A i \in 1..Len(m) : i \in 1..Len(n)
    BY <1>1, <2>1
  <2> QED  BY <1>2, <2>1, <2>2
<1>6. ASSUME NEW m \in Nodes, NEW n \in Nodes, NEW t \in Nodes \cup Positions,
             IsPrefix(m, t), IsPrefix(n, t), Len(m) <= Len(n)
      PROVE  IsPrefix(m, n)
  <2>1. (\A i \in 1..Len(m) : m[i] = t[i]) /\ (\A i \in 1..Len(n) : n[i] = t[i])
    BY <1>2, <1>6
  <2>2. \A i \in 1..Len(m) : i \in 1..Len(n)
    BY <1>1, <1>6
  <2> QED  BY <1>2, <1>6, <2>1, <2>2
<1>7. ASSUME NEW m \in Nodes, NEW n \in Nodes PROVE Len(m) <= Len(n) \/ Len(n) <= Len(m)
  BY <1>1
<1> QED  BY <1>3, <1>4, <1>5, <1>6, <1>7

(* The child of a node in which a position lies, and what is above it.     *)
LEMMA ChildFacts ==
  ASSUME NEW n \in Nodes, Layer(n) < MaxLayer, NEW p \in Positions, IsPrefix(n, p)
  PROVE  LET c == SubSeq(p, 1, Len(n) + 1)
         IN  /\ c \in Nodes /\ IsPrefix(n, c) /\ IsPrefix(c, p) /\ c # n
             /\ \A m \in Nodes : IsPrefix(m, c) => m = c \/ IsPrefix(m, n)
<1>1. n \in Seq(Sites) /\ Len(n) \in 1..(MaxLayer + 1) /\ MaxLayer \in Nat
  BY NodeFacts, VoxelAssumption
<1>2. Len(n) + 1 \in 1..(MaxLayer + 1)
  BY <1>1 DEF Layer
<1>3. PICK c \in Nodes : c = SubSeq(p, 1, Len(n) + 1) /\ IsPrefix(c, p) /\ Len(c) = Len(n) + 1
  BY <1>2, PrefixNode
<1>4. c \in Seq(Sites) /\ c # n
  <2>1. c \in Seq(Sites)
    BY NodeFacts
  <2>2. Len(c) # Len(n)
    BY <1>1, <1>3
  <2> QED  BY <2>1, <2>2
<1>5. ~IsPrefix(c, n)
  <2>1. ~(Len(c) <= Len(n))
    BY <1>1, <1>3
  <2> QED  BY <1>1, <1>4, <2>1, PrefixIs
<1>6. IsPrefix(n, c)
  BY <1>3, <1>5, PrefixOrder
<1>7. ASSUME NEW m \in Nodes, IsPrefix(m, c), m # c PROVE IsPrefix(m, n)
  <2>1. m \in Seq(Sites) /\ Len(m) \in Nat /\ Len(m) <= Len(n) + 1
    <3>1. m \in Seq(Sites) /\ Len(m) \in Nat
      BY NodeFacts
    <3>2. Len(m) <= Len(c)
      BY <1>4, <1>7, <3>1, PrefixIs
    <3> QED  BY <1>3, <3>1, <3>2
  <2>2. Len(m) # Len(n) + 1
    <3>1. ASSUME Len(m) = Len(n) + 1 PROVE FALSE
      <4>1. \A i \in 1..Len(m) : m[i] = c[i]
        BY <1>4, <1>7, <2>1, PrefixIs
      <4> QED  BY <1>3, <1>4, <1>7, <2>1, <3>1, <4>1, SeqEqual
    <3> QED  BY <3>1
  <2>3. Len(m) <= Len(n)
    BY <1>1, <2>1, <2>2
  <2>4. IsPrefix(m, n) \/ IsPrefix(n, m)
    BY <1>6, <1>7, PrefixOrder
  <2>5. ASSUME IsPrefix(n, m) PROVE IsPrefix(m, n)
    <3>1. Len(n) <= Len(m) /\ \A i \in 1..Len(n) : n[i] = m[i]
      BY <1>1, <2>1, <2>5, PrefixIs
    <3>2. Len(m) = Len(n)
      BY <1>1, <2>1, <2>3, <3>1
    <3> QED  BY <1>1, <2>1, <3>1, <3>2, PrefixIs
  <2> QED  BY <2>4, <2>5
<1> QED  BY <1>3, <1>4, <1>6, <1>7
------------------------------------------------------------------------------
(* Bags of points of which no point occurs twice.                          *)
OneEach(bag) == bag = [p \in DOMAIN bag |-> 1]

(* The empty bag is one of them.                                           *)
LEMMA NoPoints == DOMAIN EmptyBag = {} /\ OneEach(EmptyBag)
  BY DEF EmptyBag, SetToBag, OneEach

(* So is the part of one that lies in a node.                              *)
LEMMA InNodeFacts ==
  ASSUME NEW bag, OneEach(bag), NEW n
  PROVE  /\ DOMAIN InNode(bag, n) = {p \in DOMAIN bag : In(p, n)}
         /\ OneEach(InNode(bag, n))
<1>1. InNode(bag, n) = [p \in {q \in DOMAIN bag : In(q, n)} |-> bag[p]]
  BY DEF InNode, RestrictDomain, Restrict
<1>2. \A p \in DOMAIN bag : bag[p] = 1
  BY DEF OneEach
<1> QED  BY <1>1, <1>2 DEF OneEach

(* So are two put together, if they share no point.                        *)
LEMMA PutTogether ==
  ASSUME NEW a, NEW b, OneEach(a), OneEach(b), DOMAIN a \cap DOMAIN b = {}
  PROVE  /\ DOMAIN (a (+) b) = DOMAIN a \cup DOMAIN b
         /\ OneEach(a (+) b)
<1>1. (\A p \in DOMAIN a : a[p] = 1) /\ (\A p \in DOMAIN b : b[p] = 1)
  BY DEF OneEach
<1>2. a (+) b = [p \in DOMAIN a \cup DOMAIN b |->
                   (IF p \in DOMAIN a THEN a[p] ELSE 0) + (IF p \in DOMAIN b THEN b[p] ELSE 0)]
  BY DEF (+)
<1>3. \A p \in DOMAIN a \cup DOMAIN b :
        (IF p \in DOMAIN a THEN a[p] ELSE 0) + (IF p \in DOMAIN b THEN b[p] ELSE 0) = 1
  BY <1>1
<1> QED  BY <1>2, <1>3 DEF OneEach

------------------------------------------------------------------------------
(* The invariant behind the points, the counters and the patches.  It is   *)
(* said of the tree, of the calls still to be made and of what each of     *)
(* them will find; the nodes of the last scan's points are settled or lie  *)
(* below such a call.                                                      *)
Points  == [pos : Positions, scan : Nat]
Fields(v) == [status |-> v.status, isPlane |-> v.isPlane, size |-> v.size, retired |-> v.retired,
              bins |-> v.bins, dirty |-> v.dirty, points |-> v.points]

PointsUpTo(bag, n, last) ==
  /\ OneEach(bag) /\ IsFiniteSet(DOMAIN bag)
  /\ \A p \in DOMAIN bag : p \in Points /\ p.scan <= last /\ In(p, n)

PointsOf(bag, n) == PointsUpTo(bag, n, nScans)

NodeShape(v) ==
  /\ v = Fields(v) /\ v.status \in Statuses /\ v.isPlane \in BOOLEAN /\ v.size \in Nat
  /\ v.status = "OPEN" => v.retired = FALSE
  /\ v.status = "CONVERGED" => v.isPlane /\ v.retired = FALSE
  /\ v.status \in {"PARENT", "DISABLED"} => v.retired
  /\ v.status # "OPEN" => v.points = EmptyBag
  /\ IsFiniteSet(v.bins)

(* The nodes above n are parents, and n is one only if it has room below.  *)
Rooted(n) ==
  /\ n \in Nodes
  /\ \A m \in Nodes : IsPrefix(m, n) /\ m # n => m \in DOMAIN node /\ node[m].status = "PARENT"
  /\ node[n].status = "PARENT" => Layer(n) < MaxLayer

TreeInv ==
  /\ IsFiniteSet(DOMAIN node)
  /\ \A n \in DOMAIN node : Rooted(n) /\ NodeShape(node[n]) /\ PointsOf(node[n].points, n)

(* Calls of insertPoints: never one below another, and with points that    *)
(* are in no node's history.                                               *)
CallsInv ==
  /\ DOMAIN inbox \subseteq DOMAIN node
  /\ \A n \in DOMAIN inbox : PointsOf(inbox[n], n)
  /\ \A m, n \in DOMAIN inbox : IsPrefix(m, n) => m = n
  /\ \A n \in DOMAIN inbox, m \in DOMAIN node : DOMAIN inbox[n] \cap DOMAIN node[m].points = {}
  /\ stage # "insert" => DOMAIN inbox = {}

(* The buckets that are not active are empty.                              *)
BucketsInv ==
  /\ activeKeys \subseteq Roots
  /\ \A r \in Roots \ activeKeys : bucket[r] = EmptyBag

(* No call is still to be made that would reach n.                         *)
Passed(n) == \A k \in DOMAIN inbox : ~IsPrefix(k, n)

SettledAt(n, p) ==
  /\ In(p, n) /\ node[n].status # "PARENT" /\ Passed(n)
  /\ node[n].status = "OPEN" =>
       /\ Bin(n, p) \in node[n].bins
       /\ p \in DOMAIN node[n].points \/ ~(BagCardinality(node[n].points) < MaxPoints)

SettledInv ==
  \A p \in DOMAIN scan : \/ \E n \in DOMAIN inbox : p \in DOMAIN inbox[n]
                         \/ \E n \in DOMAIN node : SettledAt(n, p)

Counters == Statuses \cup {"planes"}

CensusInv == stats = [s \in Counters |-> stats[s]] /\ StatsAreCensus

(* What a patch must show: a plane in use, and whether it is full.         *)
Live(n) == n \in DOMAIN node /\ LivePlane(node[n])
Full(n) == Live(n) /\ IsFull(node[n])
Ids == {u.id : u \in updates}

ReportsInv ==
  /\ \A u \in updates : /\ u.id \in DOMAIN node /\ Passed(u.id)
                        /\ u.deleted <=> ~Live(u.id)
                        /\ Live(u.id) => (u.conv <=> Full(u.id))
  /\ stage # "insert" => updates = {}

DirtyInv ==
  /\ DOMAIN vizDirty \subseteq DOMAIN node /\ DOMAIN vizCache \subseteq DOMAIN node
  /\ \A n \in DOMAIN vizDirty : ~vizDirty[n] => n \in DOMAIN vizCache
  /\ \A n \in DOMAIN vizDirty \ Ids :
       (vizDirty[n] <=> ~Live(n)) /\ (Live(n) => (vizCache[n] <=> Full(n)))

PatchesInv ==
  \A n \in Nodes \ (DOMAIN vizDirty \cup Ids) :
    (n \in Owners(discs) <=> Live(n)) /\ (n \in Owners(dots) <=> Full(n))

ControlInv ==
  /\ stage \in {"fresh", "insert", "idle", "viz"} /\ booting \in BOOLEAN
  /\ frameIdx \in Nat /\ curFrame \in Nat \cup {-1} /\ nScans \in 0..MaxScans

MapInv ==
  /\ ControlInv /\ TreeInv /\ CallsInv /\ BucketsInv /\ SettledInv
  /\ CensusInv /\ ReportsInv /\ DirtyInv /\ PatchesInv
(* One call of insertPoints, from outside: node n becomes v, and what h    *)
(* holds is handed to the children C.                                      *)
Handing(n, v, h, C) ==
  /\ DOMAIN node' = DOMAIN node \cup C
  /\ node'[n] = v
  /\ \A m \in DOMAIN node \ {n} : node'[m] = node[m]
  /\ \A c \in C \ DOMAIN node : node'[c] = NewNode
  /\ DOMAIN inbox' = (DOMAIN inbox \ {n}) \cup C
  /\ \A c \in C : inbox'[c] = InNode(h, c)
  /\ \A m \in DOMAIN inbox \ ({n} \cup C) : inbox'[m] = inbox[m]

ChildOf(c, n) ==
  /\ c \in Nodes /\ IsPrefix(n, c) /\ c # n
  /\ \A m \in Nodes : IsPrefix(m, c) => m = c \/ IsPrefix(m, n)

(* Where the points of the call and of the history end up.                 *)
HandsOver(n, v, h, C) ==
  /\ IsFiniteSet(C) /\ \A c \in C : ChildOf(c, n)
  /\ v.status # "PARENT" => C = {}
  /\ v.status = "PARENT" =>
       /\ PointsOf(h, n) /\ DOMAIN inbox[n] \subseteq DOMAIN h
       /\ \A p \in DOMAIN h : \E c \in C : In(p, c)
  /\ DOMAIN h \cup DOMAIN v.points \subseteq DOMAIN inbox[n] \cup DOMAIN node[n].points
  /\ v.status = "OPEN" =>
       \A p \in DOMAIN inbox[n] :
         /\ Bin(n, p) \in v.bins
         /\ p \in DOMAIN v.points \/ ~(BagCardinality(v.points) < MaxPoints)

Becomes(n, v) ==
  /\ NodeShape(v) /\ PointsOf(v.points, n)
  /\ v.status = "PARENT" => Layer(n) < MaxLayer
  /\ node[n].status = "PARENT" => v.status = "PARENT"

Unreported(n, v) ==
  /\ updates' = updates
  /\ LivePlane(v) <=> LivePlane(node[n])
  /\ LivePlane(v) => v.size = node[n].size

Rightly(u, n, v) ==
  /\ u.id = n /\ (u.deleted <=> ~LivePlane(v))
  /\ LivePlane(v) => (u.conv <=> IsFull(v))

Reported(n, v) ==
  Unreported(n, v) \/ \E u : updates' = updates \cup {u} /\ Rightly(u, n, v)

One(yes) == IF yes THEN 1 ELSE 0

Change(s, n, v, C) ==
  IF s = "planes" THEN One(LivePlane(v)) - One(LivePlane(node[n]))
  ELSE (One(v.status = s) - One(node[n].status = s))
         + (IF s = "OPEN" THEN Cardinality(C \ DOMAIN node) ELSE 0)

Counted(n, v, C) == stats' = [s \in Counters |-> stats[s] + Change(s, n, v, C)]

Call(n, v, h, C) ==
  /\ Handing(n, v, h, C) /\ HandsOver(n, v, h, C) /\ Becomes(n, v)
  /\ Reported(n, v) /\ Counted(n, v, C)

(* The images of a finite set of points.                                   *)
LEMMA ImageFinite ==
  ASSUME NEW S, NEW f, f = [x \in S |-> f[x]], IsFiniteSet(S)
  PROVE  IsFiniteSet({f[x] : x \in S})
<1> DEFINE T == {f[x] : x \in S}
<1>1. f \in [S -> T] /\ \A y \in T : \E x \in S : f[x] = y
  OBVIOUS
<1> HIDE DEF T
<1>2. f \in Surjection(S, T)
  BY <1>1 DEF Surjection
<1>3. IsFiniteSet(T)
  BY <1>2, FS_Surjection
<1> QED  BY <1>3 DEF T

(* The bins hit by finitely many points are finitely many.                 *)
LEMMA CellsFinite ==
  ASSUME NEW bag, IsFiniteSet(DOMAIN bag), NEW n
  PROVE  IsFiniteSet({Bin(n, p) : p \in DOMAIN bag})
<1> DEFINE f == [p \in DOMAIN bag |-> Bin(n, p)]
<1>1. {f[p] : p \in DOMAIN bag} = {Bin(n, p) : p \in DOMAIN bag}
  OBVIOUS
<1>2. f = [p \in DOMAIN bag |-> f[p]]
  OBVIOUS
<1> HIDE DEF f
<1>3. IsFiniteSet({f[p] : p \in DOMAIN bag})
  BY <1>2, ImageFinite
<1> QED  BY <1>1, <1>3

(* The children a handover reaches.                                        *)
LEMMA ChildrenFacts ==
  ASSUME NEW n \in Nodes, Layer(n) < MaxLayer, NEW h, PointsOf(h, n)
  PROVE  /\ IsFiniteSet(Children(n, h)) /\ \A c \in Children(n, h) : ChildOf(c, n)
         /\ \A p \in DOMAIN h : \E c \in Children(n, h) : In(p, c)
<1>1. Children(n, h) = {SubSeq(p.pos, 1, Len(n) + 1) : p \in DOMAIN h}
  BY DEF Children, BagToSet
<1>2. IsFiniteSet(Children(n, h))
  <2>1. Children(n, h) = {Bin(n, p) : p \in DOMAIN h}
    BY <1>1 DEF Bin
  <2> QED  BY <2>1, CellsFinite DEF PointsOf, PointsUpTo
<1>3. ASSUME NEW p \in DOMAIN h
      PROVE  ChildOf(SubSeq(p.pos, 1, Len(n) + 1), n) /\ In(p, SubSeq(p.pos, 1, Len(n) + 1))
  <2>1. p.pos \in Positions /\ IsPrefix(n, p.pos)
    BY <1>3 DEF PointsOf, PointsUpTo, Points, In
  <2>2. PICK c : c = SubSeq(p.pos, 1, Len(n) + 1)
    OBVIOUS
  <2>3. /\ c \in Nodes /\ IsPrefix(n, c) /\ IsPrefix(c, p.pos) /\ c # n
        /\ \A m \in Nodes : IsPrefix(m, c) => m = c \/ IsPrefix(m, n)
    BY <2>1, <2>2, ChildFacts
  <2> QED  BY <2>2, <2>3 DEF ChildOf, In
<1> QED  BY <1>1, <1>2, <1>3
(* An open node after it has taken in the batch, fitted or not.            *)
Holds(n, w) ==
  /\ w = Fields(w) /\ w.status = "OPEN" /\ w.isPlane \in BOOLEAN /\ w.size \in Nat
  /\ w.retired = FALSE /\ IsFiniteSet(w.bins) /\ PointsOf(w.points, n)
  /\ DOMAIN w.points \subseteq DOMAIN inbox[n] \cup DOMAIN node[n].points
  /\ \A p \in DOMAIN inbox[n] :
       /\ Bin(n, p) \in w.bins
       /\ p \in DOMAIN w.points \/ ~(BagCardinality(w.points) < MaxPoints)

(* The history and the batch together.                                     *)
LEMMA TogetherFacts ==
  ASSUME TreeInv, CallsInv, NEW n \in DOMAIN inbox
  PROVE  /\ PointsOf(node[n].points (+) inbox[n], n)
         /\ DOMAIN (node[n].points (+) inbox[n]) = DOMAIN node[n].points \cup DOMAIN inbox[n]
<1>1. /\ n \in DOMAIN node /\ PointsOf(node[n].points, n) /\ PointsOf(inbox[n], n)
      /\ DOMAIN inbox[n] \cap DOMAIN node[n].points = {}
  BY DEF TreeInv, CallsInv
<1>2. PICK a, b : a = node[n].points /\ b = inbox[n]
  OBVIOUS
<1>3. OneEach(a) /\ OneEach(b) /\ DOMAIN a \cap DOMAIN b = {}
  BY <1>1, <1>2 DEF PointsOf, PointsUpTo
<1>4. DOMAIN (a (+) b) = DOMAIN a \cup DOMAIN b /\ OneEach(a (+) b)
  BY <1>3, PutTogether
<1>5. IsFiniteSet(DOMAIN a \cup DOMAIN b)
  BY <1>1, <1>2, FS_Union DEF PointsOf, PointsUpTo
<1> QED  BY <1>1, <1>2, <1>4, <1>5 DEF PointsOf, PointsUpTo

(* An open node after it has received a batch.                             *)
LEMMA ReceivedFacts ==
  ASSUME TreeInv, CallsInv, NEW n \in DOMAIN inbox, node[n].status = "OPEN"
  PROVE  LET r == Received(n, inbox[n])
         IN  Holds(n, r) /\ r.isPlane = node[n].isPlane /\ r.size = node[n].size
<1> DEFINE b    == inbox[n]
           old  == node[n]
           both == old.points (+) b
           hit  == {Bin(n, p) : p \in DOMAIN b}
           pts  == IF Stored(old) THEN both ELSE old.points
           r    == Received(n, b)
<1>1. NodeShape(old) /\ PointsOf(old.points, n) /\ PointsOf(b, n)
  BY DEF TreeInv, CallsInv
<1>2. PointsOf(both, n) /\ DOMAIN both = DOMAIN old.points \cup DOMAIN b
  BY TogetherFacts
<1>3. r = [old EXCEPT !.bins = old.bins \cup hit, !.dirty = old.dirty \cup hit, !.points = pts]
  BY DEF Received, BagToSet
<1>4. IsFiniteSet(old.bins \cup hit) /\ \A p \in DOMAIN b : Bin(n, p) \in old.bins \cup hit
  <2>1. IsFiniteSet(hit)
    BY <1>1, CellsFinite DEF PointsOf, PointsUpTo
  <2>2. IsFiniteSet(old.bins)
    BY <1>1 DEF NodeShape
  <2> QED  BY <2>1, <2>2, FS_Union
<1>5. /\ PointsOf(pts, n) /\ DOMAIN pts \subseteq DOMAIN b \cup DOMAIN old.points
      /\ \A p \in DOMAIN b : p \in DOMAIN pts \/ ~(BagCardinality(pts) < MaxPoints)
  <2>1. CASE Stored(old)
    BY <1>2, <2>1
  <2>2. CASE ~Stored(old)
    BY <1>1, <2>2 DEF Stored
  <2> QED  BY <2>1, <2>2
<1>6. old = Fields(old) /\ old.isPlane \in BOOLEAN /\ old.size \in Nat /\ old.retired = FALSE
  BY <1>1 DEF NodeShape
<1> HIDE DEF pts, hit, both, r
<1>7. /\ r = Fields(r) /\ r.status = "OPEN" /\ r.isPlane = old.isPlane /\ r.size = old.size
      /\ r.retired = old.retired /\ r.bins = old.bins \cup hit /\ r.points = pts
  <2> HIDE DEF old
  <2>1. old.status = "OPEN"
    BY DEF old
  <2> QED  BY <1>3, <1>6, <2>1 DEF Fields
<1>8. Holds(n, r)
  BY <1>4, <1>5, <1>6, <1>7 DEF Holds
<1> QED  BY <1>7, <1>8 DEF r

(* The fit changes nothing of that, whatever it finds.                     *)
LEMMA FittedFacts ==
  ASSUME NEW n, NEW r, Holds(n, r), NEW plane \in BOOLEAN
  PROVE  Holds(n, Fitted(r, plane))
<1> DEFINE w == Fitted(r, plane)
           good == plane /\ Cardinality(r.bins) >= MinReps
<1>1. w = [r EXCEPT !.isPlane = good, !.size = Cardinality(r.bins), !.dirty = {}]
  BY Zenon DEF Fitted
<1>2. good \in BOOLEAN /\ Cardinality(r.bins) \in Nat
  BY FS_CardinalityType DEF Holds
<1> HIDE DEF w, good
<1>3. /\ w = Fields(w) /\ w.status = "OPEN" /\ w.isPlane = good /\ w.size = Cardinality(r.bins)
      /\ w.retired = FALSE /\ w.bins = r.bins /\ w.points = r.points
  BY <1>1 DEF Holds, Fields
<1>4. Holds(n, w)
  BY <1>2, <1>3 DEF Holds
<1> QED  BY <1>4 DEF w
(* The two ways a call leaves the nodes and the calls still to be made.    *)
LEMMA DeliveredHands ==
  ASSUME NEW n \in DOMAIN inbox, n \in DOMAIN node, NEW v, Delivered(n),
         node' = Keep(n, v) \/ (node' = node /\ v = node[n])
  PROVE  Handing(n, v, EmptyBag, {})
<1>1. DOMAIN inbox' = DOMAIN inbox \ {n} /\ \A m \in DOMAIN inbox \ {n} : inbox'[m] = inbox[m]
  BY DEF Delivered, Restrict
<1>2. /\ DOMAIN node' = DOMAIN node /\ node'[n] = v
      /\ \A m \in DOMAIN node \ {n} : node'[m] = node[m]
  BY DEF Keep
<1> QED  BY <1>1, <1>2 DEF Handing

(* The node hands a bag to its children.                                   *)
LEMMA PassHands ==
  ASSUME NEW n \in DOMAIN inbox, n \in DOMAIN node, NEW v, NEW h, NEW st, NEW nodes,
         PassToChildren(n, h, nodes, st), n \notin Children(n, h),
         nodes = Keep(n, v) \/ (nodes = node /\ v = node[n])
  PROVE  /\ Handing(n, v, h, Children(n, h))
         /\ stats' = Count(st, "OPEN", Cardinality(Children(n, h) \ DOMAIN node))
<1> DEFINE C == Children(n, h)
           fresh == C \ DOMAIN nodes
<1>1. /\ DOMAIN nodes = DOMAIN node /\ nodes[n] = v
      /\ \A m \in DOMAIN node \ {n} : nodes[m] = node[m]
  BY DEF Keep
<1>2. /\ node' = [c \in DOMAIN nodes \cup fresh |-> IF c \in fresh THEN NewNode ELSE nodes[c]]
      /\ stats' = Count(st, "OPEN", Cardinality(fresh))
      /\ inbox' = [c \in (DOMAIN inbox \ {n}) \cup C |-> IF c \in C THEN InNode(h, c) ELSE inbox[c]]
  BY DEF PassToChildren
<1> HIDE DEF C
<1>3. /\ DOMAIN node' = DOMAIN node \cup C /\ node'[n] = v
      /\ \A m \in DOMAIN node \ {n} : node'[m] = node[m]
      /\ \A c \in C \ DOMAIN node : node'[c] = NewNode
  BY <1>1, <1>2
<1>4. /\ DOMAIN inbox' = (DOMAIN inbox \ {n}) \cup C
      /\ \A c \in C : inbox'[c] = InNode(h, c)
      /\ \A m \in DOMAIN inbox \ ({n} \cup C) : inbox'[m] = inbox[m]
  BY <1>2
<1>5. Handing(n, v, h, C)
  BY <1>3, <1>4 DEF Handing
<1> QED  BY <1>1, <1>2, <1>5 DEF C

(* Counting.                                                               *)
LEMMA CountFacts ==
  ASSUME NEW st \in [Counters -> Int], NEW s \in Counters, NEW k \in Int
  PROVE  /\ Count(st, s, k) \in [Counters -> Int]
         /\ \A t \in Counters : Count(st, s, k)[t] = IF t = s THEN st[t] + k ELSE st[t]
BY DEF Count

(* The counters of a true census are numbers.                              *)
LEMMA StatsType ==
  ASSUME TreeInv, CensusInv
  PROVE  stats \in [Counters -> Int] /\ \A s \in DOMAIN stats : stats[s] \in Nat
<1>1. \A s \in Counters : stats[s] \in Nat
  <2>1. ASSUME NEW s \in Statuses PROVE stats[s] \in Nat
    <3> DEFINE S == {n \in DOMAIN node : node[n].status = s}
    <3>1. IsFiniteSet(S) /\ stats[s] = Cardinality(S)
      BY FS_Subset DEF TreeInv, CensusInv, StatsAreCensus
    <3> HIDE DEF S
    <3> QED  BY <3>1, FS_CardinalityType
  <2>2. stats["planes"] \in Nat
    <3> DEFINE S == {n \in DOMAIN node : LivePlane(node[n])}
    <3>1. IsFiniteSet(S) /\ stats["planes"] = Cardinality(S)
      BY FS_Subset DEF TreeInv, CensusInv, StatsAreCensus
    <3> HIDE DEF S
    <3> QED  BY <3>1, FS_CardinalityType
  <2> QED  BY <2>1, <2>2 DEF Counters
<1>2. stats = [s \in Counters |-> stats[s]]
  BY DEF CensusInv
<1> QED  BY <1>1, <1>2

(* Nothing about the node changes that is counted.                         *)
LEMMA CountedSame ==
  ASSUME NEW n, NEW v, stats \in [Counters -> Int], stats' = stats,
         v.status = node[n].status, LivePlane(v) <=> LivePlane(node[n])
  PROVE  Counted(n, v, {})
<1>1. Cardinality({} \ DOMAIN node) = 0
  <2>1. {} \ DOMAIN node = {}
    OBVIOUS
  <2> QED  BY <2>1, FS_EmptySet
<1>2. \A s \in Counters : Change(s, n, v, {}) = 0
  BY <1>1 DEF Change, One
<1>3. \A s \in Counters : stats[s] + Change(s, n, v, {}) = stats[s]
  BY <1>2
<1> QED  BY <1>3 DEF Counted

PlaneChange(n, w) == One(w.isPlane) - One(node[n].isPlane)

(* What the plane counter gains in a fit.                                  *)
LEMMA PlaneCountFacts ==
  ASSUME NEW n, NEW w, stats \in [Counters -> Int], w.isPlane \in BOOLEAN, node[n].isPlane \in BOOLEAN
  PROVE  /\ PlaneCount(node[n], w) = Count(stats, "planes", PlaneChange(n, w))
         /\ PlaneChange(n, w) \in Int
         /\ PlaneCount(node[n], w) \in [Counters -> Int]
         /\ \A t \in Counters :
              PlaneCount(node[n], w)[t] = stats[t] + (IF t = "planes" THEN PlaneChange(n, w) ELSE 0)
<1>1. PlaneChange(n, w) \in Int
  BY DEF PlaneChange, One
<1>2. PlaneCount(node[n], w) = Count(stats, "planes", PlaneChange(n, w))
  <2>1. (IF ~node[n].isPlane /\ w.isPlane THEN 1 ELSE 0)
          - (IF node[n].isPlane /\ ~w.isPlane THEN 1 ELSE 0) = PlaneChange(n, w)
    BY DEF PlaneChange, One
  <2> QED  BY <2>1 DEF PlaneCount
<1>3. "planes" \in Counters
  BY DEF Counters
<1>4. /\ Count(stats, "planes", PlaneChange(n, w)) \in [Counters -> Int]
      /\ \A t \in Counters : Count(stats, "planes", PlaneChange(n, w))[t]
                               = IF t = "planes" THEN stats[t] + PlaneChange(n, w) ELSE stats[t]
  BY <1>1, <1>3, CountFacts
<1> QED  BY <1>1, <1>2, <1>4

(* The five ways a call goes, seen from outside.  First: a locked node     *)
(* drops the batch.                                                        *)
LEMMA CallSkipped ==
  ASSUME TreeInv, CallsInv, CensusInv, NEW n \in DOMAIN inbox,
         node[n].status \in {"CONVERGED", "DISABLED"}, Delivered(n), UNCHANGED <<node, stats, updates>>
  PROVE  Call(n, node[n], EmptyBag, {})
<1> DEFINE v == node[n]
<1>1. n \in DOMAIN node /\ NodeShape(v) /\ PointsOf(v.points, n) /\ Rooted(n)
  BY DEF TreeInv, CallsInv
<1>2. Handing(n, v, EmptyBag, {})
  BY <1>1, DeliveredHands
<1>3. HandsOver(n, v, EmptyBag, {})
  <2>1. IsFiniteSet({})
    BY FS_EmptySet
  <2> QED  BY <2>1, NoPoints DEF HandsOver
<1>4. Becomes(n, v)
  BY <1>1 DEF Becomes, Rooted
<1>5. Reported(n, v)
  BY DEF Reported, Unreported
<1>6. Counted(n, v, {})
  BY StatsType, CountedSame
<1> QED  BY <1>2, <1>3, <1>4, <1>5, <1>6 DEF Call

(* A parent passes the batch on.                                           *)
LEMMA CallPassed ==
  ASSUME TreeInv, CallsInv, CensusInv, NEW n \in DOMAIN inbox,
         node[n].status = "PARENT", PassToChildren(n, inbox[n], node, stats), updates' = updates
  PROVE  Call(n, node[n], inbox[n], Children(n, inbox[n]))
<1> DEFINE v == node[n]
           h == inbox[n]
           C == Children(n, h)
           k == Cardinality(C \ DOMAIN node)
<1>1. /\ n \in DOMAIN node /\ NodeShape(v) /\ PointsOf(v.points, n) /\ PointsOf(h, n)
      /\ n \in Nodes /\ Layer(n) < MaxLayer
  BY DEF TreeInv, CallsInv, Rooted
<1>2. IsFiniteSet(C) /\ (\A c \in C : ChildOf(c, n)) /\ \A p \in DOMAIN h : \E c \in C : In(p, c)
  BY <1>1, ChildrenFacts
<1>3. n \notin C
  BY <1>2 DEF ChildOf
<1>4. Handing(n, v, h, C) /\ stats' = Count(stats, "OPEN", k)
  BY <1>1, <1>3, PassHands
<1>5. HandsOver(n, v, h, C)
  BY <1>1, <1>2 DEF HandsOver
<1>6. Becomes(n, v)
  BY <1>1 DEF Becomes
<1>7. Reported(n, v)
  BY DEF Reported, Unreported
<1>8. Counted(n, v, C)
  <2>0. IsFiniteSet(C \ DOMAIN node)
    BY <1>2, FS_Difference
  <2>1. stats \in [Counters -> Int] /\ k \in Int /\ "OPEN" \in Counters
    BY <2>0, StatsType, FS_CardinalityType DEF Counters, Statuses
  <2>2. /\ stats' \in [Counters -> Int]
        /\ \A t \in Counters : stats'[t] = IF t = "OPEN" THEN stats[t] + k ELSE stats[t]
    BY <1>4, <2>1, CountFacts
  <2>3. \A t \in Counters : Change(t, n, v, C) = IF t = "OPEN" THEN k ELSE 0
    BY <2>1 DEF Change, One
  <2> HIDE DEF k, v, h, C
  <2>4. ASSUME NEW t \in Counters PROVE stats'[t] = stats[t] + Change(t, n, v, C)
    <3>1. stats[t] \in Int /\ stats[t] + 0 = stats[t]
      BY <2>1
    <3> QED  BY <2>2, <2>3, <3>1
  <2>5. stats' = [t \in Counters |-> stats'[t]]
    BY <2>2
  <2> QED  BY <2>4, <2>5 DEF Counted
<1> QED  BY <1>4, <1>5, <1>6, <1>7, <1>8 DEF Call

(* An open node keeps the batch and waits for more.                        *)
LEMMA CallStored ==
  ASSUME TreeInv, CallsInv, CensusInv, NEW n \in DOMAIN inbox, node[n].status = "OPEN",
         node' = Keep(n, Received(n, inbox[n])), Delivered(n), UNCHANGED <<stats, updates>>
  PROVE  Call(n, Received(n, inbox[n]), EmptyBag, {})
<1>1. PICK v : v = Received(n, inbox[n])
  OBVIOUS
<1>2. Holds(n, v) /\ v.isPlane = node[n].isPlane /\ v.size = node[n].size
  BY <1>1, ReceivedFacts
<1>3. n \in DOMAIN node /\ node[n].retired = FALSE
  BY DEF CallsInv, TreeInv, NodeShape
<1>4. Handing(n, v, EmptyBag, {})
  BY <1>1, <1>3, DeliveredHands
<1>5. HandsOver(n, v, EmptyBag, {})
  <2>1. IsFiniteSet({})
    BY FS_EmptySet
  <2> QED  BY <1>2, <2>1, NoPoints DEF HandsOver, Holds
<1>6. Becomes(n, v)
  BY <1>2 DEF Becomes, Holds, NodeShape, Statuses
<1>7. LivePlane(v) <=> LivePlane(node[n])
  BY <1>2, <1>3 DEF LivePlane, Holds
<1>8. Reported(n, v)
  BY <1>2, <1>7 DEF Reported, Unreported
<1>9. Counted(n, v, {})
  BY <1>2, <1>7, StatsType, CountedSame DEF Holds
<1> QED  BY <1>1, <1>4, <1>5, <1>6, <1>8, <1>9 DEF Call

(* What is reported about a node that was refitted.                        *)
LEMMA ReportFacts ==
  ASSUME NEW n, node[n].retired = FALSE, NEW w, NEW v,
         LivePlane(v) <=> w.isPlane, w.isPlane => v.size = w.size,
         IF w.isPlane THEN Report(n, FALSE, IsFull(w))
         ELSE IF node[n].isPlane THEN Report(n, TRUE, FALSE)
         ELSE UNCHANGED updates
  PROVE  Reported(n, v)
<1>1. CASE w.isPlane
  <2>1. PICK u : u = [id |-> n, deleted |-> FALSE, conv |-> IsFull(w)]
    OBVIOUS
  <2>2. updates' = updates \cup {u}
    BY <1>1, <2>1 DEF Report
  <2>3. IsFull(w) <=> IsFull(v)
    BY <1>1 DEF IsFull
  <2>4. u.id = n /\ u.deleted = FALSE /\ u.conv = IsFull(w)
    BY <2>1
  <2>5. Rightly(u, n, v)
    BY <1>1, <2>3, <2>4 DEF Rightly
  <2> QED  BY <2>2, <2>5 DEF Reported
<1>2. CASE ~w.isPlane /\ node[n].isPlane
  <2>1. PICK u : u = [id |-> n, deleted |-> TRUE, conv |-> FALSE]
    OBVIOUS
  <2>2. updates' = updates \cup {u}
    BY <1>2, <2>1 DEF Report
  <2>3. Rightly(u, n, v)
    BY <1>2, <2>1 DEF Rightly
  <2> QED  BY <2>2, <2>3 DEF Reported
<1>3. CASE ~w.isPlane /\ ~node[n].isPlane
  BY <1>3 DEF Reported, Unreported, LivePlane
<1> QED  BY <1>1, <1>2, <1>3

(* What the status counters gain when an open node closes.                 *)
LEMMA TransitionFacts ==
  ASSUME NEW st \in [Counters -> Int], NEW to \in Counters, to # "OPEN"
  PROVE  /\ Transition(st, "OPEN", to) \in [Counters -> Int]
         /\ \A t \in Counters : Transition(st, "OPEN", to)[t] =
              st[t] + (IF t = "OPEN" THEN -1 ELSE IF t = to THEN 1 ELSE 0)
<1>1. PICK one : one = Count(st, "OPEN", -1)
  OBVIOUS
<1>2. /\ one \in [Counters -> Int]
      /\ \A t \in Counters : one[t] = IF t = "OPEN" THEN st[t] + (-1) ELSE st[t]
  <2>1. "OPEN" \in Counters /\ -1 \in Int
    BY DEF Counters, Statuses
  <2>2. /\ Count(st, "OPEN", -1) \in [Counters -> Int]
        /\ \A t \in Counters : Count(st, "OPEN", -1)[t] = IF t = "OPEN" THEN st[t] + (-1) ELSE st[t]
    BY <2>1, CountFacts
  <2> QED  BY <1>1, <2>2
<1>3. Transition(st, "OPEN", to) = Count(one, to, 1)
  BY <1>1 DEF Transition
<1>4. /\ Count(one, to, 1) \in [Counters -> Int]
      /\ \A t \in Counters : Count(one, to, 1)[t] = IF t = to THEN one[t] + 1 ELSE one[t]
  BY <1>2, CountFacts
<1> QED  BY <1>2, <1>3, <1>4

(* A fitted node stays open.                                               *)
LEMMA CallStays ==
  ASSUME TreeInv, CallsInv, CensusInv, NEW n \in DOMAIN inbox, node[n].status = "OPEN",
         NEW w, Holds(n, w), StayOpen(n, w)
  PROVE  Call(n, w, EmptyBag, {})
<1>1. /\ n \in DOMAIN node /\ node[n].retired = FALSE /\ node[n].isPlane \in BOOLEAN
      /\ stats \in [Counters -> Int]
  BY StatsType DEF CallsInv, TreeInv, NodeShape
<1>2. LivePlane(w) <=> w.isPlane
  BY DEF LivePlane, Holds
<1>3. Handing(n, w, EmptyBag, {})
  BY <1>1, DeliveredHands DEF StayOpen
<1>4. HandsOver(n, w, EmptyBag, {})
  <2>1. IsFiniteSet({})
    BY FS_EmptySet
  <2> QED  BY <2>1, NoPoints DEF HandsOver, Holds
<1>5. Becomes(n, w)
  BY DEF Becomes, Holds, NodeShape, Statuses
<1>6. Reported(n, w)
  BY <1>1, <1>2, ReportFacts DEF StayOpen
<1>7. Counted(n, w, {})
  <2>1. /\ stats' = PlaneCount(node[n], w)
        /\ PlaneCount(node[n], w) \in [Counters -> Int]
        /\ \A t \in Counters :
             PlaneCount(node[n], w)[t] = stats[t] + (IF t = "planes" THEN PlaneChange(n, w) ELSE 0)
    BY <1>1, PlaneCountFacts DEF StayOpen, Holds
  <2>2. Cardinality({} \ DOMAIN node) = 0
    <3>1. {} \ DOMAIN node = {}
      OBVIOUS
    <3> QED  BY <3>1, FS_EmptySet
  <2>3. LivePlane(node[n]) <=> node[n].isPlane
    BY <1>1 DEF LivePlane
  <2>4. ASSUME NEW t \in Counters
        PROVE  Change(t, n, w, {}) = IF t = "planes" THEN PlaneChange(n, w) ELSE 0
    <3>1. CASE t = "planes"
      BY <1>2, <2>3, <3>1 DEF Change, PlaneChange, One
    <3>2. CASE t # "planes"
      <4>1. w.status = node[n].status
        BY DEF Holds
      <4> QED  BY <2>2, <3>2, <4>1 DEF Change, One
    <3> QED  BY <3>1, <3>2
  <2>5. stats' = [t \in Counters |-> stats'[t]]
    BY <2>1
  <2> QED  BY <2>1, <2>4, <2>5 DEF Counted
<1> QED  BY <1>3, <1>4, <1>5, <1>6, <1>7 DEF Call

(* A fitted node that closes is counted under its new status, and the      *)
(* children created below it as open.                                      *)
LEMMA ClosesCounted ==
  ASSUME NEW n, NEW w, NEW v, NEW C, NEW st,
         stats \in [Counters -> Int], IsFiniteSet(C \ DOMAIN node),
         node[n].status = "OPEN", node[n].retired = FALSE, node[n].isPlane \in BOOLEAN,
         w.isPlane \in BOOLEAN, v.status \in Statuses \ {"OPEN"}, LivePlane(v) <=> w.isPlane,
         st = Transition(PlaneCount(node[n], w), "OPEN", v.status),
         \/ stats' = Count(st, "OPEN", Cardinality(C \ DOMAIN node))
         \/ stats' = st /\ C = {}
  PROVE  Counted(n, v, C)
<1>1. PICK k : k = Cardinality(C \ DOMAIN node)
  OBVIOUS
<1>2. k \in Int /\ (C = {} => k = 0)
  <2>1. C = {} => C \ DOMAIN node = {}
    OBVIOUS
  <2> QED  BY <1>1, <2>1, FS_CardinalityType, FS_EmptySet
<1>3. PICK to \in Counters : to = v.status /\ to # "OPEN" /\ to # "planes"
  BY DEF Counters, Statuses
<1>4. PICK pc \in [Counters -> Int] :
        /\ pc = PlaneCount(node[n], w)
        /\ \A t \in Counters : pc[t] = stats[t] + (IF t = "planes" THEN PlaneChange(n, w) ELSE 0)
  <2>1. /\ PlaneCount(node[n], w) \in [Counters -> Int]
        /\ \A t \in Counters : PlaneCount(node[n], w)[t]
                                  = stats[t] + (IF t = "planes" THEN PlaneChange(n, w) ELSE 0)
    BY PlaneCountFacts
  <2> QED  BY <2>1, Zenon
<1>5. /\ st \in [Counters -> Int]
      /\ \A t \in Counters : st[t] = pc[t] + (IF t = "OPEN" THEN -1 ELSE IF t = to THEN 1 ELSE 0)
  BY <1>3, <1>4, TransitionFacts
<1>6. /\ stats' \in [Counters -> Int]
      /\ \A t \in Counters : stats'[t] = IF t = "OPEN" THEN st[t] + k ELSE st[t]
  <2>1. "OPEN" \in Counters
    BY DEF Counters, Statuses
  <2>2. CASE stats' = Count(st, "OPEN", k)
    BY <1>2, <1>5, <2>1, <2>2 DEF Count
  <2>3. CASE stats' = st /\ k = 0
    BY <1>5, <2>3
  <2> QED  BY <1>1, <1>2, <2>2, <2>3
<1>7. PlaneChange(n, w) \in Int /\ PlaneChange(n, w) = One(LivePlane(v)) - One(LivePlane(node[n]))
  BY DEF PlaneChange, One, LivePlane
<1>8. ASSUME NEW t \in Counters PROVE stats'[t] = stats[t] + Change(t, n, v, C)
  <2>0. stats[t] \in Int
    OBVIOUS
  <2>1. CASE t = "planes"
    BY <1>3, <1>4, <1>5, <1>6, <1>7, <2>0, <2>1 DEF Change
  <2>2. CASE t = "OPEN"
    BY <1>1, <1>2, <1>3, <1>4, <1>5, <1>6, <2>0, <2>2 DEF Change, One
  <2>3. CASE t # "OPEN" /\ t # "planes"
    BY <1>3, <1>4, <1>5, <1>6, <2>0, <2>3 DEF Change, One
  <2> QED  BY <2>1, <2>2, <2>3
<1>9. stats' = [t \in Counters |-> stats'[t]]
  BY <1>6
<1> QED  BY <1>8, <1>9 DEF Counted

(* A fitted node locks: its history goes, its plane stays in use if it has *)
(* one.                                                                    *)
LEMMA CallLocks ==
  ASSUME TreeInv, CallsInv, CensusInv, NEW n \in DOMAIN inbox, node[n].status = "OPEN",
         NEW w, Holds(n, w), Lock(n, w)
  PROVE  \E v : Call(n, v, EmptyBag, {})
<1>1. PICK to : to = IF w.isPlane THEN "CONVERGED" ELSE "DISABLED"
  OBVIOUS
<1>2. PICK v : v = [w EXCEPT !.status = to, !.retired = ~w.isPlane, !.bins = {}, !.points = EmptyBag]
  OBVIOUS
<1>3. /\ node' = Keep(n, v) /\ Delivered(n)
      /\ stats' = Transition(PlaneCount(node[n], w), "OPEN", to)
  BY <1>1, <1>2, Zenon DEF Lock
<1>4. IF w.isPlane THEN Report(n, FALSE, IsFull(w))
      ELSE IF node[n].isPlane THEN Report(n, TRUE, FALSE) ELSE UNCHANGED updates
  BY Zenon DEF Lock
<1>5. /\ n \in DOMAIN node /\ node[n].retired = FALSE /\ node[n].isPlane \in BOOLEAN
      /\ stats \in [Counters -> Int]
  BY StatsType DEF CallsInv, TreeInv, NodeShape
<1>6. /\ v = Fields(v) /\ v.status = to /\ v.isPlane = w.isPlane /\ v.size = w.size
      /\ v.retired = ~w.isPlane /\ v.bins = {} /\ v.points = EmptyBag
  <2>1. w = Fields(w)
    BY DEF Holds
  <2> QED  BY <1>2, <2>1 DEF Fields
<1>7. w.isPlane \in BOOLEAN /\ w.size \in Nat
  BY DEF Holds
<1>8. LivePlane(v) <=> w.isPlane
  BY <1>6, <1>7 DEF LivePlane
<1>9. Handing(n, v, EmptyBag, {})
  BY <1>3, <1>5, DeliveredHands
<1>10. HandsOver(n, v, EmptyBag, {}) /\ IsFiniteSet({})
  <2>1. IsFiniteSet({}) /\ v.status # "PARENT" /\ v.status # "OPEN"
    BY <1>1, <1>6, FS_EmptySet
  <2> QED  BY <1>6, <2>1, NoPoints DEF HandsOver
<1>11. Becomes(n, v)
  <2>1. NodeShape(v)
    BY <1>1, <1>6, <1>7, <1>10 DEF NodeShape, Statuses
  <2>2. PointsOf(v.points, n)
    BY <1>6, <1>10, NoPoints DEF PointsOf, PointsUpTo
  <2> QED  BY <1>1, <1>6, <2>1, <2>2 DEF Becomes
<1>12. Reported(n, v)
  BY <1>4, <1>5, <1>6, <1>8, ReportFacts
<1>13. Counted(n, v, {})
  <2>1. v.status \in Statuses \ {"OPEN"} /\ IsFiniteSet({} \ DOMAIN node)
    BY <1>1, <1>6, <1>10, FS_Difference DEF Statuses
  <2> QED  BY <1>3, <1>5, <1>6, <1>7, <1>8, <2>1, ClosesCounted
<1> QED  BY <1>9, <1>10, <1>11, <1>12, <1>13 DEF Call

(* What a split hands over is the history and the batch, all of both.      *)
LEMMA HandoverFacts ==
  ASSUME NEW n, NodeShape(node[n])
  PROVE  Handover(n, inbox[n]) = node[n].points (+) inbox[n]
<1> DEFINE old == node[n]
           hit == {Bin(n, p) : p \in BagToSet(inbox[n])}
           r   == Received(n, inbox[n])
<1>1. old = Fields(old)
  BY DEF NodeShape
<1>2. ASSUME Stored(old) PROVE r.points = old.points (+) inbox[n]
  <2>1. r = [old EXCEPT !.bins = old.bins \cup hit, !.dirty = old.dirty \cup hit,
                        !.points = old.points (+) inbox[n]]
    BY <1>2, Zenon DEF Received
  <2> HIDE DEF old, hit, r
  <2> QED  BY <1>1, <2>1 DEF Fields
<1> QED  BY <1>2 DEF Handover

(* A fitted node that is no plane splits, above the last layer.            *)
LEMMA CallSplits ==
  ASSUME TreeInv, CallsInv, CensusInv, NEW n \in DOMAIN inbox, node[n].status = "OPEN",
         NEW w, Holds(n, w), ~w.isPlane, Layer(n) < MaxLayer, Subdivide(n, inbox[n], w)
  PROVE  \E v, h, C : Call(n, v, h, C)
<1>1. PICK h : h = Handover(n, inbox[n])
  OBVIOUS
<1>2. PICK v : v = [w EXCEPT !.status = "PARENT", !.retired = TRUE, !.points = EmptyBag]
  OBVIOUS
<1>3. PICK C : C = Children(n, h)
  OBVIOUS
<1>4. PICK st : st = Transition(PlaneCount(node[n], w), "OPEN", "PARENT")
  OBVIOUS
<1>5. /\ PassToChildren(n, h, Keep(n, v), st)
      /\ IF node[n].isPlane THEN Report(n, TRUE, FALSE) ELSE UNCHANGED updates
  BY <1>1, <1>2, <1>4, Zenon DEF Subdivide
<1>6. /\ n \in DOMAIN node /\ node[n].retired = FALSE /\ node[n].isPlane \in BOOLEAN
      /\ stats \in [Counters -> Int] /\ n \in Nodes /\ NodeShape(node[n])
  BY StatsType DEF CallsInv, TreeInv, NodeShape, Rooted
<1>7. /\ v = Fields(v) /\ v.status = "PARENT" /\ v.isPlane = w.isPlane /\ v.size = w.size
      /\ v.retired = TRUE /\ v.bins = w.bins /\ v.points = EmptyBag
  <2>1. w = Fields(w)
    BY DEF Holds
  <2> QED  BY <1>2, <2>1 DEF Fields
<1>8. w.isPlane \in BOOLEAN /\ w.size \in Nat /\ IsFiniteSet(w.bins)
  BY DEF Holds
<1>9. LivePlane(v) <=> w.isPlane
  BY <1>7 DEF LivePlane
<1>10. PointsOf(h, n) /\ DOMAIN h = DOMAIN node[n].points \cup DOMAIN inbox[n]
  <2>1. h = node[n].points (+) inbox[n]
    BY <1>1, <1>6, HandoverFacts
  <2> QED  BY <2>1, TogetherFacts
<1>11. /\ IsFiniteSet(C) /\ \A c \in C : ChildOf(c, n)
       /\ \A p \in DOMAIN h : \E c \in C : In(p, c)
  BY <1>3, <1>6, <1>10, ChildrenFacts
<1>12. n \notin C
  BY <1>11 DEF ChildOf
<1>13. Handing(n, v, h, C) /\ stats' = Count(st, "OPEN", Cardinality(C \ DOMAIN node))
  <2>1. PICK nodes : nodes = Keep(n, v)
    OBVIOUS
  <2>2. PassToChildren(n, h, nodes, st) /\ n \notin Children(n, h)
    BY <1>3, <1>5, <1>12, <2>1
  <2> QED  BY <1>3, <1>6, <2>1, <2>2, PassHands
<1>14. HandsOver(n, v, h, C)
  BY <1>7, <1>10, <1>11, NoPoints DEF HandsOver
<1>15. Becomes(n, v)
  <2>1. NodeShape(v)
    BY <1>7, <1>8 DEF NodeShape, Statuses
  <2>2. PointsOf(v.points, n)
    BY <1>7, NoPoints, FS_EmptySet DEF PointsOf, PointsUpTo
  <2> QED  BY <2>1, <2>2 DEF Becomes
<1>16. Reported(n, v)
  BY <1>5, <1>6, <1>9, ReportFacts
<1>17. Counted(n, v, C)
  <2>1. v.status \in Statuses \ {"OPEN"} /\ IsFiniteSet(C \ DOMAIN node)
    BY <1>7, <1>11, FS_Difference DEF Statuses
  <2> QED  BY <1>4, <1>6, <1>7, <1>8, <1>9, <1>13, <2>1, ClosesCounted
<1> QED  BY <1>13, <1>14, <1>15, <1>16, <1>17 DEF Call

(* Every call of insertPoints has that form.                               *)
LEMMA CallForm ==
  ASSUME TreeInv, CallsInv, CensusInv, NEW n \in DOMAIN inbox, InsertPoints(n)
  PROVE  \E v, h, C : Call(n, v, h, C)
<1> DEFINE b == inbox[n]
           r == Received(n, b)
<1>1. CASE node[n].status \in {"CONVERGED", "DISABLED"} /\ Delivered(n) /\ UNCHANGED <<node, stats, updates>>
  BY <1>1, CallSkipped
<1>2. CASE node[n].status = "PARENT" /\ PassToChildren(n, b, node, stats) /\ UNCHANGED updates
  BY <1>2, CallPassed
<1>3. CASE node[n].status = "OPEN" /\ node' = Keep(n, r) /\ Delivered(n) /\ UNCHANGED <<stats, updates>>
  BY <1>3, CallStored
<1>4. ASSUME node[n].status = "OPEN", NEW plane \in BOOLEAN, Fit(n, b, Fitted(r, plane))
      PROVE  \E v, h, C : Call(n, v, h, C)
  <2>1. PICK w : w = Fitted(r, plane)
    OBVIOUS
  <2>2. Holds(n, w)
    BY <1>4, <2>1, ReceivedFacts, FittedFacts
  <2>3. \/ ~w.isPlane /\ Layer(n) < MaxLayer /\ Subdivide(n, b, w)
        \/ Lock(n, w)
        \/ StayOpen(n, w)
    BY <1>4, <2>1, Zenon DEF Fit
  <2>4. CASE ~w.isPlane /\ Layer(n) < MaxLayer /\ Subdivide(n, b, w)
    BY <1>4, <2>2, <2>4, CallSplits
  <2>5. CASE Lock(n, w)
    BY <1>4, <2>2, <2>5, CallLocks
  <2>6. CASE StayOpen(n, w)
    BY <1>4, <2>2, <2>6, CallStays
  <2> QED  BY <2>3, <2>4, <2>5, <2>6
<1> QED
  <2> HIDE DEF r, b
  <2>1. \/ node[n].status \in {"CONVERGED", "DISABLED"} /\ Delivered(n) /\ UNCHANGED <<node, stats, updates>>
        \/ node[n].status = "PARENT" /\ PassToChildren(n, b, node, stats) /\ UNCHANGED updates
        \/ node[n].status = "OPEN" /\ node' = Keep(n, r) /\ Delivered(n) /\ UNCHANGED <<stats, updates>>
        \/ node[n].status = "OPEN" /\ \E plane \in BOOLEAN : Fit(n, b, Fitted(r, plane))
    BY Zenon DEF InsertPoints, r, b
  <2> QED  BY <1>1, <1>2, <1>3, <1>4, <2>1

------------------------------------------------------------------------------
(* What a call preserves: first of the tree.                               *)
LEMMA NewNodeShape ==
  ASSUME NEW n, NEW last
  PROVE  /\ NewNode.status = "OPEN" /\ ~LivePlane(NewNode) /\ DOMAIN NewNode.points = {}
         /\ NodeShape(NewNode) /\ PointsUpTo(NewNode.points, n, last)
<1>1. IsFiniteSet({}) /\ DOMAIN EmptyBag = {} /\ OneEach(EmptyBag)
  BY NoPoints, FS_EmptySet
<1>2. PICK v : v = NewNode
  OBVIOUS
<1>3. v = Fields(v) /\ v.status = "OPEN" /\ v.isPlane = FALSE
      /\ v.size = 0 /\ v.retired = FALSE /\ v.bins = {} /\ v.points = EmptyBag
  BY <1>2 DEF NewNode, Fields
<1>4. ~LivePlane(v)
  BY <1>3 DEF LivePlane
<1>5. NodeShape(v)
  <2>1. IsFiniteSet(v.bins)
    BY <1>1, <1>3, Zenon
  <2>2. v.isPlane \in BOOLEAN
    BY <1>3, Zenon
  <2>3. v.size \in Nat
    BY <1>3
  <2>4. v.status \in Statuses
    BY <1>3 DEF Statuses
  <2> QED  BY <1>3, <2>1, <2>2, <2>3, <2>4 DEF NodeShape
<1>6. PointsUpTo(v.points, n, last)
  BY <1>1, <1>3 DEF PointsUpTo
<1> QED  BY <1>1, <1>2, <1>3, <1>4, <1>5, <1>6

(* The tree: parents above, points where they belong.                      *)
LEMMA TreeKept ==
  ASSUME TreeInv, NEW CONSTANT n \in DOMAIN node, NEW CONSTANT v, NEW CONSTANT h, NEW CONSTANT C,
         Call(n, v, h, C), nScans' = nScans
  PROVE  TreeInv'
<1>1. /\ DOMAIN node' = DOMAIN node \cup C /\ node'[n] = v
      /\ \A m \in DOMAIN node \ {n} : node'[m] = node[m]
      /\ \A c \in C \ DOMAIN node : node'[c] = NewNode
  BY DEF Call, Handing
<1>2. IsFiniteSet(C) /\ (\A c \in C : ChildOf(c, n)) /\ (v.status # "PARENT" => C = {})
  BY DEF Call, HandsOver
<1>3. /\ NodeShape(v) /\ PointsOf(v.points, n)
      /\ v.status = "PARENT" => Layer(n) < MaxLayer
      /\ node[n].status = "PARENT" => v.status = "PARENT"
  BY DEF Call, Becomes
<1>4. IsFiniteSet(DOMAIN node')
  BY <1>1, <1>2, FS_Union DEF TreeInv
<1>5. ASSUME NEW CONSTANT m \in DOMAIN node'
      PROVE  NodeShape(node'[m]) /\ PointsUpTo(node'[m].points, m, nScans')
  <2>1. CASE m = n
    BY <1>1, <1>3, <2>1 DEF PointsOf
  <2>2. CASE m \in DOMAIN node \ {n}
    BY <1>1, <2>2 DEF TreeInv, PointsOf
  <2>3. CASE m \notin DOMAIN node
    BY <1>1, <1>5, <2>3, NewNodeShape
  <2> QED  BY <2>1, <2>2, <2>3
<1>6. ASSUME NEW CONSTANT m \in DOMAIN node, node[m].status = "PARENT" PROVE node'[m].status = "PARENT"
  BY <1>1, <1>3, <1>6
<1>7. ASSUME NEW CONSTANT m \in DOMAIN node' PROVE Rooted(m)'
  <2>1. m \in Nodes
    BY <1>1, <1>2, <1>7 DEF TreeInv, Rooted, ChildOf
  <2>2. ASSUME NEW k \in Nodes, IsPrefix(k, m), k # m PROVE k \in DOMAIN node' /\ node'[k].status = "PARENT"
    <3>1. CASE m \in DOMAIN node
      BY <1>1, <1>6, <2>2, <3>1 DEF TreeInv, Rooted
    <3>2. CASE m \notin DOMAIN node /\ k = n
      BY <1>1, <1>2, <1>7, <3>2
    <3>3. CASE m \notin DOMAIN node /\ k # n
      <4>1. IsPrefix(k, n)
        BY <1>1, <1>2, <1>7, <2>2, <3>3 DEF ChildOf
      <4> QED  BY <1>1, <1>6, <2>2, <3>3, <4>1 DEF TreeInv, Rooted
    <3> QED  BY <3>1, <3>2, <3>3
  <2>3. ASSUME node'[m].status = "PARENT" PROVE Layer(m) < MaxLayer
    <3>1. CASE m = n
      BY <1>1, <1>3, <2>3, <3>1
    <3>2. CASE m \in DOMAIN node \ {n}
      BY <1>1, <2>3, <3>2 DEF TreeInv, Rooted
    <3>3. CASE m \notin DOMAIN node
      BY <1>1, <1>7, <2>3, <3>3, NewNodeShape
    <3> QED  BY <3>1, <3>2, <3>3
  <2> QED  BY <2>1, <2>2, <2>3 DEF Rooted
<1> QED  BY <1>4, <1>5, <1>7 DEF TreeInv, PointsOf

(* Two nodes' histories have no point in common.                           *)
LEMMA HistoriesApart ==
  ASSUME TreeInv, NEW m \in DOMAIN node, NEW n \in DOMAIN node, m # n
  PROVE  DOMAIN node[m].points \cap DOMAIN node[n].points = {}
<1>1. /\ Rooted(m) /\ NodeShape(node[m]) /\ PointsOf(node[m].points, m)
      /\ Rooted(n) /\ NodeShape(node[n]) /\ PointsOf(node[n].points, n)
  BY DEF TreeInv
<1>2. m \in Nodes /\ n \in Nodes
  BY <1>1 DEF Rooted
<1>3. ASSUME NEW p \in DOMAIN node[m].points, p \in DOMAIN node[n].points PROVE FALSE
  <2>1. IsPrefix(m, p.pos) /\ IsPrefix(n, p.pos) /\ p.pos \in Positions
    BY <1>1, <1>3 DEF PointsOf, PointsUpTo, In, Points
  <2>2. IsPrefix(m, n) \/ IsPrefix(n, m)
    BY <1>2, <2>1, PrefixOrder
  <2>3. node[m].status = "PARENT" \/ node[n].status = "PARENT"
    BY <1>1, <1>2, <2>2 DEF Rooted
  <2>4. node[m].points = EmptyBag \/ node[n].points = EmptyBag
    BY <1>1, <2>3 DEF NodeShape
  <2> QED  BY <1>3, <2>4, NoPoints
<1> QED  BY <1>3

(* A call reaches only what is below its node.                             *)
LEMMA CallsBelow ==
  ASSUME TreeInv, CallsInv, NEW n \in DOMAIN inbox, NEW C, \A c \in C : ChildOf(c, n)
  PROVE  /\ n \in Nodes /\ DOMAIN inbox \subseteq Nodes /\ C \subseteq Nodes
         /\ \A m \in DOMAIN inbox \ {n} : ~IsPrefix(m, n) /\ ~IsPrefix(n, m)
         /\ \A c \in C : ~IsPrefix(c, n) /\ \A m \in DOMAIN inbox \ {n} : ~IsPrefix(c, m) /\ ~IsPrefix(m, c)
         /\ \A c, d \in C : IsPrefix(c, d) => c = d
         /\ \A c \in C, m \in Nodes : IsPrefix(c, m) => IsPrefix(n, m)
<1>1. n \in Nodes /\ DOMAIN inbox \subseteq Nodes /\ C \subseteq Nodes
  BY DEF TreeInv, CallsInv, Rooted, ChildOf
<1>2. \A m \in DOMAIN inbox \ {n} : ~IsPrefix(m, n) /\ ~IsPrefix(n, m)
  BY DEF CallsInv
<1>3. ASSUME NEW c \in C PROVE ~IsPrefix(c, n)
  BY <1>1, PrefixOrder DEF ChildOf
<1>4. ASSUME NEW c \in C, NEW m \in Nodes, IsPrefix(c, m) PROVE IsPrefix(n, m)
  BY <1>1, <1>4, PrefixOrder DEF ChildOf
<1>5. ASSUME NEW c \in C, NEW m \in DOMAIN inbox \ {n} PROVE ~IsPrefix(c, m) /\ ~IsPrefix(m, c)
  <2>1. m \in Nodes /\ m \notin {n}
    BY <1>1
  <2>2. ~IsPrefix(c, m)
    BY <1>2, <1>4, <2>1
  <2>3. ASSUME IsPrefix(m, c) PROVE FALSE
    <3>1. m = c \/ IsPrefix(m, n)
      BY <2>1, <2>3 DEF ChildOf
    <3>2. m = c
      BY <1>2, <3>1
    <3> QED  BY <1>1, <2>2, <3>2, PrefixOrder
  <2> QED  BY <2>2, <2>3
<1>6. ASSUME NEW c \in C, NEW d \in C, IsPrefix(c, d) PROVE c = d
  BY <1>1, <1>3, <1>6 DEF ChildOf
<1> QED  BY <1>1, <1>2, <1>3, <1>4, <1>5, <1>6

(* Then of the calls.                                                      *)
LEMMA CallsKept ==
  ASSUME TreeInv, CallsInv, NEW CONSTANT n \in DOMAIN inbox, NEW CONSTANT v, NEW CONSTANT h,
         NEW CONSTANT C, Call(n, v, h, C), nScans' = nScans, stage' = stage
  PROVE  CallsInv'
<1>1. /\ DOMAIN node' = DOMAIN node \cup C /\ node'[n] = v
      /\ \A m \in DOMAIN node \ {n} : node'[m] = node[m]
      /\ \A c \in C \ DOMAIN node : node'[c] = NewNode
      /\ DOMAIN inbox' = (DOMAIN inbox \ {n}) \cup C
      /\ \A c \in C : inbox'[c] = InNode(h, c)
      /\ \A m \in DOMAIN inbox \ ({n} \cup C) : inbox'[m] = inbox[m]
  BY DEF Call, Handing
<1>2. /\ \A c \in C : ChildOf(c, n)
      /\ v.status # "PARENT" => C = {}
      /\ v.status = "PARENT" => PointsUpTo(h, n, nScans)
      /\ DOMAIN h \cup DOMAIN v.points \subseteq DOMAIN inbox[n] \cup DOMAIN node[n].points
  BY DEF Call, HandsOver, PointsOf
<1>3. n \in DOMAIN node /\ NodeShape(v)
  BY DEF CallsInv, Call, Becomes
<1>4. /\ n \in Nodes /\ DOMAIN inbox \subseteq Nodes /\ C \subseteq Nodes
      /\ \A m \in DOMAIN inbox \ {n} : ~IsPrefix(m, n) /\ ~IsPrefix(n, m)
      /\ \A c \in C : ~IsPrefix(c, n) /\ \A m \in DOMAIN inbox \ {n} : ~IsPrefix(c, m) /\ ~IsPrefix(m, c)
      /\ \A c, d \in C : IsPrefix(c, d) => c = d
  BY <1>2, CallsBelow
<1>5. \A m \in DOMAIN inbox \ {n} : m \notin C /\ inbox'[m] = inbox[m]
  BY <1>1, <1>4, PrefixOrder
<1>6. DOMAIN inbox' \subseteq DOMAIN node'
  BY <1>1 DEF CallsInv
<1>7. ASSUME NEW c \in C
      PROVE  /\ PointsUpTo(inbox'[c], c, nScans) /\ DOMAIN inbox'[c] \subseteq DOMAIN h
             /\ v.points = EmptyBag
  <2>1. v.status = "PARENT" /\ PointsUpTo(h, n, nScans) /\ OneEach(h) /\ IsFiniteSet(DOMAIN h)
    BY <1>2, <1>7 DEF PointsUpTo
  <2>2. DOMAIN InNode(h, c) = {p \in DOMAIN h : In(p, c)} /\ OneEach(InNode(h, c))
    BY <2>1, InNodeFacts
  <2>3. IsFiniteSet(DOMAIN InNode(h, c))
    <3>1. DOMAIN InNode(h, c) \subseteq DOMAIN h
      BY <2>2
    <3> QED  BY <2>1, <3>1, FS_Subset
  <2>4. PointsUpTo(InNode(h, c), c, nScans)
    BY <2>1, <2>2, <2>3 DEF PointsUpTo
  <2> QED  BY <1>1, <1>3, <2>1, <2>2, <2>4 DEF NodeShape
<1>8. ASSUME NEW k \in DOMAIN inbox' PROVE PointsUpTo(inbox'[k], k, nScans)
  BY <1>1, <1>5, <1>7 DEF CallsInv, PointsOf
<1>9. ASSUME NEW k \in DOMAIN inbox', NEW m \in DOMAIN inbox', IsPrefix(k, m) PROVE k = m
  <2>1. CASE k \in C /\ m \in C
    BY <1>4, <1>9, <2>1
  <2>2. CASE k \in DOMAIN inbox \ {n} /\ m \in DOMAIN inbox \ {n}
    BY <1>9, <2>2 DEF CallsInv
  <2> QED  BY <1>1, <1>4, <1>9, <2>1, <2>2
<1>10. ASSUME NEW k \in DOMAIN inbox', NEW m \in DOMAIN node'
       PROVE  DOMAIN inbox'[k] \cap DOMAIN node'[m].points = {}
  <2>1. CASE m \notin DOMAIN node
    <3>1. node'[m] = NewNode
      BY <1>1, <1>10, <2>1
    <3> QED  BY <3>1, NewNodeShape
  <2>2. CASE k \in C /\ m = n
    BY <1>1, <1>7, <2>2, NoPoints
  <2>3. CASE k \in C /\ m \in DOMAIN node \ {n}
    <3>1. /\ DOMAIN inbox[n] \cap DOMAIN node[m].points = {}
          /\ DOMAIN node[n].points \cap DOMAIN node[m].points = {}
      BY <1>3, <2>3, HistoriesApart DEF CallsInv
    <3> QED  BY <1>1, <1>2, <1>7, <2>3, <3>1
  <2>4. CASE k \in DOMAIN inbox \ {n} /\ m \in DOMAIN node \ {n}
    BY <1>1, <1>5, <2>4 DEF CallsInv
  <2>5. CASE k \in DOMAIN inbox \ {n} /\ m = n
    <3>1. DOMAIN inbox[k] \cap DOMAIN node[n].points = {}
      BY <1>3, <2>5 DEF CallsInv
    <3>2. ASSUME NEW p \in DOMAIN inbox[k], p \in DOMAIN inbox[n] PROVE FALSE
      <4>1. IsPrefix(k, p.pos) /\ IsPrefix(n, p.pos) /\ p.pos \in Positions
        BY <2>5, <3>2 DEF CallsInv, PointsOf, PointsUpTo, In, Points
      <4> QED  BY <1>4, <2>5, <4>1, PrefixOrder
    <3> QED  BY <1>1, <1>2, <1>5, <2>5, <3>1, <3>2
  <2> QED  BY <1>1, <1>10, <2>1, <2>2, <2>3, <2>4, <2>5
<1>11. stage' = "insert"
  BY DEF CallsInv
<1> QED  BY <1>6, <1>8, <1>9, <1>10, <1>11 DEF CallsInv, PointsOf

(* Then of the points of the last scan.                                    *)
LEMMA SettledKept ==
  ASSUME TreeInv, CallsInv, SettledInv, NEW CONSTANT n \in DOMAIN inbox, NEW CONSTANT v,
         NEW CONSTANT h, NEW CONSTANT C, Call(n, v, h, C), scan' = scan
  PROVE  SettledInv'
<1>1. /\ DOMAIN node' = DOMAIN node \cup C /\ node'[n] = v
      /\ \A m \in DOMAIN node \ {n} : node'[m] = node[m]
      /\ DOMAIN inbox' = (DOMAIN inbox \ {n}) \cup C
      /\ \A c \in C : inbox'[c] = InNode(h, c)
      /\ \A m \in DOMAIN inbox \ ({n} \cup C) : inbox'[m] = inbox[m]
  BY DEF Call, Handing
<1>2. /\ \A c \in C : ChildOf(c, n)
      /\ v.status # "PARENT" => C = {}
      /\ v.status = "PARENT" => /\ OneEach(h) /\ DOMAIN inbox[n] \subseteq DOMAIN h
                                /\ \A p \in DOMAIN h : \E c \in C : In(p, c)
      /\ v.status = "OPEN" =>
           \A p \in DOMAIN inbox[n] :
             /\ Bin(n, p) \in v.bins
             /\ p \in DOMAIN v.points \/ ~(BagCardinality(v.points) < MaxPoints)
  BY DEF Call, HandsOver, PointsOf, PointsUpTo
<1>3. n \in DOMAIN node
  BY DEF CallsInv
<1>4. /\ n \in Nodes /\ DOMAIN inbox \subseteq Nodes /\ C \subseteq Nodes
      /\ \A m \in DOMAIN inbox \ {n} : ~IsPrefix(m, n) /\ ~IsPrefix(n, m)
      /\ \A c \in C : \A m \in DOMAIN inbox \ {n} : ~IsPrefix(c, m) /\ ~IsPrefix(m, c)
      /\ \A c \in C, m \in Nodes : IsPrefix(c, m) => IsPrefix(n, m)
  BY <1>2, CallsBelow
<1>5. ASSUME NEW CONSTANT p \in DOMAIN scan
      PROVE  \/ \E m \in DOMAIN inbox' : p \in DOMAIN inbox'[m]
             \/ \E m \in DOMAIN node' : SettledAt(m, p)'
  <2>1. CASE \E k \in DOMAIN inbox \ {n} : p \in DOMAIN inbox[k]
    <3>1. PICK k \in DOMAIN inbox \ {n} : p \in DOMAIN inbox[k]
      BY <2>1
    <3>2. k \notin C
      BY <1>4, PrefixOrder
    <3> QED  BY <1>1, <3>1, <3>2
  <2>2. CASE p \in DOMAIN inbox[n] /\ v.status = "PARENT"
    <3>1. PICK c \in C : In(p, c) /\ p \in DOMAIN h
      BY <1>2, <2>2
    <3>2. p \in DOMAIN InNode(h, c)
      BY <1>2, <2>2, <3>1, InNodeFacts
    <3> QED  BY <1>1, <3>1, <3>2
  <2>3. CASE p \in DOMAIN inbox[n] /\ v.status # "PARENT"
    <3>1. In(p, n)
      BY <2>3 DEF CallsInv, PointsOf, PointsUpTo
    <3>2. Passed(n)'
      BY <1>1, <1>2, <1>4, <2>3 DEF Passed
    <3>3. SettledAt(n, p)'
      BY <1>1, <1>2, <2>3, <3>1, <3>2 DEF SettledAt
    <3> QED  BY <1>1, <1>3, <3>3
  <2>4. CASE \E m \in DOMAIN node : SettledAt(m, p)
    <3>1. PICK m \in DOMAIN node : SettledAt(m, p)
      BY <2>4
    <3>2. m \in Nodes /\ Passed(m) /\ m # n
      BY <1>4, <3>1, PrefixOrder DEF SettledAt, TreeInv, Rooted, Passed
    <3>3. node'[m] = node[m] /\ m \in DOMAIN node'
      BY <1>1, <3>2
    <3>4. Passed(m)'
      BY <1>1, <1>4, <3>2 DEF Passed
    <3>5. SettledAt(m, p)'
      BY <3>1, <3>3, <3>4 DEF SettledAt
    <3> QED  BY <3>3, <3>5
  <2> QED  BY <2>1, <2>2, <2>3, <2>4 DEF SettledInv
<1> QED  BY <1>5 DEF SettledInv

(* A call changes what there is to show of its own node only, and reports  *)
(* it if it does.                                                          *)
LEMMA ShownSame ==
  ASSUME TreeInv, CallsInv, NEW CONSTANT n \in DOMAIN inbox, NEW CONSTANT v,
         NEW CONSTANT h, NEW CONSTANT C, Call(n, v, h, C)
  PROVE  /\ Ids \subseteq Ids' /\ \A m \in Ids' : m \in Ids \/ m = n
         /\ \A m : m # n \/ n \notin Ids' => (Live(m)' <=> Live(m)) /\ (Full(m)' <=> Full(m))
<1>1. /\ DOMAIN node' = DOMAIN node \cup C /\ node'[n] = v
      /\ \A m \in DOMAIN node \ {n} : node'[m] = node[m]
      /\ \A c \in C \ DOMAIN node : node'[c] = NewNode
  BY DEF Call, Handing
<1>2. n \in DOMAIN node
  BY DEF CallsInv
<1>3. Unreported(n, v) \/ \E u : updates' = updates \cup {u} /\ u.id = n
  BY DEF Call, Reported, Rightly
<1>4. Ids \subseteq Ids' /\ \A m \in Ids' : m \in Ids \/ m = n
  BY <1>3 DEF Ids, Unreported
<1>5. n \notin Ids' => Unreported(n, v)
  BY <1>3 DEF Ids
<1>6. ASSUME NEW CONSTANT m, m # n \/ n \notin Ids' PROVE (Live(m)' <=> Live(m)) /\ (Full(m)' <=> Full(m))
  <2>1. CASE m = n
    <3>1. LivePlane(v) <=> LivePlane(node[n])
      BY <1>5, <1>6, <2>1 DEF Unreported
    <3>2. LivePlane(v) => (IsFull(v) <=> IsFull(node[n]))
      BY <1>5, <1>6, <2>1 DEF Unreported, IsFull
    <3> QED  BY <1>1, <1>2, <2>1, <3>1, <3>2 DEF Live, Full
  <2>2. CASE m \in DOMAIN node \ {n}
    BY <1>1, <2>2 DEF Live, Full
  <2>3. CASE m \notin DOMAIN node
    <3>1. m \in DOMAIN node' => ~LivePlane(node'[m])
      BY <1>1, <2>3, NewNodeShape
    <3> QED  BY <2>3, <3>1 DEF Live, Full
  <2> QED  BY <2>1, <2>2, <2>3
<1> QED  BY <1>4, <1>6

(* Then of the reports.                                                    *)
LEMMA ReportsKept ==
  ASSUME TreeInv, CallsInv, ReportsInv, NEW CONSTANT n \in DOMAIN inbox, NEW CONSTANT v,
         NEW CONSTANT h, NEW CONSTANT C, Call(n, v, h, C), stage' = stage
  PROVE  ReportsInv'
<1>1. /\ DOMAIN node' = DOMAIN node \cup C /\ node'[n] = v
      /\ DOMAIN inbox' = (DOMAIN inbox \ {n}) \cup C
  BY DEF Call, Handing
<1>2. \A c \in C : ChildOf(c, n)
  BY DEF Call, HandsOver
<1>3. n \in DOMAIN node
  BY DEF CallsInv
<1>4. /\ n \in Nodes /\ DOMAIN inbox \subseteq Nodes /\ C \subseteq Nodes
      /\ \A m \in DOMAIN inbox \ {n} : ~IsPrefix(m, n)
      /\ \A c \in C : ~IsPrefix(c, n)
      /\ \A c \in C, m \in Nodes : IsPrefix(c, m) => IsPrefix(n, m)
  BY <1>2, CallsBelow
<1>5. Passed(n)'
  BY <1>1, <1>4 DEF Passed
<1>6. ASSUME NEW CONSTANT u \in updates
      PROVE  /\ u.id \in DOMAIN node' /\ Passed(u.id)'
             /\ u.deleted <=> ~Live(u.id)'
             /\ Live(u.id)' => (u.conv <=> Full(u.id)')
  <2>1. PICK m : m = u.id
    OBVIOUS
  <2>2. /\ m \in DOMAIN node /\ Passed(m) /\ (u.deleted <=> ~Live(m))
        /\ Live(m) => (u.conv <=> Full(m))
    BY <2>1 DEF ReportsInv
  <2>3. m \in Nodes /\ m # n
    BY <1>4, <2>2, PrefixOrder DEF TreeInv, Rooted, Passed
  <2>4. Passed(m)'
    BY <1>1, <1>4, <2>2, <2>3 DEF Passed
  <2>5. (Live(m)' <=> Live(m)) /\ (Full(m)' <=> Full(m))
    BY <2>3, ShownSame
  <2> QED  BY <1>1, <2>1, <2>2, <2>4, <2>5
<1>7. ASSUME NEW CONSTANT u, Rightly(u, n, v)
      PROVE  /\ u.id \in DOMAIN node' /\ Passed(u.id)'
             /\ u.deleted <=> ~Live(u.id)'
             /\ Live(u.id)' => (u.conv <=> Full(u.id)')
  <2>1. u.id = n /\ (u.deleted <=> ~LivePlane(v)) /\ (LivePlane(v) => (u.conv <=> IsFull(v)))
    BY <1>7 DEF Rightly
  <2>2. (Live(n)' <=> LivePlane(v)) /\ (Full(n)' <=> LivePlane(v) /\ IsFull(v))
    BY <1>1, <1>3 DEF Live, Full
  <2> QED  BY <1>1, <1>3, <1>5, <2>1, <2>2
<1>8. \/ updates' = updates
      \/ \E u : updates' = updates \cup {u} /\ Rightly(u, n, v)
  BY DEF Call, Reported, Unreported
<1>9. stage' = "insert"
  BY DEF CallsInv
<1> QED  BY <1>6, <1>7, <1>8, <1>9 DEF ReportsInv

(* Then of what is drawn and of what waits to be redrawn.                  *)
LEMMA DrawnKept ==
  ASSUME TreeInv, CallsInv, DirtyInv, PatchesInv, NEW CONSTANT n \in DOMAIN inbox, NEW CONSTANT v,
         NEW CONSTANT h, NEW CONSTANT C, Call(n, v, h, C), UNCHANGED vizVars
  PROVE  DirtyInv' /\ PatchesInv'
<1>1. DOMAIN node \subseteq DOMAIN node'
  BY DEF Call, Handing
<1>2. /\ Ids \subseteq Ids'
      /\ \A m : m # n \/ n \notin Ids' => (Live(m)' <=> Live(m)) /\ (Full(m)' <=> Full(m))
  BY ShownSame
<1>3. vizDirty' = vizDirty /\ vizCache' = vizCache /\ discs' = discs /\ dots' = dots
  BY DEF vizVars
<1>4. ASSUME NEW CONSTANT m, m \notin Ids'
      PROVE  m \notin Ids /\ (Live(m)' <=> Live(m)) /\ (Full(m)' <=> Full(m))
  BY <1>2, <1>4
<1>5. DirtyInv'
  BY <1>1, <1>3, <1>4 DEF DirtyInv
<1>6. PatchesInv'
  BY <1>3, <1>4 DEF PatchesInv
<1> QED  BY <1>5, <1>6

(* Last, of the census.  One member of a finite set is counted anew, and   *)
(* newcomers are added.                                                    *)
LEMMA Recount ==
  ASSUME NEW T, NEW U, NEW F, NEW n, IsFiniteSet(T), IsFiniteSet(F), F \cap T = {}, n \notin F,
         U \ {n} = (T \ {n}) \cup F
  PROVE  /\ IsFiniteSet(U)
         /\ Cardinality(U) = Cardinality(T) + ((One(n \in U) - One(n \in T)) + Cardinality(F))
<1> DEFINE W == U \ {n}
           S == T \ {n}
<1>1. IsFiniteSet(S) /\ Cardinality(T) \in Nat /\ Cardinality(F) \in Nat
      /\ Cardinality(S) = Cardinality(T) - One(n \in T)
  BY FS_RemoveElement, FS_CardinalityType DEF One
<1>2. IsFiniteSet(W) /\ Cardinality(W) = Cardinality(S) + Cardinality(F)
  <2>1. S \cap F = {} /\ W = S \cup F
    OBVIOUS
  <2>2. /\ IsFiniteSet(S \cup F)
        /\ Cardinality(S \cup F) = Cardinality(S) + Cardinality(F) - Cardinality(S \cap F)
    BY <1>1, FS_Union
  <2>3. Cardinality(S \cap F) = 0
    BY <2>1, FS_EmptySet
  <2>4. Cardinality(S) \in Nat
    BY <1>1, FS_CardinalityType
  <2> HIDE DEF S, W
  <2> QED  BY <1>1, <2>1, <2>2, <2>3, <2>4
<1>3. IsFiniteSet(U) /\ Cardinality(U) = Cardinality(W) + One(n \in U)
  <2>1. Cardinality(W) \in Nat
    BY <1>2, FS_CardinalityType
  <2>2. CASE n \in U
    <3>1. U = W \cup {n} /\ n \notin W
      BY <2>2
    <3> HIDE DEF W
    <3> QED  BY <1>2, <2>2, <3>1, FS_AddElement DEF One
  <2>3. CASE n \notin U
    <3>1. U = W
      BY <2>3
    <3> HIDE DEF W
    <3> QED  BY <1>2, <2>1, <2>3, <3>1 DEF One
  <2> QED  BY <2>2, <2>3
<1>4. One(n \in U) \in {0, 1} /\ One(n \in T) \in {0, 1}
  BY DEF One
<1> HIDE DEF W, S
<1> QED  BY <1>1, <1>2, <1>3, <1>4

(* The counters, status by status.                                         *)
LEMMA CensusKept ==
  ASSUME TreeInv, CallsInv, CensusInv, NEW CONSTANT n \in DOMAIN inbox, NEW CONSTANT v,
         NEW CONSTANT h, NEW CONSTANT C, Call(n, v, h, C)
  PROVE  CensusInv'
<1>1. /\ DOMAIN node' = DOMAIN node \cup C /\ node'[n] = v
      /\ \A m \in DOMAIN node \ {n} : node'[m] = node[m]
      /\ \A c \in C \ DOMAIN node : node'[c] = NewNode
  BY DEF Call, Handing
<1>2. n \in DOMAIN node /\ IsFiniteSet(DOMAIN node) /\ IsFiniteSet(C)
  BY DEF CallsInv, TreeInv, Call, HandsOver
<1>3. PICK F : F = C \ DOMAIN node
  OBVIOUS
<1>4. /\ IsFiniteSet(F) /\ n \notin F /\ IsFiniteSet({}) /\ Cardinality({}) = 0
      /\ \A c \in F : c \in DOMAIN node' /\ c \notin DOMAIN node /\ node'[c] = NewNode
      /\ \A m \in DOMAIN node' : m \in DOMAIN node \/ m \in F
  BY <1>1, <1>2, <1>3, FS_Difference, FS_EmptySet
<1>5. stats' = [s \in Counters |-> stats[s] + Change(s, n, v, C)]
  BY DEF Call, Counted
<1>6. ASSUME NEW CONSTANT s \in Statuses
      PROVE  stats'[s] = Cardinality({m \in DOMAIN node' : node'[m].status = s})
  <2> DEFINE T == {m \in DOMAIN node : node[m].status = s}
             U == {m \in DOMAIN node' : node'[m].status = s}
             G == IF s = "OPEN" THEN F ELSE {}
  <2>1. IsFiniteSet(T)
    BY <1>2, FS_Subset
  <2>2. IsFiniteSet(G) /\ G \cap T = {} /\ n \notin G
    BY <1>4
  <2>3. U \ {n} = (T \ {n}) \cup G
    <3>1. \A c \in F : node'[c].status = "OPEN"
      BY <1>4, NewNodeShape
    <3>2. ASSUME NEW m \in U, m # n PROVE m \in (T \ {n}) \cup G
      BY <1>1, <1>4, <3>1, <3>2
    <3>3. ASSUME NEW m \in T, m # n PROVE m \in U
      BY <1>1, <3>3
    <3>4. ASSUME NEW m \in G PROVE m \in U /\ m # n
      BY <1>1, <1>4, <3>1, <3>4
    <3> QED  BY <3>2, <3>3, <3>4
  <2>4. (n \in U <=> v.status = s) /\ (n \in T <=> node[n].status = s)
    BY <1>1, <1>2
  <2>5. stats[s] = Cardinality(T)
    BY DEF CensusInv, StatsAreCensus
  <2>6. Change(s, n, v, C) = (One(n \in U) - One(n \in T)) + Cardinality(G)
    <3>1. s # "planes"
      BY DEF Statuses
    <3>2. Cardinality(G) = IF s = "OPEN" THEN Cardinality(C \ DOMAIN node) ELSE 0
      BY <1>3, <1>4
    <3>3. One(n \in U) = One(v.status = s) /\ One(n \in T) = One(node[n].status = s)
      BY <2>4 DEF One
    <3> QED  BY <3>1, <3>2, <3>3 DEF Change
  <2> HIDE DEF T, U, G
  <2>7. Cardinality(U) = Cardinality(T) + ((One(n \in U) - One(n \in T)) + Cardinality(G))
    BY <2>1, <2>2, <2>3, Recount
  <2>8. stats'[s] = stats[s] + Change(s, n, v, C)
    BY <1>5 DEF Counters
  <2>9. stats'[s] = Cardinality(U)
    BY <2>5, <2>6, <2>7, <2>8
  <2> QED  BY <2>9 DEF U
<1>7. stats'["planes"] = Cardinality({m \in DOMAIN node' : LivePlane(node'[m])})
  <2> DEFINE T == {m \in DOMAIN node : LivePlane(node[m])}
             U == {m \in DOMAIN node' : LivePlane(node'[m])}
  <2>1. IsFiniteSet(T)
    BY <1>2, FS_Subset
  <2>2. U \ {n} = T \ {n}
    <3>1. \A c \in F : ~LivePlane(node'[c])
      BY <1>4, NewNodeShape
    <3>2. ASSUME NEW m \in U, m # n PROVE m \in T
      BY <1>1, <1>4, <3>1, <3>2
    <3>3. ASSUME NEW m \in T, m # n PROVE m \in U
      BY <1>1, <3>3
    <3> QED  BY <3>2, <3>3
  <2>3. (n \in U <=> LivePlane(v)) /\ (n \in T <=> LivePlane(node[n]))
    BY <1>1, <1>2
  <2>4. stats["planes"] = Cardinality(T)
    BY DEF CensusInv, StatsAreCensus
  <2>5. Change("planes", n, v, C) = One(n \in U) - One(n \in T)
    BY <2>3 DEF Change, One
  <2> HIDE DEF T, U
  <2>6. Cardinality(U) = Cardinality(T) + ((One(n \in U) - One(n \in T)) + Cardinality({}))
    <3>1. U \ {n} = (T \ {n}) \cup {} /\ {} \cap T = {} /\ n \notin {}
      BY <2>2
    <3> QED  BY <1>4, <2>1, <3>1, Recount
  <2>7. One(n \in U) - One(n \in T) \in Int
    BY DEF One
  <2>8. stats'["planes"] = stats["planes"] + Change("planes", n, v, C)
    BY <1>5 DEF Counters
  <2>9. stats'["planes"] = Cardinality(U)
    <3>1. PICK d \in Int : d = One(n \in U) - One(n \in T)
      BY <2>7
    <3> QED  BY <1>4, <2>4, <2>5, <2>6, <2>8, <3>1
  <2> QED  BY <2>9 DEF U
<1>8. stats' = [s \in Counters |-> stats'[s]]
  BY <1>5
<1> QED  BY <1>6, <1>7, <1>8 DEF CensusInv, StatsAreCensus

(* A call of insertPoints, whatever it does.                               *)
LEMMA InsertKeeps ==
  ASSUME MapInv, NEW CONSTANT n \in DOMAIN inbox, InsertPoints(n)
  PROVE  MapInv'
<1>0. /\ ControlInv /\ TreeInv /\ CallsInv /\ BucketsInv /\ SettledInv
      /\ CensusInv /\ ReportsInv /\ DirtyInv /\ PatchesInv
  BY DEF MapInv
<1>1. PICK v, h, C : Call(n, v, h, C)
  BY <1>0, CallForm
<1>2. /\ stage' = stage /\ UNCHANGED vizVars /\ UNCHANGED scanVars
      /\ nScans' = nScans /\ scan' = scan
  BY DEF InsertPoints, scanVars
<1>3. n \in DOMAIN node
  BY <1>0 DEF CallsInv
<1>4. TreeInv' /\ CallsInv' /\ SettledInv'
  BY <1>0, <1>1, <1>2, <1>3, TreeKept, CallsKept, SettledKept
<1>5. CensusInv' /\ ReportsInv' /\ DirtyInv' /\ PatchesInv'
  BY <1>0, <1>1, <1>2, CensusKept, ReportsKept, DrawnKept
<1>6. ControlInv' /\ BucketsInv'
  BY <1>0, <1>2 DEF ControlInv, BucketsInv, scanVars
<1> QED  BY <1>4, <1>5, <1>6 DEF MapInv

------------------------------------------------------------------------------
(* The start of an insertion.  The root of a position is a node with       *)
(* nothing above it.                                                       *)
LEMMA RootFacts ==
  ASSUME NEW r \in Roots, NEW p \in Positions, IsPrefix(<<r>>, p)
  PROVE  /\ <<r>> \in Nodes /\ <<r>> = SubSeq(p, 1, 1)
         /\ \A m \in Nodes : IsPrefix(m, <<r>>) => m = <<r>>
<1>1. p \in Seq(Sites) /\ Len(p) = MaxLayer + 2 /\ MaxLayer \in Nat
  BY PositionFacts, VoxelAssumption
<1>2. PICK n \in Seq(Sites) : n = <<r>> /\ Len(n) = 1
  BY DEF Sites
<1>3. SubSeq(n, 1, 1) = n
  BY <1>2, SubSeqFull
<1>4. n = SubSeq(p, 1, 1)
  BY <1>2, <1>3 DEF IsPrefix
<1>5. n \in Nodes
  <2>1. 1 \in 1..(MaxLayer + 1)
    BY <1>1
  <2> QED  BY <1>4, <2>1, PrefixNode
<1>6. ASSUME NEW m \in Nodes, IsPrefix(m, n) PROVE m = n
  <2>1. m \in Seq(Sites) /\ Len(m) \in 1..(MaxLayer + 1)
    BY NodeFacts
  <2>2. Len(m) <= Len(n) /\ \A i \in 1..Len(m) : m[i] = n[i]
    BY <1>2, <1>6, <2>1, PrefixIs
  <2>3. Len(m) = Len(n)
    BY <1>1, <1>2, <2>1, <2>2
  <2> QED  BY <1>2, <2>1, <2>2, <2>3, SeqEqual
<1> QED  BY <1>2, <1>4, <1>5, <1>6

(* Every position has a root.                                              *)
LEMMA RootOf ==
  ASSUME NEW p \in Positions
  PROVE  \E r \in Roots : IsPrefix(<<r>>, p)
<1> DEFINE path(r, k, c) == <<r>> \o k \o <<c>>
<1>0. Positions = {path(r, k, c) : r \in Roots, k \in [1..MaxLayer -> Octants], c \in Cells}
  BY DEF Positions
<1> HIDE DEF path
<1>1. PICK r \in Roots, k \in [1..MaxLayer -> Octants], c \in Cells : p = path(r, k, c)
  BY <1>0
<1> USE DEF path
<1>2. MaxLayer \in Nat
  BY VoxelAssumption
<1>3. <<r>> \in Seq(Sites) /\ Len(<<r>>) = 1 /\ <<r>>[1] = r
      /\ <<c>> \in Seq(Sites) /\ Len(<<c>>) = 1
  BY DEF Sites
<1>4. k \in Seq(Sites) /\ Len(k) = MaxLayer
  <2>1. k \in [1..MaxLayer -> Sites]
    BY DEF Sites
  <2> QED  BY <1>2, <2>1
<1>5. PICK a \in Seq(Sites), z \in Seq(Sites) : a = <<r>> /\ z = <<c>>
  BY <1>3
<1>6. /\ (a \o k) \in Seq(Sites) /\ Len(a \o k) = MaxLayer + 1 /\ (a \o k)[1] = r
  <2>1. 1 \in 1..(Len(a) + Len(k)) /\ 1 <= Len(a)
    BY <1>2, <1>3, <1>4, <1>5
  <2> QED  BY <1>2, <1>3, <1>4, <1>5, <2>1, ConcatProperties
<1>7. PICK y \in Seq(Sites) : y = a \o k
  BY <1>6
<1>8. (y \o z)[1] = r
  <2>1. 1 \in 1..(Len(y) + Len(z)) /\ 1 <= Len(y)
    BY <1>2, <1>3, <1>5, <1>6, <1>7
  <2> QED  BY <1>6, <1>7, <2>1, ConcatProperties
<1>9. p = y \o z
  BY <1>1, <1>5, <1>7
<1>10. p \in Seq(Sites) /\ Len(p) = MaxLayer + 2 /\ p[1] = r
  <2>1. p[1] = r
    BY <1>8, <1>9
  <2> QED  BY <2>1, PositionFacts
<1> HIDE DEF path
<1>11. IsPrefix(a, p)
  <2>1. a \in Seq(Sites) /\ Len(a) = 1 /\ a[1] = r
    BY <1>3, <1>5
  <2>2. Len(a) <= Len(p) /\ \A i \in 1..Len(a) : a[i] = p[i]
    BY <1>2, <1>10, <2>1
  <2> QED  BY <1>10, <2>1, <2>2, PrefixIs
<1> QED  BY <1>5, <1>11

(* What FillBuckets does, from outside: roots F are created, and a call is *)
(* made of every root that has points in the scan.                         *)
Filled(F) ==
  /\ IsFiniteSet(F) /\ F \cap DOMAIN node = {} /\ F \subseteq DOMAIN inbox'
  /\ DOMAIN node' = DOMAIN node \cup F /\ DOMAIN inbox' \subseteq DOMAIN node'
  /\ \A m \in DOMAIN node : node'[m] = node[m]
  /\ \A m \in F : node'[m] = NewNode
  /\ stats' = Count(stats, "OPEN", Cardinality(F))
  /\ \A m \in DOMAIN inbox' :
       /\ m \in Nodes /\ \A k \in Nodes : IsPrefix(k, m) => k = m
       /\ PointsUpTo(inbox'[m], m, nScans + 1) /\ \A p \in DOMAIN inbox'[m] : p.scan = nScans + 1
  /\ \A p \in DOMAIN scan' : \E m \in DOMAIN inbox' : p \in DOMAIN inbox'[m]

(* FillBuckets has that form, whatever the scan.                           *)
LEMMA FillForm ==
  ASSUME BucketsInv, nScans \in Nat, NEW cells \in Batches, NEW live, FillBuckets(cells, live)
  PROVE  (\E F : Filled(F)) /\ BucketsInv'
<1> DEFINE S    == {[pos |-> c, scan |-> nScans + 1] : c \in cells}
           pts  == SetToBag(S)
           new  == [r \in Roots |-> InNode(pts, <<r>>)]
           K    == activeKeys'
           tops == {<<r>> : r \in K}
           F    == tops \ DOMAIN node
<1>1. /\ scan' = pts
      /\ bucket' = [r \in Roots |-> ClearedBucket[r] (+) new[r]]
      /\ K = {r \in Roots : ClearedBucket[r] = EmptyBag /\ new[r] # EmptyBag}
      /\ node' = [n \in DOMAIN node \cup F |-> IF n \in F THEN NewNode ELSE node[n]]
      /\ stats' = Count(stats, "OPEN", Cardinality(F))
      /\ inbox' = [n \in tops |-> bucket'[n[1]]]
  BY Zenon DEF FillBuckets
<1>2. cells \subseteq Positions /\ IsFiniteSet(cells)
  BY DEF Batches
<1>3. /\ OneEach(pts) /\ DOMAIN pts = S
      /\ \A p \in S : p \in Points /\ p.scan = nScans + 1
  BY <1>2 DEF OneEach, SetToBag, Points
<1>4. IsFiniteSet(S)
  <2> DEFINE f == [c \in cells |-> [pos |-> c, scan |-> nScans + 1]]
  <2>1. S = {f[c] : c \in cells} /\ f = [c \in cells |-> f[c]]
    OBVIOUS
  <2> HIDE DEF S, f
  <2> QED  BY <1>2, <2>1, ImageFinite
<1> HIDE DEF S, pts
<1>5. ASSUME NEW r \in Roots
      PROVE  /\ OneEach(new[r]) /\ DOMAIN new[r] = {p \in S : In(p, <<r>>)}
             /\ PointsUpTo(new[r], <<r>>, nScans + 1)
             /\ (ClearedBucket[r] (+) new[r]) = new[r] /\ ClearedBucket[r] = EmptyBag
  <2>1. PICK w : w = InNode(pts, <<r>>)
    OBVIOUS
  <2>2. OneEach(w) /\ DOMAIN w = {p \in S : In(p, <<r>>)} /\ new[r] = w
    BY <1>3, <2>1, InNodeFacts
  <2>3. IsFiniteSet(DOMAIN w)
    <3>1. DOMAIN w \subseteq S
      BY <2>2
    <3> QED  BY <1>4, <3>1, FS_Subset
  <2>4. PointsUpTo(w, <<r>>, nScans + 1)
    BY <1>3, <2>2, <2>3 DEF PointsUpTo
  <2>5. ClearedBucket[r] = EmptyBag
    BY DEF ClearedBucket, BucketsInv
  <2>6. (EmptyBag (+) w) = w
    <3>1. PICK e : e = EmptyBag
      OBVIOUS
    <3>2. OneEach(e) /\ DOMAIN e = {} /\ DOMAIN e \cap DOMAIN w = {}
      BY <3>1, NoPoints
    <3>3. OneEach(e (+) w) /\ DOMAIN (e (+) w) = DOMAIN e \cup DOMAIN w
      BY <2>2, <3>2, PutTogether
    <3>4. PICK x : x = e (+) w
      OBVIOUS
    <3>5. x = w
      BY <2>2, <3>2, <3>3, <3>4 DEF OneEach
    <3> QED  BY <3>1, <3>4, <3>5
  <2> QED  BY <2>2, <2>4, <2>5, <2>6
<1>6. /\ K = {r \in Roots : new[r] # EmptyBag}
      /\ \A r \in Roots : bucket'[r] = new[r]
  BY <1>1, <1>5
<1>7. BucketsInv'
  BY <1>6 DEF BucketsInv
<1> HIDE DEF new
<1>8. \A r \in K : inbox'[<<r>>] = new[r]
  BY <1>1, <1>6
<1>9. ASSUME NEW r \in K
      PROVE  \E p \in S : p \in DOMAIN new[r] /\ p.pos \in Positions /\ IsPrefix(<<r>>, p.pos)
  <2>1. r \in Roots /\ new[r] # EmptyBag
    BY <1>6
  <2>2. DOMAIN new[r] # {}
    <3>1. PICK w : w = new[r]
      OBVIOUS
    <3>2. w # EmptyBag /\ OneEach(w)
      BY <1>5, <2>1, <3>1
    <3>3. PICK e : e = EmptyBag
      OBVIOUS
    <3>4. OneEach(e) /\ DOMAIN e = {}
      BY <3>3, NoPoints
    <3>5. DOMAIN w # {}
      BY <3>2, <3>3, <3>4 DEF OneEach
    <3> QED  BY <3>1, <3>5
  <2> QED  BY <1>3, <1>5, <2>1, <2>2 DEF In, Points
<1>10. ASSUME NEW m \in tops PROVE m \in Nodes /\ \A k \in Nodes : IsPrefix(k, m) => k = m
  <2>1. PICK r \in K : m = <<r>>
    OBVIOUS
  <2>2. r \in Roots
    BY <1>6
  <2> QED  BY <1>9, <2>1, <2>2, RootFacts
<1>11. IsFiniteSet(F)
  <2>1. IsFiniteSet({Bin(<<>>, p) : p \in S})
    BY <1>3, <1>4, CellsFinite
  <2>2. ASSUME NEW m \in tops PROVE m \in {Bin(<<>>, p) : p \in S}
    <3>1. PICK r \in K : m = <<r>>
      OBVIOUS
    <3>2. PICK p \in S : p.pos \in Positions /\ IsPrefix(<<r>>, p.pos)
      BY <1>9
    <3>3. m = SubSeq(p.pos, 1, 1)
      BY <1>6, <3>1, <3>2, RootFacts
    <3>4. Len(<<>>) + 1 = 1
      OBVIOUS
    <3> QED  BY <3>3, <3>4 DEF Bin
  <2>3. F \subseteq {Bin(<<>>, p) : p \in S}
    BY <2>2
  <2> QED  BY <2>1, <2>3, FS_Subset
<1>12. \A m \in tops : /\ PointsUpTo(inbox'[m], m, nScans + 1)
                       /\ \A p \in DOMAIN inbox'[m] : p.scan = nScans + 1
  BY <1>3, <1>5, <1>6, <1>8
<1>13. ASSUME NEW p \in DOMAIN scan' PROVE \E m \in tops : p \in DOMAIN inbox'[m]
  <2>1. p \in S /\ p.pos \in Positions
    BY <1>1, <1>3 DEF Points
  <2>2. PICK r \in Roots : IsPrefix(<<r>>, p.pos)
    BY <2>1, RootOf
  <2>3. p \in DOMAIN new[r]
    BY <1>5, <2>1, <2>2 DEF In
  <2>4. r \in K
    BY <1>6, <2>3, NoPoints
  <2> QED  BY <1>8, <2>3, <2>4
<1>14. DOMAIN inbox' = tops /\ F \subseteq tops /\ DOMAIN node' = DOMAIN node \cup F
       /\ tops \subseteq DOMAIN node \cup F
       /\ (\A m \in DOMAIN node : node'[m] = node[m]) /\ \A m \in F : node'[m] = NewNode
  BY <1>1
<1> HIDE DEF tops, K
<1>15. Filled(F)
  BY <1>1, <1>10, <1>11, <1>12, <1>13, <1>14 DEF Filled
<1> QED  BY <1>7, <1>15

(* Creating roots and calling them keeps the invariant; nothing is waiting *)
(* to be inserted or reported at that moment.                              *)
LEMMA FillKeeps ==
  ASSUME MapInv, stage # "insert", stage' = "insert", NEW cells \in Batches, NEW live \in BOOLEAN,
         FillBuckets(cells, live), booting' \in BOOLEAN, UNCHANGED <<updates, vizVars>>
  PROVE  MapInv'
<1>1. /\ ControlInv /\ TreeInv /\ CallsInv /\ BucketsInv
      /\ CensusInv /\ ReportsInv /\ DirtyInv /\ PatchesInv
  BY DEF MapInv
<1>2. DOMAIN inbox = {} /\ updates = {} /\ updates' = {} /\ nScans \in Nat
  BY <1>1, VoxelAssumption DEF CallsInv, ReportsInv, ControlInv
<1>3. BucketsInv' /\ \E F : Filled(F)
  BY <1>1, <1>2, FillForm
<1>4. PICK F : Filled(F)
  BY <1>3
<1>5. /\ IsFiniteSet(F) /\ F \cap DOMAIN node = {} /\ F \subseteq DOMAIN inbox'
      /\ DOMAIN node' = DOMAIN node \cup F /\ DOMAIN inbox' \subseteq DOMAIN node'
      /\ \A m \in DOMAIN node : node'[m] = node[m]
      /\ \A m \in F : node'[m] = NewNode
      /\ stats' = Count(stats, "OPEN", Cardinality(F))
  BY <1>4 DEF Filled
<1>6. /\ \A m \in DOMAIN inbox' :
           /\ m \in Nodes /\ \A k \in Nodes : IsPrefix(k, m) => k = m
           /\ PointsUpTo(inbox'[m], m, nScans + 1) /\ \A p \in DOMAIN inbox'[m] : p.scan = nScans + 1
      /\ \A p \in DOMAIN scan' : \E m \in DOMAIN inbox' : p \in DOMAIN inbox'[m]
  BY <1>4 DEF Filled
<1>7. /\ nScans < MaxScans /\ nScans' = nScans + 1 /\ curFrame' = frameIdx
      /\ frameIdx' = IF live THEN frameIdx + 1 ELSE frameIdx
  BY Zenon DEF FillBuckets
<1>8. ControlInv'
  BY <1>1, <1>7, VoxelAssumption DEF ControlInv
<1>9. TreeInv'
  <2>1. IsFiniteSet(DOMAIN node')
    BY <1>1, <1>5, FS_Union DEF TreeInv
  <2>2. ASSUME NEW CONSTANT m \in DOMAIN node
        PROVE  Rooted(m)' /\ NodeShape(node'[m]) /\ PointsUpTo(node'[m].points, m, nScans + 1)
    <3>1. Rooted(m) /\ NodeShape(node[m]) /\ PointsUpTo(node[m].points, m, nScans)
      BY <1>1 DEF TreeInv, PointsOf
    <3>2. PointsUpTo(node[m].points, m, nScans + 1)
      <4>1. \A s \in Nat : s <= nScans => s <= nScans + 1
        BY <1>2
      <4> QED  BY <3>1, <4>1 DEF PointsUpTo, Points
    <3>3. Rooted(m)'
      BY <1>5, <3>1 DEF Rooted
    <3> QED  BY <1>5, <3>1, <3>2, <3>3
  <2>3. ASSUME NEW CONSTANT m \in F
        PROVE  Rooted(m)' /\ NodeShape(node'[m]) /\ PointsUpTo(node'[m].points, m, nScans + 1)
    <3>1. node'[m] = NewNode /\ NewNode.status = "OPEN"
      BY <1>5, NewNodeShape
    <3>2. Rooted(m)'
      BY <1>5, <1>6, <3>1 DEF Rooted
    <3> QED  BY <3>1, <3>2, NewNodeShape
  <2> QED  BY <1>5, <1>7, <2>1, <2>2, <2>3 DEF TreeInv, PointsOf
<1>10. CallsInv'
  <2>1. ASSUME NEW k \in DOMAIN inbox', NEW m \in DOMAIN node'
        PROVE  DOMAIN inbox'[k] \cap DOMAIN node'[m].points = {}
    <3>1. CASE m \in F
      BY <1>5, <3>1, NewNodeShape
    <3>2. CASE m \in DOMAIN node
      <4>1. PointsUpTo(node[m].points, m, nScans)
        BY <1>1, <3>2 DEF TreeInv, PointsOf
      <4>2. ~(nScans + 1 <= nScans)
        BY <1>2
      <4> QED  BY <1>5, <1>6, <3>2, <4>1, <4>2 DEF PointsUpTo
    <3> QED  BY <1>5, <2>1, <3>1, <3>2
  <2> QED  BY <1>5, <1>6, <1>7, <2>1 DEF CallsInv, PointsOf
<1>11. SettledInv'
  BY <1>6 DEF SettledInv
<1>12. ReportsInv'
  BY <1>2 DEF ReportsInv
<1>13. \A m : (Live(m)' <=> Live(m)) /\ (Full(m)' <=> Full(m))
  <2>1. ASSUME NEW CONSTANT m PROVE (Live(m)' <=> Live(m)) /\ (Full(m)' <=> Full(m))
    <3>1. m \in F => node'[m] = NewNode /\ ~LivePlane(NewNode)
      BY <1>5, NewNodeShape
    <3>2. CASE m \in DOMAIN node
      BY <1>5, <3>2 DEF Live, Full
    <3>3. CASE m \notin DOMAIN node
      BY <1>5, <3>1, <3>3 DEF Live, Full
    <3> QED  BY <3>2, <3>3
  <2> QED  BY <2>1
<1>14. DirtyInv' /\ PatchesInv'
  <2>1. vizDirty' = vizDirty /\ vizCache' = vizCache /\ discs' = discs /\ dots' = dots /\ Ids' = Ids
    BY <1>2 DEF vizVars, Ids
  <2>2. DirtyInv'
    BY <1>1, <1>5, <1>13, <2>1 DEF DirtyInv
  <2>3. PatchesInv'
    BY <1>1, <1>13, <2>1 DEF PatchesInv
  <2> QED  BY <2>2, <2>3
<1>15. CensusInv'
  <2>1. stats \in [Counters -> Int] /\ Cardinality(F) \in Int /\ "OPEN" \in Counters
    BY <1>1, <1>5, StatsType, FS_CardinalityType DEF Counters, Statuses
  <2>2. /\ stats' \in [Counters -> Int]
        /\ \A t \in Counters : stats'[t] = IF t = "OPEN" THEN stats[t] + Cardinality(F) ELSE stats[t]
    <3>1. PICK k \in Int : k = Cardinality(F)
      BY <2>1
    <3>2. stats' = [stats EXCEPT !["OPEN"] = @ + k]
      BY <1>5, <3>1 DEF Count
    <3> QED  BY <2>1, <3>1, <3>2
  <2>3. \A m \in F : node'[m].status = "OPEN" /\ ~LivePlane(node'[m])
    BY <1>5, NewNodeShape
  <2>4. ASSUME NEW CONSTANT s \in Statuses
        PROVE  stats'[s] = Cardinality({m \in DOMAIN node' : node'[m].status = s})
    <3> DEFINE T == {m \in DOMAIN node : node[m].status = s}
               U == {m \in DOMAIN node' : node'[m].status = s}
    <3>1. IsFiniteSet(T) /\ stats[s] = Cardinality(T) /\ s \in Counters /\ F \cap T = {}
      BY <1>1, <1>5, FS_Subset DEF TreeInv, CensusInv, StatsAreCensus, Counters
    <3>2. U = IF s = "OPEN" THEN T \cup F ELSE T
      BY <1>5, <2>3
    <3> HIDE DEF T, U
    <3>3. CASE s = "OPEN"
      <4>0. T \cap F = {}
        BY <3>1
      <4>1. Cardinality(T \cap F) = 0 /\ Cardinality(T) \in Nat
        BY <3>1, <4>0, FS_EmptySet, FS_CardinalityType
      <4>2. Cardinality(T \cup F) = Cardinality(T) + Cardinality(F) - Cardinality(T \cap F)
        BY <1>5, <3>1, FS_Union
      <4>3. Cardinality(T \cup F) = Cardinality(T) + Cardinality(F)
        BY <2>1, <4>1, <4>2
      <4>4. stats'[s] = Cardinality(U)
        BY <2>2, <3>1, <3>2, <3>3, <4>3
      <4> QED  BY <4>4 DEF U
    <3>4. CASE s # "OPEN"
      <4>1. stats'[s] = Cardinality(U)
        BY <2>2, <3>1, <3>2, <3>4
      <4> QED  BY <4>1 DEF U
    <3> QED  BY <3>3, <3>4
  <2>5. stats'["planes"] = Cardinality({m \in DOMAIN node' : LivePlane(node'[m])})
    <3>1. {m \in DOMAIN node' : LivePlane(node'[m])} = {m \in DOMAIN node : LivePlane(node[m])}
      BY <1>5, <2>3
    <3>2. stats["planes"] = Cardinality({m \in DOMAIN node : LivePlane(node[m])})
      BY <1>1 DEF CensusInv, StatsAreCensus
    <3>3. stats'["planes"] = stats["planes"]
      BY <2>2 DEF Counters
    <3> QED  BY <3>1, <3>2, <3>3
  <2>6. stats' = [s \in Counters |-> stats'[s]]
    BY <2>2
  <2> QED  BY <2>4, <2>5, <2>6 DEF CensusInv, StatsAreCensus
<1> QED  BY <1>3, <1>8, <1>9, <1>10, <1>11, <1>12, <1>14, <1>15 DEF MapInv

(* The end of an insertion: the reports become marks.                      *)
LEMMA MergeKeeps ==
  ASSUME MapInv, MergeUpdates
  PROVE  MapInv'
<1> DEFINE of(n) == CHOOSE u \in updates : u.id = n
           ids  == {u.id : u \in updates}
           gone == {n \in ids : of(n).deleted}
<1>1. /\ ControlInv /\ TreeInv /\ CallsInv /\ BucketsInv /\ SettledInv
      /\ CensusInv /\ ReportsInv /\ DirtyInv /\ PatchesInv
  BY DEF MapInv
<1>2. /\ stage = "insert" /\ DOMAIN inbox = {}
      /\ vizDirty' = [n \in DOMAIN vizDirty \cup ids |-> IF n \in ids THEN of(n).deleted ELSE vizDirty[n]]
      /\ vizCache' = [n \in (DOMAIN vizCache \cup ids) \ gone |-> IF n \in ids THEN of(n).conv ELSE vizCache[n]]
      /\ updates' = {} /\ stage' = "idle"
      /\ UNCHANGED <<scanVars, node, inbox, stats, discs, dots>>
  <2>1. inbox = <<>> => DOMAIN inbox = {}
    OBVIOUS
  <2> QED  BY <2>1, Zenon DEF MergeUpdates
<1>3. ids = Ids /\ Ids' = {}
  BY <1>2 DEF Ids
<1>4. ASSUME NEW n \in ids
      PROVE  /\ n \in DOMAIN node /\ (of(n).deleted <=> ~Live(n))
             /\ Live(n) => (of(n).conv <=> Full(n))
  <2>1. of(n) \in updates /\ of(n).id = n
    OBVIOUS
  <2> HIDE DEF of
  <2> QED  BY <1>1, <2>1 DEF ReportsInv
<1> HIDE DEF of, ids, gone
<1>5. /\ DOMAIN vizDirty' = DOMAIN vizDirty \cup ids
      /\ \A n \in ids : vizDirty'[n] = of(n).deleted
      /\ \A n \in DOMAIN vizDirty \ ids : vizDirty'[n] = vizDirty[n]
      /\ DOMAIN vizCache' = (DOMAIN vizCache \cup ids) \ gone
      /\ \A n \in ids \ gone : vizCache'[n] = of(n).conv
      /\ \A n \in DOMAIN vizCache \ ids : n \notin gone => vizCache'[n] = vizCache[n]
      /\ \A n : n \in gone <=> n \in ids /\ of(n).deleted
  BY <1>2 DEF gone
<1>6. \A n : (Live(n)' <=> Live(n)) /\ (Full(n)' <=> Full(n))
  BY <1>2 DEF Live, Full
<1>7. DirtyInv'
  <2>1. DOMAIN vizDirty' \subseteq DOMAIN node /\ DOMAIN vizCache' \subseteq DOMAIN node
    BY <1>1, <1>4, <1>5 DEF DirtyInv
  <2>2. ASSUME NEW n \in DOMAIN vizDirty', ~vizDirty'[n] PROVE n \in DOMAIN vizCache'
    <3>1. CASE n \in ids
      BY <1>5, <2>2, <3>1
    <3>2. CASE n \notin ids
      BY <1>1, <1>5, <2>2, <3>2 DEF DirtyInv
    <3> QED  BY <3>1, <3>2
  <2>3. ASSUME NEW n \in DOMAIN vizDirty'
        PROVE  (vizDirty'[n] <=> ~Live(n)) /\ (Live(n) => (vizCache'[n] <=> Full(n)))
    <3>1. CASE n \in ids
      BY <1>4, <1>5, <3>1
    <3>2. CASE n \notin ids
      <4>1. n \in DOMAIN vizDirty \ Ids /\ vizDirty'[n] = vizDirty[n]
        BY <1>3, <1>5, <2>3, <3>2
      <4>2. (vizDirty[n] <=> ~Live(n)) /\ (Live(n) => (vizCache[n] <=> Full(n)))
            /\ (~vizDirty[n] => n \in DOMAIN vizCache)
        BY <1>1, <4>1 DEF DirtyInv
      <4>3. Live(n) => vizCache'[n] = vizCache[n]
        BY <1>5, <3>2, <4>2
      <4> QED  BY <4>1, <4>2, <4>3
    <3> QED  BY <3>1, <3>2
  <2> QED  BY <1>2, <1>3, <1>6, <2>1, <2>2, <2>3 DEF DirtyInv
<1>8. PatchesInv'
  <2>1. DOMAIN vizDirty' \cup Ids' = DOMAIN vizDirty \cup Ids
    BY <1>3, <1>5
  <2> QED  BY <1>1, <1>2, <1>6, <2>1 DEF PatchesInv
<1>9. ReportsInv'
  BY <1>2 DEF ReportsInv
<1>10. /\ UNCHANGED <<node, inbox, nScans, scan, stats, activeKeys, bucket, booting, frameIdx, curFrame>>
       /\ stage' # "insert"
  BY <1>2 DEF scanVars
<1>11. TreeInv' /\ CensusInv' /\ BucketsInv'
  BY <1>1, <1>10 DEF TreeInv, Rooted, PointsOf, CensusInv, StatsAreCensus, BucketsInv
<1>12. SettledInv'
  BY <1>1, <1>10 DEF SettledInv, SettledAt, Passed
<1>13. CallsInv'
  BY <1>1, <1>2, <1>10 DEF CallsInv, PointsOf
<1>14. ControlInv'
  BY <1>1, <1>2, <1>10 DEF ControlInv
<1> QED  BY <1>7, <1>8, <1>9, <1>11, <1>12, <1>13, <1>14 DEF MapInv

(* Redrawing a patch changes who owns patches in one place.                *)
LEMMA RedrawnOwners ==
  ASSUME NEW list, ListOK(list), NEW id, NEW shown
  PROVE  \A n : n \in Owners(Redrawn(list, id, shown)) <=> IF n = id THEN shown ELSE n \in Owners(list)
<1>1. PICK cut : cut = Erased(list, id)
  OBVIOUS
<1>2. ListOK(cut) /\ id \notin DOMAIN cut.idx
  BY <1>1, ErasedOK
<1>3. DOMAIN cut.idx = DOMAIN list.idx \ {id}
  BY <1>1 DEF Erased
<1>4. Owners(cut) = Owners(list) \ {id}
  BY <1>2, <1>3 DEF ListOK, Indexed
<1>5. PICK new : new = Appended(cut, id)
  OBVIOUS
<1>6. ListOK(new) /\ DOMAIN new.idx = DOMAIN cut.idx \cup {id}
  <2>1. ListOK(new)
    BY <1>2, <1>5, AppendedOK
  <2>2. DOMAIN new.idx = DOMAIN cut.idx \cup {id}
    BY <1>5 DEF Appended
  <2> QED  BY <2>1, <2>2
<1>7. Owners(new) = Owners(list) \cup {id}
  BY <1>2, <1>4, <1>6 DEF ListOK, Indexed
<1>8. Redrawn(list, id, shown) = IF shown THEN new ELSE cut
  BY <1>1, <1>5 DEF Redrawn
<1> QED  BY <1>4, <1>7, <1>8

(* One turn of buildVizMarkers.                                            *)
LEMMA RefreshKeeps ==
  ASSUME MapInv, ListsOK, NEW CONSTANT n \in DOMAIN vizDirty, RefreshMarker(n)
  PROVE  MapInv'
<1>1. /\ ControlInv /\ TreeInv /\ CallsInv /\ BucketsInv /\ SettledInv
      /\ CensusInv /\ ReportsInv /\ DirtyInv /\ PatchesInv
  BY DEF MapInv
<1>2. /\ stage \in {"idle", "viz"}
      /\ discs' = Redrawn(discs, n, ~vizDirty[n])
      /\ dots' = Redrawn(dots, n, ~vizDirty[n] /\ vizCache[n])
      /\ vizDirty' = Restrict(vizDirty, DOMAIN vizDirty \ {n})
      /\ stage' = IF DOMAIN vizDirty = {n} THEN "idle" ELSE "viz"
      /\ UNCHANGED <<scanVars, mapVars, vizCache>>
  BY Zenon DEF RefreshMarker
<1>3. /\ UNCHANGED <<node, inbox, nScans, scan, stats, activeKeys, bucket, booting, frameIdx, curFrame>>
      /\ UNCHANGED <<updates, vizCache>>
      /\ stage' \in {"idle", "viz"}
  BY <1>2 DEF scanVars, mapVars
<1>4. DOMAIN vizDirty' = DOMAIN vizDirty \ {n} /\ \A m \in DOMAIN vizDirty \ {n} : vizDirty'[m] = vizDirty[m]
  BY <1>2 DEF Restrict
<1>5. Ids = {} /\ Ids' = {}
  BY <1>1, <1>2, <1>3 DEF ReportsInv, Ids
<1>6. (vizDirty[n] <=> ~Live(n)) /\ (Live(n) => (vizCache[n] <=> Full(n))) /\ (Full(n) => Live(n))
  BY <1>1, <1>5 DEF DirtyInv, Full
<1>7. \A m : (Live(m)' <=> Live(m)) /\ (Full(m)' <=> Full(m))
  BY <1>3 DEF Live, Full
<1>8. /\ \A m : m \in Owners(discs') <=> IF m = n THEN ~vizDirty[n] ELSE m \in Owners(discs)
      /\ \A m : m \in Owners(dots') <=> IF m = n THEN ~vizDirty[n] /\ vizCache[n] ELSE m \in Owners(dots)
  <2>1. PICK shown : shown = (~vizDirty[n])
    OBVIOUS
  <2>2. PICK full : full = (~vizDirty[n] /\ vizCache[n])
    OBVIOUS
  <2>3. discs' = Redrawn(discs, n, shown) /\ dots' = Redrawn(dots, n, full)
    BY <1>2, <2>1, <2>2
  <2>4. /\ \A m : m \in Owners(discs') <=> IF m = n THEN shown ELSE m \in Owners(discs)
        /\ \A m : m \in Owners(dots') <=> IF m = n THEN full ELSE m \in Owners(dots)
    BY <2>3, RedrawnOwners DEF ListsOK
  <2> QED  BY <2>1, <2>2, <2>4
<1>9. PatchesInv'
  <2>1. ASSUME NEW m \in Nodes, m \notin DOMAIN vizDirty'
        PROVE  (m \in Owners(discs') <=> Live(m)) /\ (m \in Owners(dots') <=> Full(m))
    <3>1. CASE m = n
      BY <1>6, <1>8, <3>1
    <3>2. CASE m # n
      <4>1. m \in Nodes \ (DOMAIN vizDirty \cup Ids)
        BY <1>4, <1>5, <2>1, <3>2
      <4> QED  BY <1>1, <1>8, <3>2, <4>1 DEF PatchesInv
    <3> QED  BY <3>1, <3>2
  <2> QED  BY <1>5, <1>7, <2>1 DEF PatchesInv
<1>10. DirtyInv'
  BY <1>1, <1>3, <1>4, <1>5, <1>7 DEF DirtyInv
<1>11. ReportsInv'
  BY <1>3, <1>5 DEF ReportsInv, Ids
<1>12. TreeInv' /\ CensusInv' /\ BucketsInv'
  BY <1>1, <1>3 DEF TreeInv, Rooted, PointsOf, CensusInv, StatsAreCensus, BucketsInv
<1>13. SettledInv'
  BY <1>1, <1>3 DEF SettledInv, SettledAt, Passed
<1>14. CallsInv'
  BY <1>1, <1>2, <1>3 DEF CallsInv, PointsOf
<1>15. ControlInv'
  BY <1>1, <1>3 DEF ControlInv
<1> QED  BY <1>9, <1>10, <1>11, <1>12, <1>13, <1>14, <1>15 DEF MapInv

(* The invariant holds of the empty map.                                   *)
LEMMA MapStart == Init => MapInv
<1> SUFFICES ASSUME Init PROVE MapInv
  OBVIOUS
<1>1. /\ node = <<>> /\ inbox = <<>> /\ stats = NoStats /\ updates = {}
      /\ vizDirty = <<>> /\ vizCache = <<>> /\ discs = EmptyList /\ dots = EmptyList
      /\ stage = "fresh" /\ booting = FALSE /\ frameIdx = 0 /\ curFrame = -1 /\ nScans = 0
      /\ scan = EmptyBag /\ bucket = [r \in Roots |-> EmptyBag] /\ activeKeys = {}
  BY DEF Init
<1>2. DOMAIN node = {} /\ DOMAIN inbox = {} /\ DOMAIN vizDirty = {} /\ DOMAIN vizCache = {}
      /\ DOMAIN scan = {}
  BY <1>1, NoPoints
<1>3. ControlInv
  <2>1. MaxScans \in Nat
    BY VoxelAssumption
  <2>2. nScans \in 0..MaxScans /\ frameIdx \in Nat /\ curFrame \in Nat \cup {-1}
    BY <1>1, <2>1
  <2>3. booting \in BOOLEAN
    BY <1>1, Zenon
  <2> QED  BY <1>1, <2>2, <2>3 DEF ControlInv
<1>4. TreeInv
  BY <1>2, FS_EmptySet DEF TreeInv
<1>5. CallsInv
  BY <1>2 DEF CallsInv
<1>6. BucketsInv
  BY <1>1 DEF BucketsInv
<1>7. SettledInv
  BY <1>2 DEF SettledInv
<1>8. CensusInv
  <2>1. stats = [s \in Counters |-> 0]
    BY <1>1 DEF NoStats, Counters
  <2>2. ASSUME NEW s \in Statuses PROVE stats[s] = Cardinality({n \in DOMAIN node : node[n].status = s})
    <3>1. {n \in DOMAIN node : node[n].status = s} = {}
      BY <1>2
    <3>2. stats[s] = 0
      BY <2>1 DEF Counters
    <3> QED  BY <3>1, <3>2, FS_EmptySet
  <2>3. stats["planes"] = Cardinality({n \in DOMAIN node : LivePlane(node[n])})
    <3>1. {n \in DOMAIN node : LivePlane(node[n])} = {}
      BY <1>2
    <3>2. stats["planes"] = 0
      BY <2>1 DEF Counters
    <3> QED  BY <3>1, <3>2, FS_EmptySet
  <2>4. stats = [s \in Counters |-> stats[s]]
    BY <2>1
  <2> QED  BY <2>2, <2>3, <2>4 DEF CensusInv, StatsAreCensus
<1>9. ReportsInv
  BY <1>1 DEF ReportsInv
<1>10. DirtyInv
  BY <1>2 DEF DirtyInv
<1>11. PatchesInv
  <2>1. Owners(discs) = {} /\ Owners(dots) = {}
    BY <1>1 DEF EmptyList, Owners
  <2> QED  BY <1>2, <2>1 DEF PatchesInv, Live, Full
<1> QED  BY <1>3, <1>4, <1>5, <1>6, <1>7, <1>8, <1>9, <1>10, <1>11 DEF MapInv

(* Every step keeps it.                                                    *)
LEMMA MapStep == MapInv /\ ListsOK /\ [Next]_vars => MapInv'
<1> SUFFICES ASSUME MapInv, ListsOK, [Next]_vars PROVE MapInv'
  OBVIOUS
<1>1. ASSUME NEW cells \in Batches, NEW live \in BOOLEAN, FillBuckets(cells, live),
             stage # "insert", booting' \in BOOLEAN, UNCHANGED <<updates, vizVars>>
      PROVE  MapInv'
  <2>1. stage' = "insert"
    BY <1>1, Zenon DEF FillBuckets
  <2> QED  BY <1>1, <2>1, FillKeeps
<1>2. booting \in BOOLEAN
  BY DEF MapInv, ControlInv
<1>3. CASE Bootstrap
  <2>1. /\ stage # "insert" /\ booting' \in BOOLEAN /\ UNCHANGED <<updates, vizVars>>
        /\ \E cells \in Batches : FillBuckets(cells, FALSE)
    BY <1>3, Zenon DEF Bootstrap
  <2> QED  BY <1>1, <2>1
<1>4. CASE NextObservation
  <2>1. /\ stage # "insert" /\ booting' \in BOOLEAN /\ UNCHANGED <<updates, vizVars>>
        /\ \E cells \in Batches : FillBuckets(cells, FALSE)
    BY <1>2, <1>4, Zenon DEF NextObservation
  <2> QED  BY <1>1, <2>1
<1>5. CASE UpdateMap
  <2>1. /\ stage # "insert" /\ booting' \in BOOLEAN /\ UNCHANGED <<updates, vizVars>>
        /\ \E cells \in Batches : FillBuckets(cells, TRUE)
    BY <1>2, <1>5, Zenon DEF UpdateMap
  <2> QED  BY <1>1, <2>1
<1>6. CASE FinishBootstrap \/ UNCHANGED vars
  <2>1. /\ UNCHANGED <<stage, curFrame, nScans, scan, bucket, activeKeys, mapVars, vizVars>>
        /\ booting' \in BOOLEAN /\ frameIdx' \in Nat
    <3>1. frameIdx \in Nat /\ frameIdx + 1 \in Nat
      BY DEF MapInv, ControlInv
    <3>2. CASE FinishBootstrap
      <4>1. frameIdx' = frameIdx + 1 /\ booting' = FALSE
            /\ UNCHANGED <<stage, curFrame, nScans, scan, bucket, activeKeys, mapVars, vizVars>>
        BY <3>2 DEF FinishBootstrap
      <4>2. booting' \in BOOLEAN
        BY <4>1, Zenon
      <4> QED  BY <3>1, <4>1, <4>2
    <3>3. CASE UNCHANGED vars
      BY <1>2, <3>1, <3>3 DEF vars, scanVars
    <3> QED  BY <1>6, <3>2, <3>3
  <2>2. /\ UNCHANGED <<node, inbox, stats, updates, vizDirty, vizCache, discs, dots>>
        /\ UNCHANGED <<stage, curFrame, nScans, scan, bucket, activeKeys>>
    BY <2>1 DEF mapVars, vizVars
  <2>3. /\ ControlInv /\ TreeInv /\ CallsInv /\ BucketsInv /\ SettledInv
        /\ CensusInv /\ ReportsInv /\ DirtyInv /\ PatchesInv
    BY DEF MapInv
  <2>4. TreeInv' /\ CensusInv' /\ BucketsInv' /\ CallsInv'
    BY <2>2, <2>3 DEF TreeInv, Rooted, PointsOf, CensusInv, StatsAreCensus, BucketsInv, CallsInv
  <2>5. SettledInv' /\ ControlInv'
    BY <2>1, <2>2, <2>3 DEF SettledInv, SettledAt, Passed, ControlInv
  <2>6. ReportsInv' /\ DirtyInv' /\ PatchesInv'
    BY <2>2, <2>3 DEF ReportsInv, DirtyInv, PatchesInv, Passed, Live, Full, Ids
  <2> QED  BY <2>4, <2>5, <2>6 DEF MapInv
<1>7. ASSUME NEW n \in DOMAIN inbox, InsertPoints(n) PROVE MapInv'
  BY <1>7, InsertKeeps
<1>8. CASE MergeUpdates
  BY <1>8, MergeKeeps
<1>9. ASSUME NEW n \in DOMAIN vizDirty, RefreshMarker(n) PROVE MapInv'
  BY <1>9, RefreshKeeps
<1> QED  BY <1>3, <1>4, <1>5, <1>6, <1>7, <1>8, <1>9 DEF Next

(* A batch is never lost or counted twice on its way down: every point of  *)
(* the scan that went in is in an open leaf's history, unless that was at  *)
(* its bound, or has met a leaf that is locked.                            *)
THEOREM PointsArrive == Spec => []NoPointLost
<1>1. Init => MapInv /\ ListsOK
  BY MapStart, EmptyOK DEF Init, ListsOK
<1>2. MapInv /\ ListsOK /\ [Next]_vars => (MapInv /\ ListsOK)'
  BY MapStep, ListsStep
<1>3. MapInv => NoPointLost
  <2> SUFFICES ASSUME MapInv PROVE NoPointLost
    OBVIOUS
  <2>1. CallsInv /\ SettledInv
    BY DEF MapInv
  <2>2. ASSUME NEW n \in DOMAIN inbox, NEW p \in DOMAIN inbox[n] PROVE inbox[n][p] = 1 /\ In(p, n)
    BY <2>1 DEF CallsInv, PointsOf, PointsUpTo, OneEach
  <2>3. ASSUME stage = "idle", NEW p \in DOMAIN scan
        PROVE  \E n \in DOMAIN node :
                 /\ In(p, n) /\ node[n].status # "PARENT"
                 /\ node[n].status = "OPEN" =>
                      /\ Bin(n, p) \in node[n].bins
                      /\ p \in DOMAIN node[n].points \/ ~(BagCardinality(node[n].points) < MaxPoints)
    <3>1. DOMAIN inbox = {}
      BY <2>1, <2>3 DEF CallsInv
    <3>2. PICK n \in DOMAIN node : SettledAt(n, p)
      BY <2>1, <2>3, <3>1 DEF SettledInv
    <3> QED  BY <3>2 DEF SettledAt
  <2> QED  BY <2>2, <2>3 DEF NoPointLost
<1> QED  BY <1>1, <1>2, <1>3, PTL DEF Spec

(* A node whose plane is in use is one the residual search returns: some   *)
(* position lies in it, and there are only parents above it.               *)
LEMMA LiveIsFound ==
  ASSUME TreeInv, NEW n \in Nodes
  PROVE  Live(n) <=> \E p \in Positions : n \in Found(p)
<1>1. ASSUME Live(n) PROVE \E p \in Positions : n \in Found(p)
  <2>1. PICK p \in Positions : IsPrefix(n, p)
    BY NodeFacts
  <2>2. n \in DOMAIN node /\ LivePlane(node[n]) /\ Rooted(n) /\ NodeShape(node[n])
    BY <1>1 DEF Live, TreeInv
  <2>3. node[n].status \notin {"PARENT", "DISABLED"}
    BY <2>2 DEF LivePlane, NodeShape
  <2>4. \A m \in Nodes : IsStrictPrefix(m, n) => m \in DOMAIN node /\ node[m].status = "PARENT"
    BY <2>2 DEF Rooted, IsStrictPrefix
  <2>5. n \in Found(p)
    BY <2>1, <2>2, <2>3, <2>4 DEF Found
  <2> QED  BY <2>5
<1>2. ASSUME NEW p \in Positions, n \in Found(p) PROVE Live(n)
  BY <1>2 DEF Found, Live
<1> QED  BY <1>1, <1>2

(* What is kept beside the nodes agrees with the nodes, whatever order the *)
(* threads take: VoxelStats with a count over them, the patches on display *)
(* with the planes the residual search can return.                         *)
THEOREM CachesFollow == Spec => []CachesMatchNodes
<1>1. Init => MapInv /\ ListsOK
  BY MapStart, EmptyOK DEF Init, ListsOK
<1>2. MapInv /\ ListsOK /\ [Next]_vars => (MapInv /\ ListsOK)'
  BY MapStep, ListsStep
<1>3. MapInv => CachesMatchNodes
  <2> SUFFICES ASSUME MapInv PROVE CachesMatchNodes
    OBVIOUS
  <2>1. /\ ControlInv /\ TreeInv /\ CallsInv /\ BucketsInv
        /\ CensusInv /\ ReportsInv /\ DirtyInv /\ PatchesInv
    BY DEF MapInv
  <2>2. DOMAIN node \subseteq Nodes
    BY <2>1 DEF TreeInv, Rooted
  <2>3. StatsAreCensus
    BY <2>1 DEF CensusInv
  <2>4. \A s \in DOMAIN stats : stats[s] \in Nat
    BY <2>1, StatsType
  <2>5. TypeOK
    <3>1. \A n \in DOMAIN node : node[n].status \in Statuses /\ node[n].size \in Nat
      BY <2>1 DEF TreeInv, NodeShape
    <3>2. DOMAIN inbox \subseteq DOMAIN node /\ activeKeys \subseteq Roots
      BY <2>1 DEF CallsInv, BucketsInv
    <3>3. DOMAIN vizDirty \subseteq Nodes /\ DOMAIN vizCache \subseteq Nodes
      BY <2>1, <2>2 DEF DirtyInv
    <3> QED  BY <2>1, <2>2, <2>4, <3>1, <3>2, <3>3 DEF TypeOK, ControlInv
  <2>6. MarkersMatchPlanes
    <3>1. \A n \in DOMAIN vizDirty : ~vizDirty[n] => n \in DOMAIN vizCache
      BY <2>1 DEF DirtyInv
    <3>2. ASSUME stage # "insert", NEW n \in Nodes \ DOMAIN vizDirty
          PROVE  /\ n \in Owners(discs) <=> \E p \in Positions : n \in Found(p)
                 /\ n \in Owners(dots) <=> n \in DOMAIN node /\ LivePlane(node[n]) /\ IsFull(node[n])
      <4>1. Ids = {}
        BY <2>1, <3>2 DEF ReportsInv, Ids
      <4>2. (n \in Owners(discs) <=> Live(n)) /\ (n \in Owners(dots) <=> Full(n))
        BY <2>1, <3>2, <4>1 DEF PatchesInv
      <4>3. Live(n) <=> \E p \in Positions : n \in Found(p)
        BY <2>1, <3>2, LiveIsFound
      <4>4. Full(n) <=> n \in DOMAIN node /\ LivePlane(node[n]) /\ IsFull(node[n])
        BY DEF Full, Live
      <4> QED  BY <4>2, <4>3, <4>4
    <3> QED  BY <3>1, <3>2 DEF MarkersMatchPlanes
  <2> QED  BY <2>3, <2>5, <2>6 DEF CachesMatchNodes
<1> QED  BY <1>1, <1>2, <1>3, PTL DEF Spec

------------------------------------------------------------------------------
(***************************************************************************)
(* The hash table, RobinHood.                                              *)
(***************************************************************************)

(* The keys in the slots.                                                  *)
Held(tab) == {tab.at[i] : i \in DOMAIN tab.at}

(* The tables there can be; at holds the entries, info the bytes.          *)
Infos == UNION {[0..n -> 0..InfoTop] : n \in Nat}
Ats   == UNION {[S -> Keys] : S \in SUBSET Nat}
Tables == [mask : Nat, num : Nat, max : Nat, inc : Nat, cut : Nat, mult : 0..MaxMult,
           info : Infos, at : Ats]

(* Sizes and units.                                                        *)
Sized(tab) ==
  /\ tab \in Tables
  /\ tab.inc > 1 /\ tab.inc * tab.cut = InitialInfoInc
  /\ tab.max \in {0, CalcMaxNumElementsAllowed(tab.mask + 1)}
  /\ tab.mask = 0 => tab.max = 0
  /\ DOMAIN tab.info = 0..(End(tab) + 2)

(* Every entry is where its byte says, and in front of the sentinel.       *)
Truthful(tab) ==
  /\ \A i \in DOMAIN tab.at :
       /\ i < End(tab) /\ i >= Home(tab, tab.at[i])
       /\ tab.info[i] = Expected(tab, tab.at[i], i - Home(tab, tab.at[i]))
  /\ \A i, j \in DOMAIN tab.at : tab.at[i] = tab.at[j] => i = j

(* The bytes that are not 0 are the entries' and the sentinel.             *)
NoStrayBytes(tab) ==
  /\ \A i \in DOMAIN tab.info : tab.info[i] # 0 <=> (i \in DOMAIN tab.at \/ (tab.mask # 0 /\ i = End(tab)))
  /\ tab.mask # 0 => tab.info[End(tab)] = 1

(* Who is away from home stands behind somebody at least as far but one.   *)
Chained(tab) ==
  \A i \in 0..(End(tab) + 1) :
    tab.info[i + 1] < 2 * tab.inc \/ tab.info[i + 1] <= tab.info[i] + tab.inc

(* While insertions are allowed every byte can take one unit more.         *)
Roomy(tab) == tab.max # 0 => \A i \in DOMAIN tab.at : tab.info[i] + tab.inc <= InfoTop

(* num is right, and never above the load allowed: the buffer suffices.    *)
RightCount(tab) ==
  /\ IsFiniteSet(DOMAIN tab.at) /\ tab.num = Cardinality(DOMAIN tab.at)
  /\ tab.num <= CalcMaxNumElementsAllowed(tab.mask + 1)

(* A table as the operations find and leave it.                            *)
Good(tab) ==
  /\ Sized(tab) /\ Truthful(tab) /\ NoStrayBytes(tab)
  /\ Chained(tab) /\ Roomy(tab) /\ RightCount(tab)

(* One thing at a time.                                                    *)
Turns ==
  /\ op \in [key : Keys \cup {None}, tries : Nat]
  /\ op.key # None => sweep = NoSweep
  /\ failed = "rehash" => sweep = NoSweep

(* Passed are just the entries before the iterator, which is at an entry   *)
(* or at the end.                                                          *)
SweepOK ==
  sweep # NoSweep =>
    /\ sweep.at \in Nat /\ DOMAIN sweep = {"at", "seen"}
    /\ \A j \in DOMAIN table.at : table.at[j] \in sweep.seen <=> j < sweep.at
    /\ sweep.at # End(table) => sweep.at \in DOMAIN table.at

(* The inductive invariant.                                                *)
TableInv ==
  /\ hash \in HashFunctions
  /\ Good(table)
  /\ failed # "rehash" => contents = Held(table)
  /\ Turns /\ SweepOK

(* A set of natural numbers has a least one.                               *)
LEMMA LeastNatural ==
  ASSUME NEW S \in SUBSET Nat, S # {}
  PROVE  \E m \in S : \A k \in S : m <= k
<1> DEFINE segments == {1..s : s \in S}
<1>1. segments \subseteq FiniteSubsetsOf(Nat)
  <2> SUFFICES ASSUME NEW s \in S PROVE 1..s \in FiniteSubsetsOf(Nat)
    OBVIOUS
  <2>1. IsFiniteSet(1..s)
    BY FS_Interval
  <2> QED  BY <2>1 DEF FiniteSubsetsOf
<1>2. segments # {}
  OBVIOUS
<1>3. PICK x \in segments : \A y \in segments : ~(<<y, x>> \in StrictSubsetOrdering(Nat))
  <2> HIDE DEF segments
  <2> QED  BY <1>1, <1>2, FS_StrictSubsetOrderingWellFounded, WFMin
<1>4. PICK m \in S : x = 1..m
  OBVIOUS
<1>5. ASSUME NEW k \in S, k < m PROVE FALSE
  <2>1. 1..k \in segments
    OBVIOUS
  <2>2. 1..k \subseteq 1..m /\ m \in 1..m /\ m \notin 1..k /\ 1..k \in SUBSET Nat /\ 1..m \in SUBSET Nat
    BY <1>5
  <2> HIDE DEF segments
  <2> QED  BY <2>1, <2>2, <1>3, <1>4 DEF StrictSubsetOrdering
<1> QED  BY <1>5

(* Min picks it.                                                           *)
LEMMA MinFacts ==
  ASSUME NEW S \in SUBSET Nat, S # {}
  PROVE  Min(S) \in S /\ \A n \in S : Min(S) <= n
<1>1. PICK m \in S : \A n \in S : m <= n
  BY LeastNatural
<1> QED  BY <1>1 DEF Min

(* What a quotient is.                                                     *)
LEMMA DivFacts ==
  ASSUME NEW x \in Nat, NEW d \in Nat, d > 0
  PROVE  /\ x \div d \in Nat
         /\ d * (x \div d) <= x /\ x < d * (x \div d) + d
<1> QED  OBVIOUS

(* There is only one such quotient.                                        *)
LEMMA DivUnique ==
  ASSUME NEW x \in Nat, NEW d \in Nat, NEW q \in Nat, d > 0, d * q <= x, x < d * q + d
  PROVE  x \div d = q
<1> QED OBVIOUS

(* A bound on the quotient.                                                *)
LEMMA DivBound ==
  ASSUME NEW x \in Nat, NEW d \in Nat, NEW b \in Nat, d > 0, x < b * d
  PROVE  x \div d < b
<1> QED  BY DivFacts

(* A remainder is smaller than the divisor.                                *)
LEMMA ModFacts ==
  ASSUME NEW x \in Nat, NEW d \in Nat, d > 0
  PROVE  x % d \in 0..(d - 1)
<1> QED  OBVIOUS

(* Truncating what fits changes nothing.                                   *)
LEMMA SmallMod ==
  ASSUME NEW t \in Nat
  PROVE  \A x \in Nat : x <= t => x % (t + 1) = x
<1> SUFFICES ASSUME NEW x \in Nat, x <= t PROVE x % (t + 1) = x
  OBVIOUS
<1>1. t + 1 \in Nat /\ t + 1 > 0 /\ x < t + 1
  OBVIOUS
<1> QED  BY <1>1

(* Multiples of a unit.                                                    *)
LEMMA TimesFacts ==
  ASSUME NEW u \in Nat, u > 0, NEW d \in Nat
  PROVE  /\ d * u \in Nat /\ d * u >= d
         /\ d > 0 => d * u >= u
         /\ (d + 1) * u = d * u + u
         /\ (d - 1) * u = d * u - u
<1>1. d * u \in Nat /\ (d + 1) * u = d * u + u /\ (d - 1) * u = d * u - u
  OBVIOUS
<1>2. d * u >= d
  OBVIOUS
<1>3. d > 0 => d * u >= u
  OBVIOUS
<1> QED  BY <1>1, <1>2, <1>3

(* A byte plus so many units.                                              *)
LEMMA StepFacts ==
  ASSUME NEW v \in Nat, NEW u \in Nat, u > 0, v >= u, NEW d \in Nat
  PROVE  /\ v + d * u \in Nat
         /\ v + d * u >= d + u
         /\ v + (d + 1) * u = v + d * u + u
         /\ d > 0 => v + d * u >= 2 * u
         /\ d > 0 => v + (d - 1) * u = v + d * u - u
<1>1. /\ d * u \in Nat /\ d * u >= d
      /\ d > 0 => d * u >= u
      /\ (d + 1) * u = d * u + u
      /\ (d - 1) * u = d * u - u
  BY TimesFacts
<1> QED  BY <1>1

(* The low bits of a hash, shifted, stay below one unit.                   *)
LEMMA LowBits ==
  ASSUME NEW x \in Nat, NEW w \in Nat, NEW u \in Nat, NEW c \in Nat, c > 0, w > 0, w = u * c
  PROVE  /\ u + ((x % w) \div c) \in Nat
         /\ u + ((x % w) \div c) >= u
         /\ u + ((x % w) \div c) < 2 * u
<1>1. x % w \in 0..(w - 1)
  BY ModFacts
<1>2. x % w \in Nat /\ x % w < u * c
  BY <1>1
<1>3. (x % w) \div c \in Nat /\ (x % w) \div c < u
  BY <1>2, DivFacts, DivBound
<1> QED  BY <1>3

(* The high bits of a hash give a slot.                                    *)
LEMMA HighBits ==
  ASSUME NEW x \in Nat, NEW w \in Nat, NEW m \in Nat, w > 0
  PROVE  (x \div w) % (m + 1) \in 0..m
<1>1. x \div w \in Nat
  BY DivFacts
<1>2. (x \div w) % (m + 1) \in 0..((m + 1) - 1)
  BY <1>1, ModFacts
<1> QED  BY <1>2

(* Shifting twice.                                                         *)
LEMMA DivTwice ==
  ASSUME NEW x \in Nat, NEW d \in Nat, d > 0
  PROVE  (x \div d) \div 2 = x \div (2 * d)
<1> DEFINE q == (x \div d) \div 2
<1>1. x \div d \in Nat /\ d * (x \div d) <= x /\ x < d * (x \div d) + d
  BY DivFacts
<1>2. q \in Nat /\ (x \div d = 2 * q \/ x \div d = 2 * q + 1)
  BY <1>1
<1> HIDE DEF q
<1>3. d * (2 * q) = (2 * d) * q /\ d * (2 * q + 1) = (2 * d) * q + d
  BY <1>2
<1>4. (2 * d) * q <= x /\ x < (2 * d) * q + 2 * d
  BY <1>1, <1>2, <1>3
<1>5. x \div (2 * d) = q
  BY <1>2, <1>4, DivUnique
<1> QED  BY <1>5 DEF q

(* The assumptions on the constants, one by one.                           *)
LEMMA ConstFacts ==
  /\ InitialNumElements \in Nat /\ InitialNumElements > 1
  /\ InitialInfoInc \in Nat /\ InitialInfoInc > 1
  /\ InfoTop \in Nat /\ 2 * InitialInfoInc <= InfoTop + 1
  /\ MaxMult \in Nat /\ None \notin Keys
  /\ \A f \in HashFunctions : f \in [0..MaxMult -> [Keys -> Nat]]
<1>1. {InitialNumElements, InitialInfoInc, InfoTop, Attempts, MaxMult} \subseteq Nat \ {0}
  BY TableAssumption
<1>2. /\ InitialNumElements \in Nat /\ InitialInfoInc \in Nat /\ InfoTop \in Nat
      /\ MaxMult \in Nat
  BY <1>1
<1> QED  BY <1>2, TableAssumption

(* Where the sentinel is.                                                  *)
LEMMA EndFacts ==
  ASSUME NEW tab, tab.mask \in Nat
  PROVE  /\ End(tab) \in Nat
         /\ CalcMaxNumElementsAllowed(tab.mask + 1) \in Nat
         /\ tab.mask # 0 => /\ End(tab) > tab.mask + 1
                             /\ \/ End(tab) = tab.mask + 1 + CalcMaxNumElementsAllowed(tab.mask + 1)
                                \/ End(tab) = tab.mask + 1 + InfoTop
<1> DEFINE n == tab.mask + 1
           a == CalcMaxNumElementsAllowed(n)
<1>1. n \in Nat /\ n > 0
  OBVIOUS
<1>2. a \in Nat /\ (n > 1 => a > 0)
  <2> HIDE DEF n
  <2> QED  BY <1>1 DEF CalcMaxNumElementsAllowed
<1>3. End(tab) = IF tab.mask = 0 THEN 0 ELSE n + (IF a < InfoTop THEN a ELSE InfoTop)
  BY DEF End, CalcNumElementsWithBuffer
<1>4. InfoTop \in Nat /\ InfoTop > 0
  BY ConstFacts
<1>5. tab.mask # 0 => n > 1
  OBVIOUS
<1> HIDE DEF a
<1> QED  BY <1>1, <1>2, <1>3, <1>4, <1>5 DEF a

(* What the hash of a key gives in a sized table.                          *)
LEMMA HashFacts ==
  ASSUME hash \in HashFunctions, NEW tab, Sized(tab), NEW k \in Keys
  PROVE  /\ Home(tab, k) \in 0..tab.mask
         /\ Info(tab, k) \in Nat /\ Info(tab, k) >= tab.inc /\ Info(tab, k) < 2 * tab.inc
         /\ tab.mask \in Nat /\ tab.inc \in Nat /\ tab.inc > 1 /\ tab.cut \in Nat \ {0}
<1>1. tab.mask \in Nat /\ tab.inc \in Nat /\ tab.inc > 1 /\ tab.cut \in Nat /\ tab.mult \in 0..MaxMult
  BY DEF Sized, Tables
<1>2. hash \in [0..MaxMult -> [Keys -> Nat]] /\ InitialInfoInc \in Nat \ {0}
  BY ConstFacts
<1>3. hash[tab.mult][k] \in Nat
  BY <1>1, <1>2
<1>5. tab.cut # 0 /\ InitialInfoInc = tab.inc * tab.cut
  BY <1>1, <1>2 DEF Sized
<1>6. Info(tab, k) \in Nat /\ Info(tab, k) >= tab.inc /\ Info(tab, k) < 2 * tab.inc
  <2> DEFINE x == hash[tab.mult][k]
  <2>1. x \in Nat
    BY <1>3
  <2>2. /\ tab.inc + ((x % InitialInfoInc) \div tab.cut) \in Nat
        /\ tab.inc + ((x % InitialInfoInc) \div tab.cut) >= tab.inc
        /\ tab.inc + ((x % InitialInfoInc) \div tab.cut) < 2 * tab.inc
    <3> HIDE DEF x
    <3>1. tab.cut > 0 /\ InitialInfoInc > 0
      BY <1>1, <1>2, <1>5
    <3> QED  BY <1>1, <1>2, <1>5, <2>1, <3>1, LowBits
  <2> QED  BY <2>2 DEF Info
<1>7. Home(tab, k) \in 0..tab.mask
  BY <1>1, <1>2, <1>3, HighBits DEF Home
<1> QED  BY <1>1, <1>5, <1>6, <1>7

(* The byte expected at a distance from home.                              *)
LEMMA ExpectedFacts ==
  ASSUME hash \in HashFunctions, NEW tab, Sized(tab), NEW k \in Keys, NEW d \in Nat
  PROVE  /\ Expected(tab, k, d) \in Nat
         /\ Expected(tab, k, d) >= d + tab.inc
         /\ Expected(tab, k, d + 1) = Expected(tab, k, d) + tab.inc
         /\ d > 0 => Expected(tab, k, d) >= 2 * tab.inc
         /\ d > 0 => Expected(tab, k, d - 1) = Expected(tab, k, d) - tab.inc
<1>1. Info(tab, k) \in Nat /\ Info(tab, k) >= tab.inc /\ tab.inc \in Nat /\ tab.inc > 0
  BY HashFacts
<1> QED  BY <1>1, StepFacts DEF Expected

(* The byte expected at home is below two units.                           *)
LEMMA ExpectedHome ==
  ASSUME hash \in HashFunctions, NEW tab, Sized(tab), NEW k \in Keys
  PROVE  Expected(tab, k, 0) = Info(tab, k) /\ Info(tab, k) < 2 * tab.inc
<1>1. Info(tab, k) \in Nat /\ tab.inc \in Nat /\ Info(tab, k) < 2 * tab.inc
  BY HashFacts
<1> QED  BY <1>1 DEF Expected

(***************************************************************************)
(* The slots of a good table.                                              *)
(***************************************************************************)

(* The fields of a sized table.                                            *)
LEMMA SizedFacts ==
  ASSUME NEW tab, Sized(tab)
  PROVE  /\ tab.mask \in Nat /\ tab.num \in Nat /\ tab.max \in Nat
         /\ tab.inc \in Nat /\ tab.inc > 1 /\ tab.cut \in Nat
         /\ End(tab) \in Nat /\ End(tab) >= tab.mask
         /\ DOMAIN tab.info = 0..(End(tab) + 2)
         /\ \A i \in 0..(End(tab) + 2) : tab.info[i] \in Nat /\ tab.info[i] <= InfoTop
         /\ DOMAIN tab.at \subseteq Nat
         /\ \A i \in DOMAIN tab.at : tab.at[i] \in Keys
<1>1. /\ tab.mask \in Nat /\ tab.num \in Nat /\ tab.max \in Nat
      /\ tab.inc \in Nat /\ tab.inc > 1 /\ tab.cut \in Nat
      /\ tab.info \in Infos /\ tab.at \in Ats
  BY DEF Sized, Tables
<1>2. DOMAIN tab.info = 0..(End(tab) + 2)
  BY DEF Sized
<1>3. \A i \in DOMAIN tab.info : tab.info[i] \in 0..InfoTop
  BY <1>1 DEF Infos
<1>4. DOMAIN tab.at \subseteq Nat /\ \A i \in DOMAIN tab.at : tab.at[i] \in Keys
  BY <1>1 DEF Ats
<1>5. End(tab) \in Nat /\ (tab.mask # 0 => End(tab) > tab.mask + 1)
  BY <1>1, EndFacts
<1>6. End(tab) >= tab.mask
  BY <1>1, <1>5
<1>7. InfoTop \in Nat
  BY ConstFacts
<1> QED  BY <1>1, <1>2, <1>3, <1>4, <1>5, <1>6, <1>7

(* Behind the last entry.                                                  *)
LEMMA WallFacts ==
  ASSUME NEW tab, Sized(tab), Truthful(tab), NoStrayBytes(tab)
  PROVE  /\ \A i \in DOMAIN tab.at : i \in 0..(End(tab) - 1) /\ tab.info[i] # 0
         /\ \A i \in 0..(End(tab) + 2) : tab.info[i] # 0 /\ i # End(tab) => i \in DOMAIN tab.at
         /\ \A i \in 0..(End(tab) + 2) : tab.info[i] > 1 => i \in DOMAIN tab.at
         /\ tab.info[End(tab)] \in {0, 1}
         /\ tab.info[End(tab) + 1] = 0 /\ tab.info[End(tab) + 2] = 0
<1>1. End(tab) \in Nat /\ DOMAIN tab.info = 0..(End(tab) + 2) /\ DOMAIN tab.at \subseteq Nat
  BY SizedFacts
<1>2. \A i \in DOMAIN tab.at : i \in 0..(End(tab) - 1)
  BY <1>1 DEF Truthful
<1>3. \A i \in 0..(End(tab) + 2) :
         tab.info[i] # 0 <=> (i \in DOMAIN tab.at \/ (tab.mask # 0 /\ i = End(tab)))
  BY <1>1 DEF NoStrayBytes
<1>4. \A i \in DOMAIN tab.at : tab.info[i] # 0
  BY <1>1, <1>2, <1>3
<1>5. /\ End(tab) \in 0..(End(tab) + 2) /\ End(tab) + 1 \in 0..(End(tab) + 2)
      /\ End(tab) + 2 \in 0..(End(tab) + 2)
      /\ End(tab) + 1 \notin DOMAIN tab.at /\ End(tab) + 2 \notin DOMAIN tab.at
      /\ End(tab) \notin DOMAIN tab.at
      /\ End(tab) + 1 # End(tab) /\ End(tab) + 2 # End(tab)
  BY <1>1, <1>2
<1>6. tab.info[End(tab) + 1] = 0 /\ tab.info[End(tab) + 2] = 0
  BY <1>3, <1>5
<1>7. tab.info[End(tab)] \in {0, 1}
  BY <1>3, <1>5 DEF NoStrayBytes
<1>8. \A i \in 0..(End(tab) + 2) : tab.info[i] # 0 /\ i # End(tab) => i \in DOMAIN tab.at
  BY <1>3
<1>9. \A i \in 0..(End(tab) + 2) : tab.info[i] > 1 => i \in DOMAIN tab.at
  <2> TAKE i \in 0..(End(tab) + 2)
  <2> HAVE tab.info[i] > 1
  <2>1. i # End(tab)
    BY <1>7
  <2>2. tab.info[i] # 0
    BY SizedFacts
  <2> QED  BY <1>8, <2>1, <2>2
<1> QED  BY <1>2, <1>4, <1>6, <1>7, <1>8, <1>9

(* What a walk from the home slot of a key sees.                           *)
Walked(tab, k, d) == d \in Nat /\ Home(tab, k) + d <= End(tab) + 2

(* A walk stays inside the info bytes.                                     *)
LEMMA WalkFacts ==
  ASSUME hash \in HashFunctions, NEW tab, Sized(tab), NEW k \in Keys
  PROVE  /\ Home(tab, k) \in Nat /\ Home(tab, k) <= End(tab)
         /\ \A d : d \in Reach(tab, k) <=> Walked(tab, k, d)
         /\ \A d : Walked(tab, k, d) => ByteAt(tab, k, d) \in Nat /\ ByteAt(tab, k, d) <= InfoTop
         /\ Reach(tab, k) \subseteq Nat
<1>1. Home(tab, k) \in 0..tab.mask /\ tab.mask \in Nat
  BY HashFacts
<1>2. End(tab) \in Nat /\ End(tab) >= tab.mask
  BY SizedFacts
<1>3. Home(tab, k) \in Nat /\ Home(tab, k) <= End(tab)
  BY <1>1, <1>2
<1>4. \A d : d \in Reach(tab, k) <=> Walked(tab, k, d)
  BY <1>2, <1>3 DEF Reach, Walked
<1>5. ASSUME NEW d, Walked(tab, k, d)
      PROVE  ByteAt(tab, k, d) \in Nat /\ ByteAt(tab, k, d) <= InfoTop
  <2>1. Home(tab, k) + d \in 0..(End(tab) + 2)
    BY <1>2, <1>3, <1>5 DEF Walked
  <2> QED  BY <2>1, SizedFacts DEF ByteAt
<1>6. Reach(tab, k) \subseteq Nat
  BY DEF Reach
<1> QED  BY <1>3, <1>4, <1>5, <1>6

(* Nobody nearer than d is behind what the key would be there.             *)
LEMMA ChainBack ==
  ASSUME hash \in HashFunctions, NEW tab, Sized(tab), Chained(tab), NEW k \in Keys,
         NEW d, Walked(tab, k, d), ByteAt(tab, k, d) >= Expected(tab, k, d)
  PROVE  \A e \in 0..d : ByteAt(tab, k, e) >= Expected(tab, k, e)
<1>1. SUFFICES ASSUME NEW b \in 0..d, ~(ByteAt(tab, k, b) >= Expected(tab, k, b)) PROVE FALSE
  OBVIOUS
<1> DEFINE S == {n \in 0..d : ~(ByteAt(tab, k, d - n) >= Expected(tab, k, d - n))}
<1>2. d \in Nat /\ d - b \in S /\ S \in SUBSET Nat
  <2>1. d \in Nat
    BY DEF Walked
  <2>2. d - b \in 0..d /\ d - (d - b) = b
    BY <2>1
  <2> QED  BY <2>1, <2>2, <1>1
<1>3. PICK m \in S : \A n \in S : m <= n
  <2> HIDE DEF S
  <2> QED  BY <1>2, LeastNatural
<1>4. m \in 0..d /\ m # 0 /\ m - 1 \in 0..d /\ m - 1 \notin S
  <2>1. m \in 0..d
    OBVIOUS
  <2>2. m # 0
    BY <1>2
  <2>3. m - 1 \in 0..d /\ ~(m <= m - 1)
    BY <1>2, <2>1, <2>2
  <2> QED  BY <1>3, <2>1, <2>2, <2>3
<1> DEFINE e == d - m
<1>5. e \in Nat /\ d - (m - 1) = e + 1 /\ e + 1 <= d
  BY <1>2, <1>4
<1>6. ByteAt(tab, k, e + 1) >= Expected(tab, k, e + 1) /\ ~(ByteAt(tab, k, e) >= Expected(tab, k, e))
  BY <1>3, <1>4, <1>5
<1> HIDE DEF e, S
<1>7. Walked(tab, k, e) /\ Walked(tab, k, e + 1) /\ Home(tab, k) + e \in 0..(End(tab) + 1)
      /\ Home(tab, k) + (e + 1) = (Home(tab, k) + e) + 1
  BY <1>2, <1>5, WalkFacts, SizedFacts DEF Walked
<1>8. ByteAt(tab, k, e + 1) < 2 * tab.inc \/ ByteAt(tab, k, e + 1) <= ByteAt(tab, k, e) + tab.inc
  BY <1>7 DEF Chained, ByteAt
<1>9. /\ Expected(tab, k, e) \in Nat
      /\ Expected(tab, k, e + 1) = Expected(tab, k, e) + tab.inc
      /\ Expected(tab, k, e) >= e + tab.inc
  BY <1>5, ExpectedFacts
<1>10. ByteAt(tab, k, e) \in Nat /\ ByteAt(tab, k, e + 1) \in Nat /\ tab.inc \in Nat
  BY <1>7, WalkFacts, SizedFacts
<1> QED  BY <1>5, <1>6, <1>8, <1>9, <1>10

(* Equal bytes go on being equal, or fall behind.                          *)
LEMMA ChainOn ==
  ASSUME hash \in HashFunctions, NEW tab, Sized(tab), Chained(tab), NEW k \in Keys,
         NEW d, Walked(tab, k, d), Walked(tab, k, d + 1),
         ByteAt(tab, k, d) <= Expected(tab, k, d)
  PROVE  ByteAt(tab, k, d + 1) <= Expected(tab, k, d + 1)
<1>1. d \in Nat /\ d + 1 \in Nat /\ d + 1 > 0
  BY DEF Walked
<1>2. Home(tab, k) + d \in 0..(End(tab) + 1) /\ Home(tab, k) + (d + 1) = (Home(tab, k) + d) + 1
  <2>1. Home(tab, k) \in Nat /\ End(tab) \in Nat
    BY WalkFacts, SizedFacts
  <2> QED  BY <1>1, <2>1 DEF Walked
<1>3. ByteAt(tab, k, d + 1) < 2 * tab.inc \/ ByteAt(tab, k, d + 1) <= ByteAt(tab, k, d) + tab.inc
  BY <1>2 DEF Chained, ByteAt
<1>4. /\ Expected(tab, k, d) \in Nat
      /\ Expected(tab, k, d + 1) = Expected(tab, k, d) + tab.inc
      /\ Expected(tab, k, d + 1) >= 2 * tab.inc
  <2>1. Expected(tab, k, d) \in Nat /\ Expected(tab, k, d + 1) = Expected(tab, k, d) + tab.inc
    BY <1>1, ExpectedFacts
  <2>2. Expected(tab, k, d + 1) >= 2 * tab.inc
    BY <1>1, ExpectedFacts
  <2> QED  BY <2>1, <2>2
<1>5. ByteAt(tab, k, d) \in Nat /\ ByteAt(tab, k, d + 1) \in Nat /\ tab.inc \in Nat
  BY WalkFacts, SizedFacts
<1> QED  BY <1>3, <1>4, <1>5

(* The slot of a key that is there.                                        *)
LEMMA SlotFacts ==
  ASSUME hash \in HashFunctions, NEW tab, Good(tab), NEW i \in DOMAIN tab.at
  PROVE  LET k == tab.at[i]
             d == i - Home(tab, k)
         IN /\ k \in Keys /\ d \in Nat /\ i = Home(tab, k) + d /\ i < End(tab) /\ Walked(tab, k, d)
            /\ ByteAt(tab, k, d) = Expected(tab, k, d) /\ Match(tab, k, d)
            /\ \A e \in 0..d : ByteAt(tab, k, e) >= Expected(tab, k, e)
<1> DEFINE k == tab.at[i]
           d == i - Home(tab, k)
<1>1. Sized(tab) /\ Truthful(tab) /\ Chained(tab)
  BY DEF Good
<1>2. k \in Keys /\ i \in Nat /\ End(tab) \in Nat
  BY <1>1, SizedFacts
<1>3. i < End(tab) /\ i >= Home(tab, k) /\ tab.info[i] = Expected(tab, k, d)
  BY <1>1 DEF Truthful
<1> HIDE DEF k
<1>4. Home(tab, k) \in Nat
  BY <1>1, <1>2, WalkFacts
<1>5. d \in Nat /\ i = Home(tab, k) + d /\ Walked(tab, k, d)
  BY <1>2, <1>3, <1>4 DEF Walked
<1>6. ByteAt(tab, k, d) = Expected(tab, k, d)
  BY <1>3, <1>5 DEF ByteAt
<1>7. Match(tab, k, d)
  BY <1>5, <1>6 DEF Match, k
<1>8. Expected(tab, k, d) \in Nat
  BY <1>1, <1>2, <1>5, ExpectedFacts
<1>9. \A e \in 0..d : ByteAt(tab, k, e) >= Expected(tab, k, e)
  <2> HIDE DEF d
  <2> QED  BY <1>1, <1>2, <1>5, <1>6, <1>8, ChainBack
<1> QED  BY <1>2, <1>3, <1>5, <1>6, <1>7, <1>9 DEF k

(* Behind the sentinel every search ends.                                  *)
LEMMA BehindFacts ==
  ASSUME hash \in HashFunctions, NEW tab, Good(tab), NEW k \in Keys,
         NEW p \in {End(tab) + 1, End(tab) + 2}
  PROVE  LET d == p - Home(tab, k)
         IN d \in Nat /\ d > 0 /\ Walked(tab, k, d) /\ ByteAt(tab, k, d) = 0 /\ Expected(tab, k, d) > 0
<1> DEFINE d == p - Home(tab, k)
<1>1. Sized(tab) /\ Truthful(tab) /\ NoStrayBytes(tab)
  BY DEF Good
<1>2. Home(tab, k) \in Nat /\ Home(tab, k) <= End(tab) /\ End(tab) \in Nat
  BY <1>1, WalkFacts, SizedFacts
<1>3. d \in Nat /\ d > 0 /\ Home(tab, k) + d = p /\ Walked(tab, k, d)
  BY <1>2 DEF Walked
<1>4. ByteAt(tab, k, d) = 0
  BY <1>1, <1>3, WallFacts DEF ByteAt
<1>5. tab.inc \in Nat /\ tab.inc > 1
  BY <1>1, SizedFacts
<1> HIDE DEF d
<1>6. Expected(tab, k, d) \in Nat /\ Expected(tab, k, d) >= d + tab.inc
  BY <1>1, <1>3, ExpectedFacts
<1>7. Expected(tab, k, d) > 0
  BY <1>3, <1>5, <1>6
<1> QED  BY <1>3, <1>4, <1>7 DEF d

(* An entry's byte is at least one unit.                                   *)
LEMMA EntryFacts ==
  ASSUME hash \in HashFunctions, NEW tab, Sized(tab), Truthful(tab), NEW i \in DOMAIN tab.at
  PROVE  tab.info[i] \in Nat /\ tab.info[i] >= tab.inc
<1> DEFINE x == tab.at[i]
<1>1. x \in Keys /\ i \in Nat /\ tab.inc \in Nat
  BY SizedFacts
<1>2. i >= Home(tab, x) /\ tab.info[i] = Expected(tab, x, i - Home(tab, x))
  BY DEF Truthful
<1> HIDE DEF x
<1>3. Home(tab, x) \in Nat
  BY <1>1, WalkFacts
<1>4. i - Home(tab, x) \in Nat
  BY <1>1, <1>2, <1>3
<1>5. /\ Expected(tab, x, i - Home(tab, x)) \in Nat
      /\ Expected(tab, x, i - Home(tab, x)) >= (i - Home(tab, x)) + tab.inc
  BY <1>1, <1>4, ExpectedFacts
<1> QED  BY <1>1, <1>2, <1>4, <1>5

(* Where the byte is right there is an entry.                              *)
LEMMA EqualFacts ==
  ASSUME hash \in HashFunctions, NEW tab, Good(tab), NEW k \in Keys, NEW d,
         Walked(tab, k, d), ByteAt(tab, k, d) >= Expected(tab, k, d)
  PROVE  Home(tab, k) + d \in DOMAIN tab.at /\ Home(tab, k) + d < End(tab)
<1>1. Sized(tab) /\ Truthful(tab) /\ NoStrayBytes(tab)
  BY DEF Good
<1>2. d \in Nat /\ Home(tab, k) \in Nat /\ End(tab) \in Nat /\ Home(tab, k) + d \in 0..(End(tab) + 2)
  BY <1>1, WalkFacts, SizedFacts DEF Walked
<1>3. tab.inc \in Nat /\ tab.inc > 1 /\ ByteAt(tab, k, d) \in Nat
  BY <1>1, SizedFacts, WalkFacts
<1>4. Expected(tab, k, d) \in Nat /\ Expected(tab, k, d) >= d + tab.inc
  BY <1>1, <1>2, ExpectedFacts
<1>5. ByteAt(tab, k, d) > 1
  BY <1>2, <1>3, <1>4
<1>6. Home(tab, k) + d \in DOMAIN tab.at
  BY <1>1, <1>2, <1>5, WallFacts DEF ByteAt
<1> QED  BY <1>1, <1>6 DEF Truthful

(* Both loops find a key just when it is there, and in its slot.           *)
LEMMA FindCorrect ==
  ASSUME hash \in HashFunctions, NEW tab, Good(tab), NEW k \in Keys, NEW step \in {1, 2}
  PROVE  LET found == FindDistances(tab, k, step)
         IN /\ found \in SUBSET Nat
            /\ \A d \in found : /\ Home(tab, k) + d \in DOMAIN tab.at
                                /\ tab.at[Home(tab, k) + d] = k
            /\ found # {} <=> k \in Held(tab)
<1> DEFINE turns == {e \in Reach(tab, k) : e > 0 /\ e % step = 0 /\ Expected(tab, k, e) > ByteAt(tab, k, e)}
           found == {d \in 0..(Min(turns) - 1) : Match(tab, k, d)}
<1>1. FindDistances(tab, k, step) = found
  BY DEF FindDistances
<1>2. Sized(tab) /\ Truthful(tab) /\ NoStrayBytes(tab)
  BY DEF Good
<1>3. Home(tab, k) \in Nat /\ Home(tab, k) <= End(tab) /\ End(tab) \in Nat
  BY <1>2, WalkFacts, SizedFacts
<1>4. \E p \in {End(tab) + 1, End(tab) + 2} : (p - Home(tab, k)) % step = 0
  BY <1>3
<1>5. turns # {}
  <2>1. PICK p \in {End(tab) + 1, End(tab) + 2} : (p - Home(tab, k)) % step = 0
    BY <1>4
  <2>2. LET d == p - Home(tab, k)
        IN d \in Nat /\ d > 0 /\ Walked(tab, k, d) /\ ByteAt(tab, k, d) = 0 /\ Expected(tab, k, d) > 0
    BY BehindFacts
  <2>3. p - Home(tab, k) \in Reach(tab, k)
    BY <1>2, <2>2, WalkFacts
  <2> QED  BY <2>1, <2>2, <2>3
<1>6. turns \in SUBSET Nat
  BY <1>2, WalkFacts
<1>7. Min(turns) \in turns /\ \A e \in turns : Min(turns) <= e
  <2> HIDE DEF turns
  <2> QED  BY <1>5, <1>6, MinFacts
<1>8. Min(turns) \in Nat /\ Walked(tab, k, Min(turns))
  BY <1>2, <1>6, <1>7, WalkFacts
<1>9. ASSUME NEW d \in found
      PROVE  Home(tab, k) + d \in DOMAIN tab.at /\ tab.at[Home(tab, k) + d] = k
  <2>1. d \in 0..(Min(turns) - 1) /\ Match(tab, k, d)
    BY <1>9
  <2>2. Walked(tab, k, d)
    BY <1>3, <1>8, <2>1 DEF Walked
  <2>3. ByteAt(tab, k, d) \in Nat
    BY <1>2, <2>2, WalkFacts
  <2>4. ByteAt(tab, k, d) >= Expected(tab, k, d)
    BY <2>1, <2>3 DEF Match
  <2> QED  BY <2>1, <2>2, <2>4, EqualFacts DEF Match
<1>10. ASSUME NEW i \in DOMAIN tab.at, tab.at[i] = k
       PROVE  i - Home(tab, k) \in found
  <2> DEFINE d == i - Home(tab, k)
  <2>1. /\ d \in Nat /\ Match(tab, k, d)
        /\ \A e \in 0..d : ByteAt(tab, k, e) >= Expected(tab, k, e)
    BY <1>10, SlotFacts
  <2>2. Expected(tab, k, Min(turns)) > ByteAt(tab, k, Min(turns))
    BY <1>7
  <2> HIDE DEF turns, d
  <2>3. ByteAt(tab, k, Min(turns)) \in Nat /\ Expected(tab, k, Min(turns)) \in Nat
    BY <1>2, <1>8, WalkFacts, ExpectedFacts
  <2>4. Min(turns) \notin 0..d
    BY <2>1, <2>2, <2>3
  <2>5. d \in 0..(Min(turns) - 1)
    BY <1>8, <2>1, <2>4
  <2> QED  BY <2>1, <2>5 DEF d
<1>11. found # {} <=> k \in Held(tab)
  <2> HIDE DEF found
  <2> QED  BY <1>9, <1>10 DEF Held
<1>12. found \in SUBSET Nat
  BY <1>8
<1> HIDE DEF found
<1> QED  BY <1>1, <1>9, <1>11, <1>12

(* FindIdx is the end just for a key that is not there.                    *)
LEMMA FindIdxCorrect ==
  ASSUME hash \in HashFunctions, NEW tab, Good(tab), NEW k \in Keys
  PROVE  FindIdx(tab, k) # End(tab) <=> k \in Held(tab)
<1> DEFINE found == FindDistances(tab, k, 2)
<1>1. /\ found \in SUBSET Nat
      /\ \A d \in found : Home(tab, k) + d \in DOMAIN tab.at
      /\ found # {} <=> k \in Held(tab)
  BY FindCorrect
<1>2. FindIdx(tab, k) = IF found = {} THEN End(tab) ELSE Home(tab, k) + Min(found)
  BY DEF FindIdx
<1>3. found # {} => Min(found) \in found
  <2> HIDE DEF found
  <2> QED  BY <1>1, MinFacts
<1>4. \A i \in DOMAIN tab.at : i < End(tab) /\ i \in Nat
  BY SizedFacts DEF Good, Truthful
<1>5. End(tab) \in Nat
  BY SizedFacts DEF Good
<1> HIDE DEF found
<1>6. found # {} => Home(tab, k) + Min(found) < End(tab) /\ Home(tab, k) + Min(found) \in Nat
  BY <1>1, <1>3, <1>4
<1>7. found # {} => FindIdx(tab, k) # End(tab)
  BY <1>2, <1>5, <1>6
<1> QED  BY <1>1, <1>2, <1>7

(* Where a key may be put: behind all that are as far from home as it.     *)
InsertSpot(tab, k, d) ==
  /\ Walked(tab, k, d) /\ Home(tab, k) + d <= End(tab)
  /\ ByteAt(tab, k, d) < Expected(tab, k, d)
  /\ d > 0 => ByteAt(tab, k, d - 1) >= Expected(tab, k, d - 1)

(* A place nobody is nearer than is in front of the sentinel.              *)
LEMMA SpotFacts ==
  ASSUME hash \in HashFunctions, NEW tab, Good(tab), NEW k \in Keys, NEW d, Walked(tab, k, d),
         ByteAt(tab, k, d) < Expected(tab, k, d),
         d > 0 => ByteAt(tab, k, d - 1) >= Expected(tab, k, d - 1)
  PROVE  InsertSpot(tab, k, d)
<1>1. Sized(tab)
  BY DEF Good
<1>2. Home(tab, k) \in Nat /\ Home(tab, k) <= End(tab) /\ End(tab) \in Nat /\ d \in Nat
  BY <1>1, WalkFacts, SizedFacts DEF Walked
<1>3. CASE d = 0
  BY <1>2, <1>3 DEF InsertSpot
<1>4. CASE d > 0
  <2>1. Walked(tab, k, d - 1)
    BY <1>2, <1>4 DEF Walked
  <2>2. Home(tab, k) + (d - 1) < End(tab)
    BY <1>4, <2>1, EqualFacts
  <2>3. Home(tab, k) + d <= End(tab)
    BY <1>2, <2>2
  <2> QED  BY <1>4, <2>3 DEF InsertSpot
<1> QED  BY <1>2, <1>3, <1>4

(* insert_move finds such a place.                                         *)
LEMMA FirstGreaterSpot ==
  ASSUME hash \in HashFunctions, NEW tab, Good(tab), NEW k \in Keys
  PROVE  InsertSpot(tab, k, FirstGreater(tab, k))
<1> DEFINE S == {d \in Reach(tab, k) : Expected(tab, k, d) > ByteAt(tab, k, d)}
<1>1. Sized(tab)
  BY DEF Good
<1>2. S # {}
  <2> DEFINE e == (End(tab) + 1) - Home(tab, k)
  <2>1. e \in Nat /\ Walked(tab, k, e) /\ ByteAt(tab, k, e) = 0 /\ Expected(tab, k, e) > 0
    BY BehindFacts
  <2> QED  BY <1>1, <2>1, WalkFacts
<1>3. S \in SUBSET Nat
  BY <1>1, WalkFacts
<1> DEFINE g == Min(S)
<1>4. g \in S /\ \A d \in S : g <= d
  <2> HIDE DEF S
  <2> QED  BY <1>2, <1>3, MinFacts
<1>5. g \in Nat /\ Walked(tab, k, g) /\ Expected(tab, k, g) > ByteAt(tab, k, g)
  <2>1. g \in Reach(tab, k) /\ Expected(tab, k, g) > ByteAt(tab, k, g)
    BY <1>4
  <2> HIDE DEF g
  <2> QED  BY <1>1, <2>1, WalkFacts
<1>6. ByteAt(tab, k, g) \in Nat /\ Expected(tab, k, g) \in Nat
  <2> HIDE DEF g
  <2> QED  BY <1>1, <1>5, WalkFacts, ExpectedFacts
<1>7. ASSUME g > 0 PROVE ByteAt(tab, k, g - 1) >= Expected(tab, k, g - 1)
  <2>1. g - 1 \in Nat /\ Walked(tab, k, g - 1) /\ ~(g <= g - 1)
    <3>1. Home(tab, k) \in Nat /\ End(tab) \in Nat
      BY <1>1, WalkFacts, SizedFacts
    <3> HIDE DEF g
    <3> QED  BY <1>5, <1>7, <3>1 DEF Walked
  <2>2. g - 1 \notin S
    <3> HIDE DEF S
    <3> QED  BY <1>4, <2>1
  <2>3. ~(Expected(tab, k, g - 1) > ByteAt(tab, k, g - 1))
    BY <1>1, <2>1, <2>2, WalkFacts
  <2> HIDE DEF g
  <2>4. ByteAt(tab, k, g - 1) \in Nat /\ Expected(tab, k, g - 1) \in Nat
    BY <1>1, <2>1, WalkFacts, ExpectedFacts
  <2> QED  BY <2>3, <2>4
<1>8. g = FirstGreater(tab, k)
  BY DEF FirstGreater
<1> HIDE DEF g
<1>9. ByteAt(tab, k, g) < Expected(tab, k, g)
  BY <1>5, <1>6
<1> QED  BY <1>5, <1>7, <1>8, <1>9, SpotFacts

(* insertKeyPrepareEmptySpot finds the key, or such a place.               *)
LEMMA RunEndSpot ==
  ASSUME hash \in HashFunctions, NEW tab, Good(tab), NEW k \in Keys
  PROVE  /\ InsertSpot(tab, k, RunEnd(tab, k))
         /\ KeyFound(tab, k) <=> k \in Held(tab)
<1> DEFINE F == {d \in Reach(tab, k) : Expected(tab, k, d) >= ByteAt(tab, k, d)}
           f == FirstNotLess(tab, k)
           R == {d \in Reach(tab, k) : d >= f /\ Expected(tab, k, d) # ByteAt(tab, k, d)}
           r == RunEnd(tab, k)
           b == (End(tab) + 1) - Home(tab, k)
<1>1. Sized(tab) /\ Chained(tab)
  BY DEF Good
<1>2. b \in Nat /\ Walked(tab, k, b) /\ ByteAt(tab, k, b) = 0 /\ Expected(tab, k, b) > 0
  BY BehindFacts
<1>3. \A d : Walked(tab, k, d) => d \in Nat /\ ByteAt(tab, k, d) \in Nat /\ Expected(tab, k, d) \in Nat
  BY <1>1, WalkFacts, ExpectedFacts DEF Walked
<1>4. \A d : d \in Reach(tab, k) <=> Walked(tab, k, d)
  BY <1>1, WalkFacts
<1>5. F \in SUBSET Nat /\ R \in SUBSET Nat
  BY <1>1, WalkFacts
<1> HIDE DEF b
<1>6. b \in F
  BY <1>2, <1>3, <1>4
<1>7. f \in F /\ \A d \in F : f <= d
  <2>1. f = Min(F)
    BY DEF FirstNotLess
  <2> HIDE DEF f, F
  <2> QED  BY <1>5, <1>6, <2>1, MinFacts
<1>8. f \in Nat /\ Walked(tab, k, f) /\ Expected(tab, k, f) >= ByteAt(tab, k, f)
  <2> HIDE DEF f
  <2> QED  BY <1>3, <1>4, <1>7
<1>9. b \in R
  <2>1. b >= f
    <3> HIDE DEF f, F
    <3> QED  BY <1>2, <1>6, <1>7, <1>8
  <2> QED  BY <1>2, <1>4, <2>1
<1>10. r \in R /\ \A d \in R : r <= d
  <2>1. r = Min(R)
    BY DEF RunEnd
  <2> HIDE DEF r, R
  <2> QED  BY <1>5, <1>9, <2>1, MinFacts
<1>11. r \in Nat /\ Walked(tab, k, r) /\ r >= f /\ Expected(tab, k, r) # ByteAt(tab, k, r)
  <2> HIDE DEF r, f
  <2> QED  BY <1>3, <1>4, <1>10
<1>12. ASSUME NEW d \in Nat, d >= f, d < r
       PROVE  Walked(tab, k, d) /\ ByteAt(tab, k, d) = Expected(tab, k, d)
  <2>1. Home(tab, k) \in Nat /\ End(tab) \in Nat
    BY <1>1, WalkFacts, SizedFacts
  <2> HIDE DEF r, f
  <2>2. Walked(tab, k, d)
    BY <1>11, <1>12, <2>1 DEF Walked
  <2>3. ~(r <= d)
    BY <1>11, <1>12
  <2>4. d \notin R
    <3> HIDE DEF R
    <3> QED  BY <1>10, <2>3
  <2> QED  BY <1>4, <1>12, <2>2, <2>4
<1>13. ASSUME NEW d \in Nat, d < f
       PROVE  Walked(tab, k, d) /\ ByteAt(tab, k, d) >= Expected(tab, k, d)
  <2>1. Home(tab, k) \in Nat /\ End(tab) \in Nat
    BY <1>1, WalkFacts, SizedFacts
  <2> HIDE DEF f
  <2>2. Walked(tab, k, d)
    BY <1>8, <1>13, <2>1 DEF Walked
  <2>3. ~(f <= d)
    BY <1>8, <1>13
  <2>4. d \notin F
    <3> HIDE DEF F
    <3> QED  BY <1>7, <2>3
  <2> QED  BY <1>3, <1>4, <2>2, <2>4
<1> HIDE DEF r, f, F, R
<1>14. ASSUME r > 0 PROVE r - 1 \in Nat /\ Walked(tab, k, r - 1) /\ ByteAt(tab, k, r - 1) >= Expected(tab, k, r - 1)
  <2>1. r - 1 \in Nat
    BY <1>11, <1>14
  <2>2. CASE r = f
    <3>1. r - 1 < f
      BY <1>8, <2>2
    <3> QED  BY <1>13, <2>1, <3>1
  <2>3. CASE r # f
    <3>1. r - 1 >= f /\ r - 1 < r
      BY <1>8, <1>11, <2>3
    <3>2. Walked(tab, k, r - 1) /\ ByteAt(tab, k, r - 1) = Expected(tab, k, r - 1)
      BY <1>12, <2>1, <3>1
    <3> QED  BY <1>3, <2>1, <3>2
  <2> QED  BY <2>2, <2>3
<1>15. ByteAt(tab, k, r) < Expected(tab, k, r)
  <2>1. ByteAt(tab, k, r) \in Nat /\ Expected(tab, k, r) \in Nat
    BY <1>3, <1>11
  <2>2. CASE r = f
    BY <1>8, <1>11, <2>1, <2>2
  <2>3. CASE r # f
    <3>1. r - 1 >= f /\ r - 1 < r /\ r - 1 \in Nat /\ (r - 1) + 1 = r
      BY <1>8, <1>11, <2>3
    <3>2. Walked(tab, k, r - 1) /\ ByteAt(tab, k, r - 1) = Expected(tab, k, r - 1)
      BY <1>12, <3>1
    <3>3. ByteAt(tab, k, r - 1) <= Expected(tab, k, r - 1)
      BY <1>3, <3>2
    <3>4. ByteAt(tab, k, (r - 1) + 1) <= Expected(tab, k, (r - 1) + 1)
      BY <1>1, <1>11, <3>1, <3>2, <3>3, ChainOn
    <3>5. ByteAt(tab, k, r) <= Expected(tab, k, r)
      BY <3>1, <3>4
    <3> QED  BY <1>11, <2>1, <3>5
  <2> QED  BY <2>2, <2>3
<1>16. InsertSpot(tab, k, r)
  BY <1>11, <1>14, <1>15, SpotFacts
<1>17. ASSUME KeyFound(tab, k) PROVE k \in Held(tab)
  <2>1. PICK d \in f..(r - 1) : Match(tab, k, d)
    BY <1>17 DEF KeyFound, f, r
  <2>2. d \in Nat /\ d >= f /\ d < r
    BY <1>8, <1>11, <2>1
  <2>3. Walked(tab, k, d) /\ ByteAt(tab, k, d) >= Expected(tab, k, d)
    BY <1>3, <1>12, <2>2
  <2>4. Home(tab, k) + d \in DOMAIN tab.at
    BY <2>3, EqualFacts
  <2> QED  BY <2>1, <2>4 DEF Held, Match
<1>18. ASSUME k \in Held(tab) PROVE KeyFound(tab, k)
  <2>1. PICK i \in DOMAIN tab.at : tab.at[i] = k
    BY <1>18 DEF Held
  <2> DEFINE d == i - Home(tab, k)
  <2>2. /\ d \in Nat /\ Walked(tab, k, d) /\ Match(tab, k, d) /\ ByteAt(tab, k, d) = Expected(tab, k, d)
        /\ \A e \in 0..d : ByteAt(tab, k, e) >= Expected(tab, k, e)
    BY <2>1, SlotFacts
  <2> HIDE DEF d
  <2>3. f <= d
    <3>1. d \in F
      BY <1>3, <1>4, <2>2 DEF F
    <3> QED  BY <1>7, <3>1
  <2>4. r \notin 0..d
    <3>1. ByteAt(tab, k, r) \in Nat /\ Expected(tab, k, r) \in Nat
      BY <1>3, <1>11
    <3> QED  BY <1>15, <2>2, <3>1
  <2>5. d \in f..(r - 1)
    BY <1>8, <1>11, <2>2, <2>3, <2>4
  <2> QED  BY <2>2, <2>5 DEF KeyFound, f, r
<1> QED  BY <1>16, <1>17, <1>18 DEF r

(***************************************************************************)
(* Putting a key.                                                          *)
(***************************************************************************)

(* The search for a key depends on these fields only.                      *)
SameSearch(new, tab) ==
  /\ new.mask = tab.mask /\ new.mult = tab.mult /\ new.inc = tab.inc /\ new.cut = tab.cut

(* Equal fields, equal searches.                                           *)
LEMMA SameSearchFacts ==
  ASSUME NEW new, NEW tab, SameSearch(new, tab)
  PROVE  /\ End(new) = End(tab)
         /\ \A k : Home(new, k) = Home(tab, k) /\ Info(new, k) = Info(tab, k)
         /\ \A k, d : Expected(new, k, d) = Expected(tab, k, d)
<1>1. new.mask = tab.mask /\ new.mult = tab.mult /\ new.inc = tab.inc /\ new.cut = tab.cut
  BY DEF SameSearch
<1>2. End(new) = End(tab)
  BY <1>1 DEF End
<1>3. \A k : Home(new, k) = Home(tab, k) /\ Info(new, k) = Info(tab, k)
  BY <1>1 DEF Home, Info
<1>4. \A k, d : Expected(new, k, d) = Expected(tab, k, d)
  BY <1>1, <1>3 DEF Expected
<1> QED  BY <1>2, <1>3, <1>4

(* new is tab with the slots from that of k to the empty one e moved up.   *)
Opened(tab, new, k, d, e) ==
  LET i == Home(tab, k) + d
      v == Expected(tab, k, d)
  IN /\ SameSearch(new, tab) /\ new \in Tables
     /\ i \in Nat /\ e \in Nat /\ i <= e /\ e < End(tab)
     /\ tab.info[e] = 0 /\ e \notin DOMAIN tab.at
     /\ \A j \in i..(e - 1) : j \in DOMAIN tab.at
     /\ v <= InfoTop
     /\ DOMAIN new.info = DOMAIN tab.info
     /\ \A j \in DOMAIN tab.info :
          new.info[j] = IF j = i THEN v ELSE IF j \in (i + 1)..e THEN tab.info[j - 1] + tab.inc ELSE tab.info[j]
     /\ DOMAIN new.at = DOMAIN tab.at \cup {e}
     /\ \A j \in DOMAIN new.at :
          new.at[j] = IF j = i THEN k ELSE IF j \in (i + 1)..e THEN tab.at[j - 1] ELSE tab.at[j]
     /\ new.num = tab.num + 1
     /\ new.max \in {0, tab.max}
     /\ new.max # 0 => \A j \in i..e : new.info[j] + tab.inc <= InfoTop

(* There is an empty slot in front of the sentinel.                        *)
LEMMA EmptyFacts ==
  ASSUME hash \in HashFunctions, NEW tab, Good(tab), NEW k \in Keys, NEW d, InsertSpot(tab, k, d),
         tab.mask # 0, tab.num < CalcMaxNumElementsAllowed(tab.mask + 1)
  PROVE  LET i == Home(tab, k) + d
             e == Min({j \in DOMAIN tab.info : j >= i /\ tab.info[j] = 0})
         IN /\ i \in Nat /\ e \in Nat /\ i <= e /\ e < End(tab) /\ tab.info[e] = 0
            /\ \A j \in i..(e - 1) : j \in DOMAIN tab.at
<1> DEFINE i == Home(tab, k) + d
           S == {j \in DOMAIN tab.info : j >= i /\ tab.info[j] = 0}
           e == Min(S)
           n == End(tab)
<1>1. Sized(tab) /\ Truthful(tab) /\ NoStrayBytes(tab) /\ Chained(tab) /\ RightCount(tab)
  BY DEF Good
<1>2. /\ Home(tab, k) \in Nat /\ d \in Nat /\ n \in Nat /\ i \in Nat /\ i <= n
      /\ DOMAIN tab.info = 0..(n + 2) /\ tab.mask \in Nat
  BY <1>1, WalkFacts, SizedFacts DEF InsertSpot, Walked
<1>3. Home(tab, k) <= tab.mask
  BY <1>1, HashFacts
<1>4. S \in SUBSET Nat /\ n + 1 \in S
  BY <1>1, <1>2, WallFacts
<1>5. e \in S /\ \A j \in S : e <= j
  <2> HIDE DEF S
  <2> QED  BY <1>4, MinFacts
<1>6. e \in Nat /\ i <= e /\ e <= n + 1 /\ tab.info[e] = 0
  <2>1. e \in Nat /\ i <= e /\ tab.info[e] = 0
    BY <1>2, <1>5
  <2>2. e <= n + 1
    <3> HIDE DEF S
    <3> QED  BY <1>4, <1>5
  <2> QED  BY <2>1, <2>2
<1>7. e # n
  <2>1. tab.info[n] = 1
    BY <1>1 DEF NoStrayBytes
  <2> HIDE DEF e, n
  <2> QED  BY <1>6, <2>1
<1>8. ASSUME NEW j \in Home(tab, k)..(n - 1), j < e
      PROVE  j \in DOMAIN tab.at
  <2>1. j \in 0..(n + 2) /\ j # n
    BY <1>2
  <2>2. CASE j >= i
    <3>1. j \notin S
      <4>1. ~(e <= j)
        BY <1>6, <1>8
      <4> HIDE DEF S
      <4> QED  BY <1>5, <4>1
    <3>2. tab.info[j] # 0
      BY <1>2, <2>1, <2>2, <3>1
    <3> QED  BY <1>1, <2>1, <3>2, WallFacts
  <2>3. CASE ~(j >= i)
    <3> DEFINE b == j - Home(tab, k)
    <3>1. b \in Nat /\ b \in 0..(d - 1) /\ d > 0 /\ d - 1 \in Nat /\ Home(tab, k) + b = j
      BY <1>2, <2>3
    <3>2. Walked(tab, k, d - 1) /\ ByteAt(tab, k, d - 1) >= Expected(tab, k, d - 1)
      BY <1>2, <3>1 DEF InsertSpot, Walked
    <3> HIDE DEF b
    <3>3. ByteAt(tab, k, b) >= Expected(tab, k, b)
      BY <1>1, <3>1, <3>2, ChainBack
    <3>4. Walked(tab, k, b)
      BY <1>2, <3>1 DEF Walked
    <3> QED  BY <3>1, <3>3, <3>4, EqualFacts
  <2> QED  BY <2>2, <2>3
<1>9. e < n
  <2>1. SUFFICES ASSUME e > n PROVE FALSE
    BY <1>2, <1>6, <1>7
  <2> DEFINE D == Home(tab, k)..(n - 1)
             a == CalcMaxNumElementsAllowed(tab.mask + 1)
  <2>2. D \subseteq DOMAIN tab.at
    <3> SUFFICES ASSUME NEW j \in D PROVE j \in DOMAIN tab.at
      OBVIOUS
    <3>1. j < e
      BY <1>2, <1>6, <2>1
    <3> QED  BY <1>8, <3>1
  <2>3. IsFiniteSet(D) /\ Cardinality(D) = n - Home(tab, k)
    <3>1. n - 1 >= Home(tab, k)
      BY <1>1, <1>2, <1>3, EndFacts
    <3>2. n - 1 \in Int /\ Home(tab, k) \in Int
      BY <1>2
    <3>3. IsFiniteSet(D) /\ Cardinality(D) = (n - 1) - Home(tab, k) + 1
      <4> HIDE DEF n
      <4> QED  BY <3>1, <3>2, FS_Interval
    <3> QED  BY <1>2, <3>3
  <2>4. n - Home(tab, k) <= tab.num
    <3>1. IsFiniteSet(DOMAIN tab.at) /\ tab.num = Cardinality(DOMAIN tab.at)
      BY <1>1 DEF RightCount
    <3>2. Cardinality(D) <= Cardinality(DOMAIN tab.at)
      <4> HIDE DEF D
      <4> QED  BY <2>2, <3>1, FS_Subset
    <3> QED  BY <2>3, <3>1, <3>2
  <2>5. a \in Nat /\ n > tab.mask + 1 /\ (n = tab.mask + 1 + a \/ n = tab.mask + 1 + InfoTop)
    BY <1>2, EndFacts
  <2>6. tab.num \in Nat /\ tab.num < a
    BY <1>1, SizedFacts
  <2>7. n = tab.mask + 1 + InfoTop
    <3> HIDE DEF a, n
    <3> QED  BY <1>2, <1>3, <2>4, <2>5, <2>6
  <2>8. n - 1 \in DOMAIN tab.at
    <3>1. n - 1 \in D
      BY <1>2, <1>3, <2>5
    <3> QED  BY <2>2, <3>1
  <2> DEFINE q == tab.at[n - 1]
             c == (n - 1) - Home(tab, q)
  <2>9. /\ q \in Keys /\ c \in Nat /\ Walked(tab, q, c)
        /\ ByteAt(tab, q, c) = Expected(tab, q, c)
    BY <2>8, SlotFacts
  <2> HIDE DEF q, n
  <2>10. Home(tab, q) \in 0..tab.mask
    BY <1>1, <2>9, HashFacts
  <2>11. InfoTop \in Nat /\ tab.inc \in Nat /\ tab.inc > 1
    BY <1>1, ConstFacts, SizedFacts
  <2>12. c >= InfoTop
    <3>1. n \in Nat /\ tab.mask \in Nat /\ Home(tab, q) \in Nat /\ Home(tab, q) <= tab.mask
      BY <1>2, <2>10
    <3> QED  BY <2>7, <2>11, <3>1
  <2> HIDE DEF c
  <2>13. Expected(tab, q, c) \in Nat /\ Expected(tab, q, c) >= c + tab.inc
    BY <1>1, <2>9, ExpectedFacts
  <2>14. ByteAt(tab, q, c) <= InfoTop
    BY <1>1, <2>9, WalkFacts
  <2> QED  BY <2>9, <2>11, <2>12, <2>13, <2>14
<1>10. \A j \in i..(e - 1) : j \in DOMAIN tab.at
  <2> TAKE j \in i..(e - 1)
  <2>1. j \in Home(tab, k)..(n - 1) /\ j < e
    <3> HIDE DEF e, n
    <3> QED  BY <1>2, <1>6, <1>9
  <2> QED  BY <1>8, <2>1
<1> QED  BY <1>2, <1>6, <1>9, <1>10

(* Placing an entry moves the slots up to the next empty one; no byte is   *)
(* truncated.                                                              *)
LEMMA PlacedOpened ==
  ASSUME hash \in HashFunctions, NEW tab, Good(tab), NEW k \in Keys, NEW d, InsertSpot(tab, k, d),
         tab.max # 0, tab.num < CalcMaxNumElementsAllowed(tab.mask + 1)
  PROVE  \E e : Opened(tab, Placed(tab, k, d), k, d, e)
<1> DEFINE i == Home(tab, k) + d
           e == Min({j \in DOMAIN tab.info : j >= i /\ tab.info[j] = 0})
           up == [j \in (i + 1)..e |-> (tab.info[j - 1] + tab.inc) % (InfoTop + 1)]
           v == Expected(tab, k, d)
           full == v + tab.inc > InfoTop \/ \E j \in DOMAIN up : up[j] + tab.inc > InfoTop
           info1 == [j \in DOMAIN tab.info |-> IF j = i THEN v % (InfoTop + 1)
                                               ELSE IF j \in DOMAIN up THEN up[j] ELSE tab.info[j]]
           at1 == [j \in DOMAIN tab.at \cup {e} |->
                     IF j = i THEN k ELSE IF j \in DOMAIN up THEN tab.at[j - 1] ELSE tab.at[j]]
           max1 == IF full THEN 0 ELSE tab.max
           new == Placed(tab, k, d)
<1>1. new = [tab EXCEPT !.info = info1, !.at = at1, !.num = tab.num + 1, !.max = max1]
  BY DEF Placed
<1>2. Sized(tab) /\ Truthful(tab) /\ NoStrayBytes(tab) /\ Roomy(tab)
  BY DEF Good
<1>3. tab.mask # 0
  BY <1>2 DEF Sized
<1>4. /\ i \in Nat /\ e \in Nat /\ i <= e /\ e < End(tab) /\ tab.info[e] = 0
      /\ \A j \in i..(e - 1) : j \in DOMAIN tab.at
  BY <1>3, EmptyFacts
<1>5. tab \in Tables
  BY <1>2 DEF Sized
<1> HIDE DEF info1, at1, max1, e
<1>6. /\ new.mask = tab.mask /\ new.mult = tab.mult /\ new.inc = tab.inc /\ new.cut = tab.cut
      /\ new.info = info1 /\ new.at = at1 /\ new.num = tab.num + 1 /\ new.max = max1
  BY <1>1, <1>5 DEF Tables
<1>7. /\ DOMAIN tab.info = 0..(End(tab) + 2) /\ End(tab) \in Nat /\ tab.inc \in Nat /\ tab.inc > 1
      /\ \A j \in 0..(End(tab) + 2) : tab.info[j] \in Nat /\ tab.info[j] <= InfoTop
      /\ DOMAIN tab.at \subseteq Nat /\ \A j \in DOMAIN tab.at : tab.at[j] \in Keys
      /\ tab.num \in Nat /\ tab.max \in Nat
  BY <1>2, SizedFacts
<1>8. InfoTop \in Nat /\ 2 * InitialInfoInc <= InfoTop + 1 /\ InitialInfoInc \in Nat
  BY ConstFacts
<1>9. \A j \in DOMAIN tab.at : tab.info[j] + tab.inc <= InfoTop
  BY <1>2 DEF Roomy
<1>10. d \in Nat /\ Walked(tab, k, d)
  BY DEF InsertSpot, Walked
<1>11. v \in Nat /\ v <= InfoTop
  <2>1. /\ Expected(tab, k, d) \in Nat
        /\ d > 0 => Expected(tab, k, d - 1) = Expected(tab, k, d) - tab.inc
    BY <1>2, <1>10, ExpectedFacts
  <2>2. CASE d = 0
    <3>1. v < 2 * tab.inc
      BY <1>2, <2>2, ExpectedHome, HashFacts
    <3>2. tab.inc <= InitialInfoInc
      <4>1. tab.cut \in Nat /\ tab.cut # 0 /\ InitialInfoInc = tab.inc * tab.cut
        BY <1>2, HashFacts DEF Sized
      <4>2. tab.cut > 0
        BY <4>1
      <4>3. tab.inc * tab.cut >= tab.inc
        BY <1>7, <4>1, <4>2, TimesFacts
      <4> QED  BY <4>1, <4>3
    <3> QED  BY <1>7, <1>8, <2>1, <3>1, <3>2
  <2>3. CASE d > 0
    <3>1. Walked(tab, k, d - 1) /\ ByteAt(tab, k, d - 1) >= Expected(tab, k, d - 1)
      <4>1. Home(tab, k) \in Nat /\ End(tab) \in Nat
        BY <1>2, <1>7, WalkFacts
      <4> QED  BY <1>10, <2>3, <4>1 DEF InsertSpot, Walked
    <3>2. Home(tab, k) + (d - 1) \in DOMAIN tab.at
      BY <3>1, EqualFacts
    <3>3. ByteAt(tab, k, d - 1) + tab.inc <= InfoTop
      BY <1>9, <3>2 DEF ByteAt
    <3>4. ByteAt(tab, k, d - 1) \in Nat
      BY <1>2, <3>1, WalkFacts
    <3> QED  BY <1>7, <1>8, <2>1, <2>3, <3>1, <3>3, <3>4
  <2> QED  BY <1>10, <2>2, <2>3
<1>12. \A x \in Nat : x <= InfoTop => x % (InfoTop + 1) = x
  BY <1>8, SmallMod
<1> HIDE DEF v, i
<1>13. \A j \in (i + 1)..e : /\ j \in DOMAIN up /\ j - 1 \in DOMAIN tab.at /\ j - 1 \in 0..(End(tab) + 2)
                             /\ j \in 0..(End(tab) + 2)
                             /\ up[j] = tab.info[j - 1] + tab.inc
                             /\ up[j] \in Nat /\ up[j] <= InfoTop
  <2> TAKE j \in (i + 1)..e
  <2>1. j \in Nat /\ j - 1 \in i..(e - 1) /\ j - 1 \in 0..(End(tab) + 2) /\ j \in 0..(End(tab) + 2)
    BY <1>4, <1>7
  <2>2. j - 1 \in DOMAIN tab.at
    BY <1>4, <2>1
  <2>3. tab.info[j - 1] \in Nat /\ tab.info[j - 1] + tab.inc <= InfoTop
    BY <1>7, <1>9, <2>1, <2>2
  <2>4. tab.info[j - 1] + tab.inc \in Nat
    BY <1>7, <2>3
  <2>5. (tab.info[j - 1] + tab.inc) % (InfoTop + 1) = tab.info[j - 1] + tab.inc
    BY <1>12, <2>3, <2>4
  <2>6. up[j] = (tab.info[j - 1] + tab.inc) % (InfoTop + 1)
    OBVIOUS
  <2> QED  BY <2>1, <2>2, <2>3, <2>4, <2>5, <2>6
<1>14. DOMAIN up = (i + 1)..e
  OBVIOUS
<1> HIDE DEF up
<1>15. v % (InfoTop + 1) = v
  BY <1>11, <1>12
<1>16. /\ DOMAIN info1 = DOMAIN tab.info
       /\ \A j \in DOMAIN tab.info :
            info1[j] = IF j = i THEN v ELSE IF j \in (i + 1)..e THEN tab.info[j - 1] + tab.inc ELSE tab.info[j]
  BY <1>13, <1>14, <1>15 DEF info1
<1>17. info1 \in Infos
  <2>1. \A j \in DOMAIN tab.info : info1[j] \in Nat /\ info1[j] <= InfoTop
    <3> TAKE j \in DOMAIN tab.info
    <3>1. CASE j = i
      BY <1>11, <1>16, <3>1
    <3>2. CASE j # i /\ j \in (i + 1)..e
      BY <1>13, <1>16, <3>2
    <3>3. CASE j # i /\ j \notin (i + 1)..e
      BY <1>7, <1>16, <3>3
    <3> QED  BY <3>1, <3>2, <3>3
  <2>2. info1 \in [0..(End(tab) + 2) -> 0..InfoTop]
    <3>1. \A j \in 0..(End(tab) + 2) : info1[j] \in 0..InfoTop
      BY <1>7, <1>8, <2>1
    <3>2. info1 = [j \in 0..(End(tab) + 2) |-> info1[j]]
      BY <1>7 DEF info1
    <3> QED  BY <3>1, <3>2
  <2>3. End(tab) + 2 \in Nat
    BY <1>7
  <2> QED  BY <2>2, <2>3 DEF Infos
<1>18. /\ DOMAIN at1 = DOMAIN tab.at \cup {e}
       /\ \A j \in DOMAIN at1 :
            at1[j] = IF j = i THEN k ELSE IF j \in (i + 1)..e THEN tab.at[j - 1] ELSE tab.at[j]
  BY <1>14 DEF at1
<1>19. at1 \in Ats
  <2>1. \A j \in DOMAIN at1 : at1[j] \in Keys
    <3> TAKE j \in DOMAIN at1
    <3>1. CASE j = i
      BY <1>18, <3>1
    <3>2. CASE j # i /\ j \in (i + 1)..e
      BY <1>7, <1>13, <1>18, <3>2
    <3>3. CASE j # i /\ j \notin (i + 1)..e
      <4>1. j # e
        BY <1>4, <3>3
      <4>2. j \in DOMAIN tab.at
        BY <1>18, <4>1
      <4> QED  BY <1>7, <1>18, <3>3, <4>2
    <3> QED  BY <3>1, <3>2, <3>3
  <2>2. DOMAIN at1 \in SUBSET Nat
    BY <1>4, <1>7, <1>18
  <2>3. at1 = [j \in DOMAIN at1 |-> at1[j]]
    BY DEF at1
  <2>4. at1 \in [DOMAIN at1 -> Keys]
    BY <2>1, <2>3
  <2> QED  BY <2>2, <2>4 DEF Ats
<1>20. max1 \in {0, tab.max} /\ max1 \in Nat
  BY <1>7 DEF max1
<1>21. new \in Tables
  <2> HIDE DEF new
  <2>1. tab.num + 1 \in Nat
    BY <1>7
  <2> QED  BY <1>1, <1>5, <1>17, <1>19, <1>20, <2>1 DEF Tables
<1>22. max1 # 0 => \A j \in i..e : info1[j] + tab.inc <= InfoTop
  <2> SUFFICES ASSUME max1 # 0, NEW j \in i..e PROVE info1[j] + tab.inc <= InfoTop
    OBVIOUS
  <2>1. ~(v + tab.inc > InfoTop) /\ \A m \in (i + 1)..e : ~(up[m] + tab.inc > InfoTop)
    BY <1>14 DEF max1
  <2>2. j \in DOMAIN tab.info
    BY <1>4, <1>7
  <2>3. CASE j = i
    BY <1>7, <1>8, <1>11, <1>16, <2>1, <2>2, <2>3
  <2>4. CASE j # i
    <3>1. j \in (i + 1)..e
      BY <1>4, <2>4
    <3>2. info1[j] = up[j] /\ up[j] \in Nat
      BY <1>13, <1>16, <2>2, <2>4, <3>1
    <3> QED  BY <1>7, <1>8, <2>1, <3>1, <3>2
  <2> QED  BY <2>3, <2>4
<1>23. e \notin DOMAIN tab.at
  BY <1>2, <1>4, WallFacts
<1>24. SameSearch(new, tab)
  BY <1>6 DEF SameSearch
<1> HIDE DEF new
<1>25. Opened(tab, new, k, d, e)
  BY <1>4, <1>6, <1>11, <1>16, <1>18, <1>20, <1>21, <1>22, <1>23, <1>24 DEF Opened, i, v
<1> QED  BY <1>25 DEF new

(* The entries of the new table are those of the old one, and k.           *)
LEMMA OpenedEntries ==
  ASSUME hash \in HashFunctions, NEW tab, NEW new, NEW k, NEW d, NEW e, Good(tab),
         Opened(tab, new, k, d, e)
  PROVE  LET i == Home(tab, k) + d
             was(j) == IF j \in (i + 1)..e THEN j - 1 ELSE j
         IN /\ i \in DOMAIN new.at /\ new.at[i] = k
            /\ \A j \in DOMAIN new.at : j # i =>
                 /\ was(j) \in DOMAIN tab.at /\ new.at[j] = tab.at[was(j)]
                 /\ new.info[j] = tab.info[was(j)] + (IF j \in (i + 1)..e THEN tab.inc ELSE 0)
            /\ \A j, m \in DOMAIN new.at : j # i /\ m # i /\ was(j) = was(m) => j = m
            /\ \A j \in DOMAIN tab.at : \E m \in DOMAIN new.at : m # i /\ was(m) = j
<1> DEFINE i == Home(tab, k) + d
           was(j) == IF j \in (i + 1)..e THEN j - 1 ELSE j
<1>1. /\ i \in Nat /\ e \in Nat /\ i <= e /\ e < End(tab)
      /\ e \notin DOMAIN tab.at
      /\ \A j \in i..(e - 1) : j \in DOMAIN tab.at
      /\ \A j \in DOMAIN tab.info :
           new.info[j] = IF j = i THEN Expected(tab, k, d)
                         ELSE IF j \in (i + 1)..e THEN tab.info[j - 1] + tab.inc ELSE tab.info[j]
      /\ DOMAIN new.at = DOMAIN tab.at \cup {e}
      /\ \A j \in DOMAIN new.at :
           new.at[j] = IF j = i THEN k ELSE IF j \in (i + 1)..e THEN tab.at[j - 1] ELSE tab.at[j]
  BY DEF Opened
<1>2. Sized(tab) /\ Truthful(tab) /\ NoStrayBytes(tab)
  BY DEF Good
<1>3. /\ DOMAIN tab.at \subseteq Nat /\ End(tab) \in Nat /\ DOMAIN tab.info = 0..(End(tab) + 2)
      /\ \A j \in 0..(End(tab) + 2) : tab.info[j] \in Nat
      /\ \A j \in DOMAIN tab.at : j < End(tab)
  BY <1>2, SizedFacts DEF Truthful
<1> HIDE DEF i
<1>4. i \in DOMAIN new.at /\ new.at[i] = k
  <2>1. i \in DOMAIN new.at
    <3>1. CASE i = e
      BY <1>1, <3>1
    <3>2. CASE i # e
      <4>1. i \in i..(e - 1)
        BY <1>1, <3>2
      <4> QED  BY <1>1, <4>1
    <3> QED  BY <3>1, <3>2
  <2> QED  BY <1>1, <2>1
<1>5. ASSUME NEW j \in DOMAIN new.at, j # i
      PROVE  /\ j \in Nat /\ was(j) \in DOMAIN tab.at /\ new.at[j] = tab.at[was(j)]
             /\ new.info[j] = tab.info[was(j)] + (IF j \in (i + 1)..e THEN tab.inc ELSE 0)
  <2>1. j \in Nat /\ j \in DOMAIN tab.info
    BY <1>1, <1>3
  <2>2. CASE j \in (i + 1)..e
    <3>1. j - 1 \in i..(e - 1)
      BY <1>1, <2>1, <2>2
    <3>2. was(j) = j - 1
      BY <2>2
    <3> HIDE DEF was
    <3> QED  BY <1>1, <1>5, <2>1, <2>2, <3>1, <3>2
  <2>3. CASE j \notin (i + 1)..e
    <3>1. was(j) = j
      BY <2>3
    <3> HIDE DEF was
    <3>2. j # e
      BY <1>1, <1>5, <2>1, <2>3
    <3>3. j \in DOMAIN tab.at /\ j \in 0..(End(tab) + 2)
      BY <1>1, <1>3, <2>1, <3>2
    <3>4. tab.info[j] \in Nat
      BY <1>3, <3>3
    <3>5. new.info[j] = tab.info[j]
      BY <1>1, <1>5, <2>1, <2>3
    <3>6. new.at[j] = tab.at[j]
      BY <1>1, <1>5, <2>3
    <3> QED  BY <2>1, <2>3, <3>1, <3>3, <3>4, <3>5, <3>6
  <2> QED  BY <2>2, <2>3
<1>6. ASSUME NEW j \in DOMAIN new.at, NEW m \in DOMAIN new.at, j # i, m # i, was(j) = was(m)
      PROVE  j = m
  <2>1. j \in Nat /\ m \in Nat
    BY <1>5, <1>6
  <2>2. ASSUME NEW x \in DOMAIN new.at, NEW y \in DOMAIN new.at, x # i, y # i, was(x) = was(y),
               x \in (i + 1)..e, y \notin (i + 1)..e
        PROVE  FALSE
    <3>1. x - 1 = y /\ x \in Nat /\ y \in Nat
      BY <1>5, <2>2
    <3>2. y = i
      BY <1>1, <2>2, <3>1
    <3> QED  BY <2>2, <3>2
  <2>3. CASE j \in (i + 1)..e /\ m \in (i + 1)..e
    BY <1>6, <2>1, <2>3
  <2>4. CASE j \notin (i + 1)..e /\ m \notin (i + 1)..e
    BY <1>6, <2>4
  <2> HIDE DEF was
  <2> QED  BY <1>6, <2>2, <2>3, <2>4
<1>7. ASSUME NEW j \in DOMAIN tab.at
      PROVE  \E m \in DOMAIN new.at : m # i /\ was(m) = j
  <2>1. j \in Nat /\ j # e
    BY <1>1, <1>3
  <2>2. CASE j \in i..(e - 1)
    <3>1. j + 1 \in (i + 1)..e /\ j + 1 # i
      BY <1>1, <2>1, <2>2
    <3>2. was(j + 1) = j
      BY <2>1, <3>1
    <3>3. j + 1 \in DOMAIN new.at
      <4>1. j + 1 = e \/ j + 1 \in i..(e - 1)
        BY <1>1, <2>1, <2>2
      <4> QED  BY <1>1, <4>1
    <3> HIDE DEF was
    <3> QED  BY <3>1, <3>2, <3>3
  <2>3. CASE j \notin i..(e - 1)
    <3>1. j \notin (i + 1)..e /\ j # i
      BY <1>1, <2>1, <2>3
    <3>2. was(j) = j
      BY <3>1
    <3> HIDE DEF was
    <3> QED  BY <1>1, <3>1, <3>2
  <2> QED  BY <2>2, <2>3
<1> HIDE DEF was
<1>8. \A j \in DOMAIN new.at : j # i =>
        /\ was(j) \in DOMAIN tab.at /\ new.at[j] = tab.at[was(j)]
        /\ new.info[j] = tab.info[was(j)] + (IF j \in (i + 1)..e THEN tab.inc ELSE 0)
  BY <1>5
<1>9. \A j, m \in DOMAIN new.at : j # i /\ m # i /\ was(j) = was(m) => j = m
  BY <1>6
<1>10. \A j \in DOMAIN tab.at : \E m \in DOMAIN new.at : m # i /\ was(m) = j
  BY <1>7
<1> QED  BY <1>4, <1>8, <1>9, <1>10 DEF was, i

(* A table stays a good one when an entry is placed.                       *)
LEMMA OpenedGood ==
  ASSUME hash \in HashFunctions, NEW tab, NEW new, NEW k \in Keys, NEW d, NEW e, Good(tab),
         InsertSpot(tab, k, d), k \notin Held(tab), Opened(tab, new, k, d, e),
         tab.max # 0, tab.num < CalcMaxNumElementsAllowed(tab.mask + 1)
  PROVE  /\ Good(new) /\ Held(new) = Held(tab) \cup {k}
         /\ new.mask = tab.mask /\ new.num = tab.num + 1
<1> DEFINE i == Home(tab, k) + d
           was(j) == IF j \in (i + 1)..e THEN j - 1 ELSE j
           v == Expected(tab, k, d)
<1>1. /\ SameSearch(new, tab) /\ new \in Tables
      /\ i \in Nat /\ e \in Nat /\ i <= e /\ e < End(tab)
      /\ tab.info[e] = 0 /\ e \notin DOMAIN tab.at
      /\ \A j \in i..(e - 1) : j \in DOMAIN tab.at
      /\ v <= InfoTop
      /\ DOMAIN new.info = DOMAIN tab.info
      /\ \A j \in DOMAIN tab.info :
           new.info[j] = IF j = i THEN v ELSE IF j \in (i + 1)..e THEN tab.info[j - 1] + tab.inc ELSE tab.info[j]
      /\ DOMAIN new.at = DOMAIN tab.at \cup {e}
      /\ new.num = tab.num + 1
      /\ new.max \in {0, tab.max}
      /\ new.max # 0 => \A j \in i..e : new.info[j] + tab.inc <= InfoTop
  BY DEF Opened
<1>2. Sized(tab) /\ Truthful(tab) /\ NoStrayBytes(tab) /\ Chained(tab) /\ Roomy(tab) /\ RightCount(tab)
  BY DEF Good
<1>3. /\ DOMAIN tab.at \subseteq Nat /\ End(tab) \in Nat /\ DOMAIN tab.info = 0..(End(tab) + 2)
      /\ \A j \in 0..(End(tab) + 2) : tab.info[j] \in Nat /\ tab.info[j] <= InfoTop
      /\ tab.inc \in Nat /\ tab.inc > 1 /\ tab.num \in Nat
      /\ \A j \in DOMAIN tab.at : tab.at[j] \in Keys
  BY <1>2, SizedFacts
<1>4. /\ i \in DOMAIN new.at /\ new.at[i] = k
      /\ \A j \in DOMAIN new.at : j # i =>
           /\ was(j) \in DOMAIN tab.at /\ new.at[j] = tab.at[was(j)]
           /\ new.info[j] = tab.info[was(j)] + (IF j \in (i + 1)..e THEN tab.inc ELSE 0)
      /\ \A j, m \in DOMAIN new.at : j # i /\ m # i /\ was(j) = was(m) => j = m
      /\ \A j \in DOMAIN tab.at : \E m \in DOMAIN new.at : m # i /\ was(m) = j
  BY OpenedEntries
<1>5. /\ End(new) = End(tab)
      /\ \A x : Home(new, x) = Home(tab, x) /\ Info(new, x) = Info(tab, x)
      /\ \A x, y : Expected(new, x, y) = Expected(tab, x, y)
      /\ new.mask = tab.mask /\ new.inc = tab.inc /\ new.cut = tab.cut
  BY <1>1, SameSearchFacts DEF SameSearch
<1>6. Home(tab, k) \in Nat /\ d \in Nat /\ v \in Nat
  BY <1>2, WalkFacts, ExpectedFacts DEF InsertSpot, Walked
<1>7. i - Home(tab, k) = d
  BY <1>6
<1> HIDE DEF i, v
<1>8. \A j \in DOMAIN new.at : j \in Nat /\ j < End(tab)
  BY <1>1, <1>2, <1>3 DEF Truthful
<1>9. Sized(new)
  <2>1. new.max \in {0, CalcMaxNumElementsAllowed(new.mask + 1)} /\ (new.mask = 0 => new.max = 0)
    BY <1>1, <1>2, <1>5 DEF Sized
  <2> QED  BY <1>1, <1>2, <1>3, <1>5, <2>1 DEF Sized
<1>10. Held(new) = Held(tab) \cup {k}
  <2>1. ASSUME NEW x \in Held(new) PROVE x \in Held(tab) \cup {k}
    <3>1. PICK j \in DOMAIN new.at : x = new.at[j]
      BY <2>1 DEF Held
    <3> HIDE DEF was
    <3> QED  BY <1>4, <3>1 DEF Held
  <2>2. ASSUME NEW x \in Held(tab) PROVE x \in Held(new)
    <3>1. PICK j \in DOMAIN tab.at : x = tab.at[j]
      BY <2>2 DEF Held
    <3> HIDE DEF was
    <3>2. PICK m \in DOMAIN new.at : m # i /\ was(m) = j
      BY <1>4
    <3> QED  BY <1>4, <3>1, <3>2 DEF Held
  <2>3. k \in Held(new)
    BY <1>4 DEF Held
  <2> QED  BY <2>1, <2>2, <2>3
<1>11. Truthful(new)
  <2>1. ASSUME NEW j \in DOMAIN new.at
        PROVE  /\ j < End(new) /\ j >= Home(new, new.at[j])
               /\ new.info[j] = Expected(new, new.at[j], j - Home(new, new.at[j]))
    <3>1. j \in DOMAIN tab.info /\ j \in Nat
      BY <1>3, <1>8
    <3>2. CASE j = i
      <4>1. new.info[i] = v
        BY <1>1, <3>1, <3>2
      <4>2. i >= Home(tab, k)
        BY <1>6, <1>7, <1>1
      <4>3. Home(new, k) = Home(tab, k) /\ Expected(new, k, d) = v
        BY <1>5 DEF v
      <4>4. new.at[j] = k /\ j = i
        BY <1>4, <3>2
      <4>5. j < End(new)
        BY <1>5, <1>8
      <4> QED  BY <1>7, <4>1, <4>2, <4>3, <4>4, <4>5
    <3>3. CASE j # i
      <4> DEFINE w == was(j)
                 x == new.at[j]
      <4>1. w \in DOMAIN tab.at /\ x = tab.at[w]
            /\ new.info[j] = tab.info[w] + (IF j \in (i + 1)..e THEN tab.inc ELSE 0)
        BY <1>4, <3>3
      <4>2. j = w + (IF j \in (i + 1)..e THEN 1 ELSE 0) /\ w \in Nat
        BY <1>3, <3>1, <4>1
      <4> HIDE DEF w, x
      <4>3. w >= Home(tab, x) /\ tab.info[w] = Expected(tab, x, w - Home(tab, x)) /\ x \in Keys
        BY <1>2, <1>3, <4>1 DEF Truthful
      <4>4. Home(tab, x) \in Nat
        BY <1>2, <4>3, WalkFacts
      <4>5. w - Home(tab, x) \in Nat
        BY <4>2, <4>3, <4>4
      <4>6. /\ Expected(tab, x, w - Home(tab, x)) \in Nat
            /\ Expected(tab, x, (w - Home(tab, x)) + 1) = Expected(tab, x, w - Home(tab, x)) + tab.inc
        BY <1>2, <4>3, <4>5, ExpectedFacts
      <4>7. new.info[j] = Expected(tab, x, j - Home(tab, x))
        <5>1. CASE j \in (i + 1)..e
          <6>1. j - Home(tab, x) = (w - Home(tab, x)) + 1
            BY <4>2, <4>4, <5>1
          <6> QED  BY <4>1, <4>3, <4>6, <5>1, <6>1
        <5>2. CASE j \notin (i + 1)..e
          <6>1. j = w
            BY <4>2, <5>2
          <6> QED  BY <4>1, <4>3, <4>6, <5>2, <6>1
        <5> QED  BY <5>1, <5>2
      <4>8. j >= Home(tab, x)
        BY <3>1, <4>2, <4>3, <4>4
      <4> QED  BY <1>5, <1>8, <4>7, <4>8 DEF x
    <3> QED  BY <3>2, <3>3
  <2>2. ASSUME NEW j \in DOMAIN new.at, NEW m \in DOMAIN new.at, new.at[j] = new.at[m]
        PROVE  j = m
    <3> HIDE DEF was
    <3>1. ASSUME NEW x \in DOMAIN new.at, x # i PROVE new.at[x] # k
      BY <1>4, <3>1 DEF Held
    <3>2. CASE j = i \/ m = i
      BY <1>4, <2>2, <3>1, <3>2
    <3>3. CASE j # i /\ m # i
      <4>1. was(j) = was(m)
        BY <1>2, <1>4, <2>2, <3>3 DEF Truthful
      <4> QED  BY <1>4, <3>3, <4>1
    <3> QED  BY <3>2, <3>3
  <2> QED  BY <2>1, <2>2 DEF Truthful
<1>12. \A j \in DOMAIN new.at : new.info[j] >= tab.inc /\ new.info[j] \in Nat
  BY <1>5, <1>9, <1>11, EntryFacts
<1>13. NoStrayBytes(new)
  <2>1. ASSUME NEW j \in DOMAIN new.info
        PROVE  new.info[j] # 0 <=> (j \in DOMAIN new.at \/ (new.mask # 0 /\ j = End(new)))
    <3>1. CASE j \in DOMAIN new.at
      BY <1>3, <1>12, <3>1
    <3>2. CASE j \notin DOMAIN new.at
      <4>1. j # i /\ j # e /\ j \notin DOMAIN tab.at /\ j \in DOMAIN tab.info
        BY <1>1, <1>4, <2>1, <3>2
      <4>2. j \notin (i + 1)..e
        <5>1. ~(j \in i..(e - 1))
          BY <1>1, <4>1
        <5>2. j \in Nat
          BY <1>3, <4>1
        <5> QED  BY <1>1, <4>1, <5>1, <5>2
      <4>3. new.info[j] = tab.info[j]
        BY <1>1, <4>1, <4>2
      <4> QED  BY <1>2, <1>5, <3>2, <4>1, <4>3 DEF NoStrayBytes
    <3> QED  BY <3>1, <3>2
  <2>2. new.mask # 0 => new.info[End(new)] = 1
    <3>1. End(tab) \in DOMAIN tab.info /\ End(tab) # i /\ End(tab) \notin (i + 1)..e
      BY <1>1, <1>3
    <3>2. new.info[End(tab)] = tab.info[End(tab)]
      BY <1>1, <3>1
    <3> QED  BY <1>2, <1>5, <3>2 DEF NoStrayBytes
  <2> QED  BY <2>1, <2>2 DEF NoStrayBytes
<1>14. Chained(new)
  <2>1. SUFFICES ASSUME NEW j \in 0..(End(tab) + 1)
                 PROVE  new.info[j + 1] < 2 * tab.inc \/ new.info[j + 1] <= new.info[j] + tab.inc
    BY <1>5 DEF Chained
  <2>2. j \in Nat /\ j \in DOMAIN tab.info /\ j + 1 \in DOMAIN tab.info
    BY <1>3
  <2>3. tab.info[j] \in Nat /\ tab.info[j + 1] \in Nat
    BY <1>3, <2>2
  <2>4. tab.info[j + 1] < 2 * tab.inc \/ tab.info[j + 1] <= tab.info[j] + tab.inc
    BY <1>2 DEF Chained
  <2>5. CASE j + 1 < i \/ j > e
    <3>1. new.info[j] = tab.info[j] /\ new.info[j + 1] = tab.info[j + 1]
      BY <1>1, <2>2, <2>5
    <3> QED  BY <2>4, <3>1
  <2>6. CASE j + 1 = i
    <3>1. new.info[j + 1] = v /\ new.info[j] = tab.info[j]
      BY <1>1, <2>2, <2>6
    <3>2. CASE d = 0
      BY <1>2, <1>5, <2>6, <3>1, <3>2, ExpectedHome DEF v
    <3>3. CASE d > 0
      <4>1. ByteAt(tab, k, d - 1) >= Expected(tab, k, d - 1)
        BY <3>3 DEF InsertSpot
      <4>2. Home(tab, k) + (d - 1) = j
        BY <1>6, <2>2, <2>6 DEF i
      <4>3. Expected(tab, k, d - 1) = v - tab.inc
        BY <1>2, <1>6, <3>3, ExpectedFacts DEF v
      <4>4. tab.info[j] >= v - tab.inc
        BY <4>1, <4>2, <4>3 DEF ByteAt
      <4> QED  BY <1>3, <1>6, <2>3, <3>1, <4>4
    <3> QED  BY <1>6, <3>2, <3>3
  <2>7. CASE j = i /\ j < e
    <3>1. new.info[j] = v /\ new.info[j + 1] = tab.info[j] + tab.inc
      <4>1. j + 1 \in (i + 1)..e /\ j + 1 # i /\ (j + 1) - 1 = j
        BY <1>1, <2>2, <2>7
      <4> QED  BY <1>1, <2>2, <2>7, <4>1
    <3>2. tab.info[j] < v
      BY <2>7 DEF InsertSpot, ByteAt, v, i
    <3> QED  BY <1>3, <1>6, <2>3, <3>1, <3>2
  <2>8. CASE j > i /\ j < e
    <3>1. j - 1 \in 0..(End(tab) + 1) /\ j - 1 \in DOMAIN tab.at /\ (j - 1) + 1 = j
          /\ j \in (i + 1)..e /\ j + 1 \in (i + 1)..e /\ (j + 1) - 1 = j /\ j # i /\ j + 1 # i
      <4>1. j - 1 \in i..(e - 1) /\ j - 1 \in 0..(End(tab) + 1) /\ (j - 1) + 1 = j
        BY <1>1, <1>3, <2>2, <2>8
      <4>2. j \in (i + 1)..e /\ j + 1 \in (i + 1)..e /\ (j + 1) - 1 = j /\ j # i /\ j + 1 # i
        BY <1>1, <2>2, <2>8
      <4> QED  BY <1>1, <4>1, <4>2
    <3>2. new.info[j] = tab.info[j - 1] + tab.inc /\ new.info[j + 1] = tab.info[j] + tab.inc
      BY <1>1, <2>2, <3>1
    <3>3. tab.info[j] < 2 * tab.inc \/ tab.info[j] <= tab.info[j - 1] + tab.inc
      BY <1>2, <3>1 DEF Chained
    <3>4. tab.info[j - 1] >= tab.inc /\ tab.info[j - 1] \in Nat
      BY <1>2, <3>1, EntryFacts
    <3> DEFINE a == tab.info[j]
               b == tab.info[j - 1]
    <3>5. a \in Nat /\ b \in Nat /\ b >= tab.inc /\ (a < 2 * tab.inc \/ a <= b + tab.inc)
      BY <2>3, <3>3, <3>4
    <3>6. a + tab.inc <= (b + tab.inc) + tab.inc
      <4> HIDE DEF a, b
      <4> QED  BY <1>3, <3>5
    <3> QED  BY <3>2, <3>6
  <2>9. CASE j = e
    <3>1. new.info[j + 1] = tab.info[j + 1]
      <4>1. j + 1 # i /\ j + 1 \notin (i + 1)..e
        BY <1>1, <2>2, <2>9
      <4> QED  BY <1>1, <2>2, <4>1
    <3>2. tab.info[j + 1] < 2 * tab.inc
      BY <1>1, <1>3, <2>3, <2>4, <2>9
    <3> QED  BY <3>1, <3>2
  <2> QED  BY <1>1, <2>2, <2>5, <2>6, <2>7, <2>8, <2>9
<1>15. Roomy(new)
  <2> SUFFICES ASSUME new.max # 0, NEW j \in DOMAIN new.at PROVE new.info[j] + tab.inc <= InfoTop
    BY <1>5 DEF Roomy
  <2>1. CASE j \in i..e
    BY <1>1, <2>1
  <2>2. CASE j \notin i..e
    <3>1. j \in Nat /\ j # i /\ j # e /\ j \notin (i + 1)..e
      BY <1>1, <1>8, <2>2
    <3>2. j \in DOMAIN tab.at /\ j \in DOMAIN tab.info
      BY <1>1, <1>3, <1>8, <3>1
    <3>3. new.info[j] = tab.info[j]
      BY <1>1, <3>1, <3>2
    <3> QED  BY <1>2, <3>2, <3>3 DEF Roomy
  <2> QED  BY <2>1, <2>2
<1>16. RightCount(new)
  <2>1. IsFiniteSet(DOMAIN tab.at) /\ tab.num = Cardinality(DOMAIN tab.at)
    BY <1>2 DEF RightCount
  <2>2. IsFiniteSet(DOMAIN tab.at \cup {e}) /\ Cardinality(DOMAIN tab.at \cup {e}) = Cardinality(DOMAIN tab.at) + 1
    BY <1>1, <2>1, FS_AddElement
  <2>3. tab.mask \in Nat
    BY <1>2, SizedFacts
  <2>4. CalcMaxNumElementsAllowed(tab.mask + 1) \in Nat
    BY <2>3, EndFacts
  <2>5. tab.num + 1 <= CalcMaxNumElementsAllowed(tab.mask + 1)
    BY <1>3, <2>4
  <2> QED  BY <1>1, <1>5, <2>1, <2>2, <2>5 DEF RightCount
<1> QED  BY <1>1, <1>5, <1>9, <1>10, <1>11, <1>13, <1>14, <1>15, <1>16 DEF Good

(***************************************************************************)
(* Erasing an entry.                                                       *)
(***************************************************************************)

(* new is tab without the entry at i, those behind it to e moved back.     *)
Closed(tab, new, i, e) ==
  /\ SameSearch(new, tab) /\ new \in Tables
  /\ e \in Nat /\ i <= e /\ e < End(tab) /\ e \in DOMAIN tab.at
  /\ tab.info[e + 1] < 2 * tab.inc
  /\ \A j \in i..(e - 1) : j + 1 \in DOMAIN tab.at /\ tab.info[j + 1] >= 2 * tab.inc
  /\ DOMAIN new.info = DOMAIN tab.info
  /\ \A j \in DOMAIN tab.info :
       new.info[j] = IF j = e THEN 0 ELSE IF j \in i..e THEN tab.info[j + 1] - tab.inc ELSE tab.info[j]
  /\ DOMAIN new.at = DOMAIN tab.at \ {e}
  /\ \A j \in DOMAIN new.at : new.at[j] = IF j \in i..e THEN tab.at[j + 1] ELSE tab.at[j]
  /\ new.num = tab.num - 1 /\ new.max = tab.max

(* shiftDown moves the slots back to the next empty or home one.           *)
LEMMA ShiftDownClosed ==
  ASSUME hash \in HashFunctions, NEW tab, Good(tab), NEW i \in DOMAIN tab.at
  PROVE  \E e : Closed(tab, ShiftDown(tab, i), i, e)
<1> DEFINE S == {j \in i..End(tab) : tab.info[j + 1] < 2 * tab.inc}
           e == Min(S)
           info1 == [j \in DOMAIN tab.info |-> IF j = e THEN 0
                                               ELSE IF j \in i..e THEN tab.info[j + 1] - tab.inc ELSE tab.info[j]]
           at1 == [j \in DOMAIN tab.at \ {e} |-> IF j \in i..e THEN tab.at[j + 1] ELSE tab.at[j]]
           new == ShiftDown(tab, i)
<1>1. new = [tab EXCEPT !.info = info1, !.at = at1, !.num = tab.num - 1]
  BY DEF ShiftDown
<1>2. Sized(tab) /\ Truthful(tab) /\ NoStrayBytes(tab) /\ RightCount(tab)
  BY DEF Good
<1>3. /\ DOMAIN tab.info = 0..(End(tab) + 2) /\ End(tab) \in Nat /\ tab.inc \in Nat /\ tab.inc > 1
      /\ \A j \in 0..(End(tab) + 2) : tab.info[j] \in Nat /\ tab.info[j] <= InfoTop
      /\ DOMAIN tab.at \subseteq Nat /\ \A j \in DOMAIN tab.at : tab.at[j] \in Keys
      /\ tab.num \in Nat /\ tab.max \in Nat
  BY <1>2, SizedFacts
<1>4. i \in Nat /\ i < End(tab)
  BY <1>2, <1>3 DEF Truthful
<1>5. \A j \in DOMAIN tab.at : tab.info[j] >= tab.inc
  BY <1>2, EntryFacts
<1>6. tab.info[End(tab)] < 2 * tab.inc
  <2>1. tab.info[End(tab)] \in {0, 1}
    BY <1>2, WallFacts
  <2> QED  BY <1>3, <2>1
<1>7. End(tab) - 1 \in S /\ S \in SUBSET Nat
  BY <1>3, <1>4, <1>6
<1>8. e \in S /\ \A j \in S : e <= j
  <2> HIDE DEF S
  <2> QED  BY <1>7, MinFacts
<1>9. e \in Nat /\ i <= e /\ e < End(tab) /\ tab.info[e + 1] < 2 * tab.inc
  <2>1. e \in Nat /\ i <= e /\ tab.info[e + 1] < 2 * tab.inc
    BY <1>4, <1>8
  <2>2. e <= End(tab) - 1
    <3> HIDE DEF S
    <3> QED  BY <1>7, <1>8
  <2> HIDE DEF e
  <2> QED  BY <1>3, <2>1, <2>2
<1>10. ASSUME NEW j \in i..(e - 1)
       PROVE  j + 1 \in DOMAIN tab.at /\ tab.info[j + 1] >= 2 * tab.inc /\ tab.info[j + 1] \in Nat
  <2>1. j \in Nat /\ j \in i..End(tab) /\ j + 1 \in 0..(End(tab) + 2) /\ ~(e <= j)
    BY <1>3, <1>4, <1>9
  <2>2. j \notin S
    <3> HIDE DEF S
    <3> QED  BY <1>8, <2>1
  <2>3. tab.info[j + 1] \in Nat /\ ~(tab.info[j + 1] < 2 * tab.inc)
    BY <1>3, <2>1, <2>2
  <2>4. tab.info[j + 1] >= 2 * tab.inc /\ tab.info[j + 1] > 1
    BY <1>3, <2>3
  <2> QED  BY <1>2, <2>1, <2>3, <2>4, WallFacts
<1> HIDE DEF info1, at1, e
<1>11. e \in DOMAIN tab.at
  <2>1. CASE e = i
    BY <2>1
  <2>2. CASE e # i
    <3>1. e - 1 \in i..(e - 1) /\ (e - 1) + 1 = e
      BY <1>4, <1>9, <2>2
    <3> QED  BY <1>10, <3>1
  <2> QED  BY <2>1, <2>2
<1>12. tab \in Tables
  BY <1>2 DEF Sized
<1>13. /\ new.mask = tab.mask /\ new.mult = tab.mult /\ new.inc = tab.inc /\ new.cut = tab.cut
       /\ new.info = info1 /\ new.at = at1 /\ new.num = tab.num - 1 /\ new.max = tab.max
  BY <1>1, <1>12 DEF Tables
<1>14. /\ DOMAIN info1 = DOMAIN tab.info
       /\ \A j \in DOMAIN tab.info :
            info1[j] = IF j = e THEN 0 ELSE IF j \in i..e THEN tab.info[j + 1] - tab.inc ELSE tab.info[j]
       /\ DOMAIN at1 = DOMAIN tab.at \ {e}
       /\ \A j \in DOMAIN at1 : at1[j] = IF j \in i..e THEN tab.at[j + 1] ELSE tab.at[j]
  BY DEF info1, at1
<1>15. info1 \in Infos
  <2>1. InfoTop \in Nat
    BY ConstFacts
  <2>2. \A j \in DOMAIN tab.info : info1[j] \in Nat /\ info1[j] <= InfoTop
    <3> TAKE j \in DOMAIN tab.info
    <3>1. CASE j = e
      BY <1>14, <2>1, <3>1
    <3>2. CASE j # e /\ j \in i..e
      <4>1. j \in i..(e - 1) /\ j + 1 \in 0..(End(tab) + 2)
        BY <1>3, <1>4, <1>9, <3>2
      <4>2. tab.info[j + 1] \in Nat /\ tab.info[j + 1] >= 2 * tab.inc /\ tab.info[j + 1] <= InfoTop
        BY <1>3, <1>10, <4>1
      <4>3. info1[j] = tab.info[j + 1] - tab.inc
        BY <1>14, <3>2
      <4> QED  BY <1>3, <2>1, <4>2, <4>3
    <3>3. CASE j # e /\ j \notin i..e
      BY <1>3, <1>14, <3>3
    <3> QED  BY <3>1, <3>2, <3>3
  <2>3. info1 \in [0..(End(tab) + 2) -> 0..InfoTop]
    <3>1. \A j \in 0..(End(tab) + 2) : info1[j] \in 0..InfoTop
      BY <1>3, <2>1, <2>2
    <3>2. info1 = [j \in 0..(End(tab) + 2) |-> info1[j]]
      BY <1>3 DEF info1
    <3> QED  BY <3>1, <3>2
  <2>4. End(tab) + 2 \in Nat
    BY <1>3
  <2> QED  BY <2>3, <2>4 DEF Infos
<1>16. at1 \in Ats
  <2>1. \A j \in DOMAIN at1 : at1[j] \in Keys
    <3> TAKE j \in DOMAIN at1
    <3>1. j \in DOMAIN tab.at /\ j # e /\ j \in Nat
      BY <1>3, <1>14
    <3>2. CASE j \in i..e
      <4>1. j \in i..(e - 1)
        BY <1>4, <1>9, <3>1, <3>2
      <4> QED  BY <1>3, <1>10, <1>14, <3>2, <4>1
    <3>3. CASE j \notin i..e
      BY <1>3, <1>14, <3>1, <3>3
    <3> QED  BY <3>2, <3>3
  <2>2. DOMAIN at1 \in SUBSET Nat
    BY <1>3, <1>14
  <2>3. at1 = [j \in DOMAIN at1 |-> at1[j]]
    BY DEF at1
  <2>4. at1 \in [DOMAIN at1 -> Keys]
    BY <2>1, <2>3
  <2> QED  BY <2>2, <2>4 DEF Ats
<1>17. tab.num - 1 \in Nat
  <2>1. IsFiniteSet(DOMAIN tab.at) /\ tab.num = Cardinality(DOMAIN tab.at)
    BY <1>2 DEF RightCount
  <2>2. tab.num # 0
    BY <2>1, FS_EmptySet
  <2> QED  BY <1>3, <2>2
<1>18. new \in Tables
  <2> HIDE DEF new
  <2> QED  BY <1>1, <1>12, <1>15, <1>16, <1>17 DEF Tables
<1>19. SameSearch(new, tab)
  BY <1>13 DEF SameSearch
<1> HIDE DEF new
<1>20. Closed(tab, new, i, e)
  BY <1>9, <1>10, <1>11, <1>13, <1>14, <1>18, <1>19 DEF Closed
<1> QED  BY <1>20 DEF new

(* The slot whose entry is at j after the erasure.                         *)
From(i, e, j) == IF j \in i..e THEN j + 1 ELSE j

(* How the entries of new come from those of tab.                          *)
MovedBack(tab, new, i, e) ==
  /\ \A j \in DOMAIN new.at :
       /\ j \in Nat /\ From(i, e, j) \in DOMAIN tab.at /\ From(i, e, j) # i
       /\ new.at[j] = tab.at[From(i, e, j)]
       /\ new.info[j] = tab.info[From(i, e, j)] - (IF j \in i..e THEN tab.inc ELSE 0)
       /\ j \in i..e => tab.info[From(i, e, j)] >= 2 * tab.inc
  /\ \A j, m \in DOMAIN new.at : From(i, e, j) = From(i, e, m) => j = m
  /\ \A j \in DOMAIN tab.at : j # i => \E m \in DOMAIN new.at : From(i, e, m) = j

(* The entries left are those of the old table but one.                    *)
LEMMA ClosedEntries ==
  ASSUME hash \in HashFunctions, NEW tab, NEW new, NEW i \in DOMAIN tab.at, NEW e, Good(tab),
         Closed(tab, new, i, e)
  PROVE  MovedBack(tab, new, i, e)
<1>1. /\ e \in Nat /\ i <= e /\ e < End(tab) /\ e \in DOMAIN tab.at
      /\ \A j \in i..(e - 1) : j + 1 \in DOMAIN tab.at /\ tab.info[j + 1] >= 2 * tab.inc
      /\ \A j \in DOMAIN tab.info :
           new.info[j] = IF j = e THEN 0 ELSE IF j \in i..e THEN tab.info[j + 1] - tab.inc ELSE tab.info[j]
      /\ DOMAIN new.at = DOMAIN tab.at \ {e}
      /\ \A j \in DOMAIN new.at : new.at[j] = IF j \in i..e THEN tab.at[j + 1] ELSE tab.at[j]
  BY DEF Closed
<1>2. Sized(tab) /\ Truthful(tab)
  BY DEF Good
<1>3. /\ DOMAIN tab.at \subseteq Nat /\ End(tab) \in Nat /\ DOMAIN tab.info = 0..(End(tab) + 2)
      /\ \A j \in 0..(End(tab) + 2) : tab.info[j] \in Nat
      /\ \A j \in DOMAIN tab.at : j < End(tab)
      /\ i \in Nat
  BY <1>2, SizedFacts DEF Truthful
<1>4. ASSUME NEW j \in DOMAIN new.at
      PROVE  /\ j \in Nat /\ From(i, e, j) \in DOMAIN tab.at /\ From(i, e, j) # i /\ new.at[j] = tab.at[From(i, e, j)]
             /\ new.info[j] = tab.info[From(i, e, j)] - (IF j \in i..e THEN tab.inc ELSE 0)
             /\ j \in i..e => tab.info[From(i, e, j)] >= 2 * tab.inc
  <2>1. j \in DOMAIN tab.at /\ j \in Nat /\ j \in DOMAIN tab.info /\ j # e
    BY <1>1, <1>3
  <2>2. CASE j \in i..e
    <3>1. j \in i..(e - 1) /\ j + 1 # i
      BY <1>1, <1>3, <2>1, <2>2
    <3>2. From(i, e, j) = j + 1
      BY <2>2 DEF From
    <3> QED  BY <1>1, <2>1, <2>2, <3>1, <3>2
  <2>3. CASE j \notin i..e
    <3>1. From(i, e, j) = j
      BY <2>3 DEF From
    <3>2. j # i
      BY <1>1, <1>3, <2>3
    <3>3. tab.info[j] \in Nat /\ new.info[j] = tab.info[j] /\ new.at[j] = tab.at[j]
      BY <1>1, <1>3, <2>1, <2>3
    <3> QED  BY <2>1, <2>3, <3>1, <3>2, <3>3
  <2> QED  BY <2>2, <2>3
<1>5. ASSUME NEW j \in DOMAIN new.at, NEW m \in DOMAIN new.at, From(i, e, j) = From(i, e, m)
      PROVE  j = m
  <2>1. j \in Nat /\ m \in Nat
    BY <1>4
  <2>2. ASSUME NEW x \in DOMAIN new.at, NEW y \in DOMAIN new.at, From(i, e, x) = From(i, e, y), x \in i..e, y \notin i..e
        PROVE  FALSE
    <3>1. x + 1 = y /\ x \in Nat /\ y \in Nat
      BY <1>4, <2>2 DEF From
    <3>2. x = e
      BY <1>1, <1>3, <2>2, <3>1
    <3> QED  BY <1>1, <2>2, <3>2
  <2>3. CASE j \in i..e /\ m \in i..e
    BY <1>5, <2>1, <2>3 DEF From
  <2>4. CASE j \notin i..e /\ m \notin i..e
    BY <1>5, <2>4 DEF From
  <2> QED  BY <1>5, <2>2, <2>3, <2>4
<1>6. ASSUME NEW j \in DOMAIN tab.at, j # i
      PROVE  \E m \in DOMAIN new.at : From(i, e, m) = j
  <2>1. j \in Nat
    BY <1>3
  <2>2. CASE j \in (i + 1)..e
    <3>1. j - 1 \in i..e /\ j - 1 # e
      BY <1>1, <1>3, <2>1, <2>2
    <3>2. From(i, e, j - 1) = j
      BY <2>1, <3>1 DEF From
    <3>3. j - 1 \in DOMAIN tab.at
      <4>1. CASE j - 1 = i
        BY <4>1
      <4>2. CASE j - 1 # i
        <5>1. j - 2 \in i..(e - 1) /\ (j - 2) + 1 = j - 1
          BY <1>1, <1>3, <2>1, <2>2, <4>2
        <5> QED  BY <1>1, <5>1
      <4> QED  BY <4>1, <4>2
    <3> QED  BY <1>1, <3>1, <3>2, <3>3
  <2>3. CASE j \notin (i + 1)..e
    <3>1. j \notin i..e /\ j # e
      BY <1>1, <1>3, <1>6, <2>1, <2>3
    <3>2. From(i, e, j) = j
      BY <3>1 DEF From
    <3> QED  BY <1>1, <3>1, <3>2
  <2> QED  BY <2>2, <2>3
<1>7. \A j \in DOMAIN new.at :
        /\ j \in Nat /\ From(i, e, j) \in DOMAIN tab.at /\ From(i, e, j) # i
        /\ new.at[j] = tab.at[From(i, e, j)]
        /\ new.info[j] = tab.info[From(i, e, j)] - (IF j \in i..e THEN tab.inc ELSE 0)
        /\ j \in i..e => tab.info[From(i, e, j)] >= 2 * tab.inc
  BY <1>4
<1>8. \A j, m \in DOMAIN new.at : From(i, e, j) = From(i, e, m) => j = m
  BY <1>5
<1>9. \A j \in DOMAIN tab.at : j # i => \E m \in DOMAIN new.at : From(i, e, m) = j
  BY <1>6
<1> QED  BY <1>7, <1>8, <1>9 DEF MovedBack

(* A table stays a good one when an entry is erased.                       *)
LEMMA ClosedGood ==
  ASSUME hash \in HashFunctions, NEW tab, NEW new, NEW i \in DOMAIN tab.at, NEW e, Good(tab),
         Closed(tab, new, i, e)
  PROVE  Good(new) /\ Held(new) = Held(tab) \ {tab.at[i]} /\ End(new) = End(tab)
<1>1. /\ SameSearch(new, tab) /\ new \in Tables
      /\ e \in Nat /\ i <= e /\ e < End(tab) /\ e \in DOMAIN tab.at
      /\ tab.info[e + 1] < 2 * tab.inc
      /\ \A j \in i..(e - 1) : j + 1 \in DOMAIN tab.at /\ tab.info[j + 1] >= 2 * tab.inc
      /\ DOMAIN new.info = DOMAIN tab.info
      /\ \A j \in DOMAIN tab.info :
           new.info[j] = IF j = e THEN 0 ELSE IF j \in i..e THEN tab.info[j + 1] - tab.inc ELSE tab.info[j]
      /\ DOMAIN new.at = DOMAIN tab.at \ {e}
      /\ new.num = tab.num - 1 /\ new.max = tab.max
  BY DEF Closed
<1>2. Sized(tab) /\ Truthful(tab) /\ NoStrayBytes(tab) /\ Chained(tab) /\ Roomy(tab) /\ RightCount(tab)
  BY DEF Good
<1>3. /\ DOMAIN tab.at \subseteq Nat /\ End(tab) \in Nat /\ DOMAIN tab.info = 0..(End(tab) + 2)
      /\ \A j \in 0..(End(tab) + 2) : tab.info[j] \in Nat /\ tab.info[j] <= InfoTop
      /\ tab.inc \in Nat /\ tab.inc > 1 /\ tab.num \in Nat
      /\ \A j \in DOMAIN tab.at : tab.at[j] \in Keys
      /\ i \in Nat
  BY <1>2, SizedFacts
<1>4. /\ \A j \in DOMAIN new.at :
           /\ j \in Nat /\ From(i, e, j) \in DOMAIN tab.at /\ From(i, e, j) # i
           /\ new.at[j] = tab.at[From(i, e, j)]
           /\ new.info[j] = tab.info[From(i, e, j)] - (IF j \in i..e THEN tab.inc ELSE 0)
           /\ j \in i..e => tab.info[From(i, e, j)] >= 2 * tab.inc
      /\ \A j, m \in DOMAIN new.at : From(i, e, j) = From(i, e, m) => j = m
      /\ \A j \in DOMAIN tab.at : j # i => \E m \in DOMAIN new.at : From(i, e, m) = j
  <2>1. MovedBack(tab, new, i, e)
    BY ClosedEntries
  <2> QED  BY <2>1 DEF MovedBack
<1>5. /\ End(new) = End(tab)
      /\ \A x : Home(new, x) = Home(tab, x) /\ Info(new, x) = Info(tab, x)
      /\ \A x, y : Expected(new, x, y) = Expected(tab, x, y)
      /\ new.mask = tab.mask /\ new.inc = tab.inc /\ new.cut = tab.cut
  BY <1>1, SameSearchFacts DEF SameSearch
<1>6. \A j \in DOMAIN new.at : j \in DOMAIN tab.at /\ j \in Nat /\ j < End(tab)
  BY <1>1, <1>2, <1>3 DEF Truthful
<1>7. Sized(new)
  <2>1. new.max \in {0, CalcMaxNumElementsAllowed(new.mask + 1)} /\ (new.mask = 0 => new.max = 0)
    BY <1>1, <1>2, <1>5 DEF Sized
  <2> QED  BY <1>1, <1>2, <1>3, <1>5, <2>1 DEF Sized
<1>8. Held(new) = Held(tab) \ {tab.at[i]}
  <2>1. ASSUME NEW x \in Held(new) PROVE x \in Held(tab) \ {tab.at[i]}
    <3>1. PICK j \in DOMAIN new.at : x = new.at[j]
      BY <2>1 DEF Held
    <3>2. tab.at[From(i, e, j)] # tab.at[i]
      BY <1>2, <1>4 DEF Truthful
    <3> QED  BY <1>4, <3>1, <3>2 DEF Held
  <2>2. ASSUME NEW x \in Held(tab) \ {tab.at[i]} PROVE x \in Held(new)
    <3>1. PICK j \in DOMAIN tab.at : x = tab.at[j] /\ j # i
      BY <2>2 DEF Held
    <3>2. PICK m \in DOMAIN new.at : From(i, e, m) = j
      BY <1>4, <3>1
    <3> QED  BY <1>4, <3>1, <3>2 DEF Held
  <2> QED  BY <2>1, <2>2
<1>9. Truthful(new)
  <2>1. ASSUME NEW j \in DOMAIN new.at
        PROVE  /\ j < End(new) /\ j >= Home(new, new.at[j])
               /\ new.info[j] = Expected(new, new.at[j], j - Home(new, new.at[j]))
    <3> DEFINE w == From(i, e, j)
               x == new.at[j]
    <3>1. /\ w \in DOMAIN tab.at /\ x = tab.at[w]
          /\ new.info[j] = tab.info[w] - (IF j \in i..e THEN tab.inc ELSE 0)
          /\ j \in i..e => tab.info[w] >= 2 * tab.inc
      BY <1>4
    <3>2. w = j + (IF j \in i..e THEN 1 ELSE 0) /\ w \in Nat /\ j \in Nat
      BY <1>3, <1>6, <3>1 DEF From
    <3> HIDE DEF w, x
    <3>3. w >= Home(tab, x) /\ tab.info[w] = Expected(tab, x, w - Home(tab, x)) /\ x \in Keys
      BY <1>2, <1>3, <3>1 DEF Truthful
    <3>4. Home(tab, x) \in Nat
      BY <1>2, <3>3, WalkFacts
    <3> DEFINE c == w - Home(tab, x)
    <3>5. c \in Nat
      BY <3>2, <3>3, <3>4
    <3>6. j < End(new)
      BY <1>5, <1>6
    <3>7. CASE j \notin i..e
      <4>1. j = w
        BY <3>2, <3>7
      <4>2. Expected(tab, x, w - Home(tab, x)) \in Nat
        BY <1>2, <3>3, <3>5, ExpectedFacts
      <4> QED  BY <1>5, <3>1, <3>3, <3>6, <3>7, <4>1, <4>2 DEF x
    <3>8. CASE j \in i..e
      <4>1. w = j + 1 /\ tab.info[w] >= 2 * tab.inc /\ new.info[j] = tab.info[w] - tab.inc
        BY <3>1, <3>2, <3>8
      <4>2. c # 0
        <5>1. Expected(tab, x, 0) < 2 * tab.inc
          BY <1>2, <3>3, ExpectedHome
        <5>2. tab.info[w] \in Nat
          BY <1>2, <3>1, EntryFacts
        <5> SUFFICES ASSUME c = 0 PROVE FALSE
          OBVIOUS
        <5>3. tab.info[w] = Expected(tab, x, 0)
          BY <3>3
        <5> QED  BY <1>3, <4>1, <5>1, <5>2, <5>3
      <4>3. c - 1 = j - Home(tab, x) /\ j >= Home(tab, x) /\ c > 0
        BY <3>2, <3>4, <3>5, <4>1, <4>2
      <4>4. Expected(tab, x, c - 1) = Expected(tab, x, c) - tab.inc
        <5> HIDE DEF c
        <5> QED  BY <1>2, <3>3, <3>5, <4>3, ExpectedFacts
      <4>5. new.info[j] = Expected(tab, x, j - Home(tab, x))
        BY <3>3, <4>1, <4>3, <4>4
      <4> QED  BY <1>5, <3>6, <4>3, <4>5 DEF x
    <3> QED  BY <3>7, <3>8
  <2>2. ASSUME NEW j \in DOMAIN new.at, NEW m \in DOMAIN new.at, new.at[j] = new.at[m]
        PROVE  j = m
    <3>1. From(i, e, j) = From(i, e, m)
      BY <1>2, <1>4, <2>2 DEF Truthful
    <3> QED  BY <1>4, <3>1
  <2> QED  BY <2>1, <2>2 DEF Truthful
<1>10. \A j \in DOMAIN new.at : new.info[j] >= tab.inc /\ new.info[j] \in Nat
  BY <1>5, <1>7, <1>9, EntryFacts
<1>11. NoStrayBytes(new)
  <2>1. ASSUME NEW j \in DOMAIN new.info
        PROVE  new.info[j] # 0 <=> (j \in DOMAIN new.at \/ (new.mask # 0 /\ j = End(new)))
    <3>1. CASE j \in DOMAIN new.at
      BY <1>3, <1>10, <3>1
    <3>2. CASE j \notin DOMAIN new.at /\ j = e
      BY <1>1, <1>3, <1>5, <2>1, <3>2
    <3>3. CASE j \notin DOMAIN new.at /\ j # e
      <4>1. j \notin DOMAIN tab.at /\ j \in DOMAIN tab.info /\ j \in Nat
        BY <1>1, <1>3, <2>1, <3>3
      <4>2. j \notin i..e
        <5>1. SUFFICES ASSUME j \in i..e PROVE FALSE
          OBVIOUS
        <5>2. j # i
          BY <4>1
        <5>3. j - 1 \in i..(e - 1) /\ (j - 1) + 1 = j
          BY <1>1, <1>3, <4>1, <5>1, <5>2
        <5> QED  BY <1>1, <4>1, <5>3
      <4>3. new.info[j] = tab.info[j]
        BY <1>1, <3>3, <4>1, <4>2
      <4> QED  BY <1>2, <1>5, <3>3, <4>1, <4>3 DEF NoStrayBytes
    <3> QED  BY <3>1, <3>2, <3>3
  <2>2. new.mask # 0 => new.info[End(new)] = 1
    <3>1. End(tab) \in DOMAIN tab.info /\ End(tab) # e /\ End(tab) \notin i..e
      BY <1>1, <1>3
    <3>2. new.info[End(tab)] = tab.info[End(tab)]
      BY <1>1, <3>1
    <3> QED  BY <1>2, <1>5, <3>2 DEF NoStrayBytes
  <2> QED  BY <2>1, <2>2 DEF NoStrayBytes
<1>12. Chained(new)
  <2>1. SUFFICES ASSUME NEW j \in 0..(End(tab) + 1)
                 PROVE  new.info[j + 1] < 2 * tab.inc \/ new.info[j + 1] <= new.info[j] + tab.inc
    BY <1>5 DEF Chained
  <2>2. j \in Nat /\ j \in DOMAIN tab.info /\ j + 1 \in DOMAIN tab.info
    BY <1>3
  <2>3. tab.info[j] \in Nat /\ tab.info[j + 1] \in Nat
    BY <1>3, <2>2
  <2>4. tab.info[j + 1] < 2 * tab.inc \/ tab.info[j + 1] <= tab.info[j] + tab.inc
    BY <1>2 DEF Chained
  <2>5. CASE j + 1 < i \/ j > e
    <3>1. j \notin i..e /\ j + 1 \notin i..e /\ j # e /\ j + 1 # e
      BY <1>1, <1>3, <2>2, <2>5
    <3>2. new.info[j] = tab.info[j] /\ new.info[j + 1] = tab.info[j + 1]
      BY <1>1, <2>2, <3>1
    <3> QED  BY <2>4, <3>2
  <2>6. CASE j + 1 = e
    <3>1. new.info[j + 1] = 0
      BY <1>1, <2>2, <2>6
    <3> QED  BY <1>3, <3>1
  <2>7. CASE j = e
    <3>1. new.info[j + 1] = tab.info[j + 1]
      <4>1. j + 1 # e /\ j + 1 \notin i..e
        BY <1>1, <1>3, <2>2, <2>7
      <4> QED  BY <1>1, <2>2, <4>1
    <3> QED  BY <1>1, <2>7, <3>1
  <2>8. CASE j + 1 = i /\ i # e
    <3>1. i \in i..(e - 1) /\ i \in i..e /\ j # e /\ j \notin i..e
      BY <1>1, <1>3, <2>2, <2>8
    <3>2. new.info[j + 1] = tab.info[i + 1] - tab.inc /\ new.info[j] = tab.info[j]
      BY <1>1, <2>2, <2>8, <3>1
    <3>3. i \in 0..(End(tab) + 1) /\ i + 1 \in 0..(End(tab) + 2) /\ i \in 0..(End(tab) + 2)
      BY <1>1, <1>3
    <3>4. tab.info[i + 1] < 2 * tab.inc \/ tab.info[i + 1] <= tab.info[i] + tab.inc
      BY <1>2, <3>3 DEF Chained
    <3>5. tab.info[i + 1] >= 2 * tab.inc /\ tab.info[i + 1] \in Nat /\ tab.info[i] \in Nat
      BY <1>1, <1>3, <3>1, <3>3
    <3> DEFINE a == tab.info[i + 1]
               b == tab.info[i]
               c == tab.info[j]
    <3>6. a \in Nat /\ b \in Nat /\ c \in Nat /\ a >= 2 * tab.inc /\ (a < 2 * tab.inc \/ a <= b + tab.inc)
          /\ (b < 2 * tab.inc \/ b <= c + tab.inc)
      BY <2>3, <2>4, <2>8, <3>4, <3>5
    <3>7. a - tab.inc < 2 * tab.inc \/ a - tab.inc <= c + tab.inc
      <4> HIDE DEF a, b, c
      <4> QED  BY <1>3, <3>6
    <3> QED  BY <3>2, <3>7
  <2>9. CASE j >= i /\ j + 1 < e
    <3>1. j \in i..e /\ j + 1 \in i..e /\ j # e /\ j + 1 # e
          /\ j + 1 \in 0..(End(tab) + 1) /\ (j + 1) + 1 \in 0..(End(tab) + 2)
      BY <1>1, <1>3, <2>2, <2>9
    <3>2. j \in i..(e - 1) /\ j + 1 \in i..(e - 1)
      BY <1>1, <1>3, <2>2, <2>9
    <3> DEFINE a == tab.info[(j + 1) + 1]
               b == tab.info[j + 1]
    <3>3. new.info[j + 1] = a - tab.inc /\ new.info[j] = b - tab.inc
      BY <1>1, <2>2, <3>1
    <3>4. a < 2 * tab.inc \/ a <= b + tab.inc
      BY <1>2, <3>1 DEF Chained
    <3>5. a >= 2 * tab.inc /\ b >= 2 * tab.inc /\ a \in Nat /\ b \in Nat
      BY <1>1, <1>3, <2>3, <3>1, <3>2
    <3>6. a - tab.inc <= (b - tab.inc) + tab.inc
      <4> HIDE DEF a, b
      <4> QED  BY <1>3, <3>4, <3>5
    <3> QED  BY <3>3, <3>6
  <2> QED  BY <1>1, <1>3, <2>2, <2>5, <2>6, <2>7, <2>8, <2>9
<1>13. Roomy(new)
  <2> SUFFICES ASSUME tab.max # 0, NEW j \in DOMAIN new.at PROVE new.info[j] + tab.inc <= InfoTop
    BY <1>1, <1>5 DEF Roomy
  <2>1. InfoTop \in Nat
    BY ConstFacts
  <2> DEFINE w == From(i, e, j)
  <2>2. w \in DOMAIN tab.at /\ new.info[j] = tab.info[w] - (IF j \in i..e THEN tab.inc ELSE 0)
    BY <1>4
  <2> HIDE DEF w
  <2>3. tab.info[w] + tab.inc <= InfoTop /\ tab.info[w] \in Nat
    BY <1>2, <2>2, EntryFacts DEF Roomy
  <2> QED  BY <1>3, <2>1, <2>2, <2>3
<1>14. RightCount(new)
  <2>1. IsFiniteSet(DOMAIN tab.at) /\ tab.num = Cardinality(DOMAIN tab.at)
    BY <1>2 DEF RightCount
  <2>2. IsFiniteSet(DOMAIN tab.at \ {e}) /\ Cardinality(DOMAIN tab.at \ {e}) = Cardinality(DOMAIN tab.at) - 1
    BY <1>1, <2>1, FS_RemoveElement
  <2>3. tab.mask \in Nat
    BY <1>2, SizedFacts
  <2>4. CalcMaxNumElementsAllowed(tab.mask + 1) \in Nat
    BY <2>3, EndFacts
  <2>5. tab.num - 1 <= CalcMaxNumElementsAllowed(tab.mask + 1)
    BY <1>2, <1>3, <2>4 DEF RightCount
  <2> QED  BY <1>1, <1>5, <2>1, <2>2, <2>5 DEF RightCount
<1> QED  BY <1>5, <1>7, <1>8, <1>9, <1>11, <1>12, <1>13, <1>14 DEF Good

(***************************************************************************)
(* Half the unit; a table without entries.                                 *)
(***************************************************************************)

(* The unit is a power of two.                                             *)
LEMMA UnitFacts ==
  ASSUME NEW tab, Sized(tab)
  PROVE  /\ tab.inc <= InitialInfoInc /\ tab.cut \in Nat /\ tab.cut > 0
         /\ CanIncreaseInfo(tab) => /\ tab.inc \div 2 \in Nat /\ tab.inc \div 2 > 1
                                    /\ tab.inc = 2 * (tab.inc \div 2)
<1>1. tab.inc \in Nat /\ tab.cut \in Nat /\ tab.inc > 1 /\ tab.inc * tab.cut = InitialInfoInc
  BY SizedFacts DEF Sized
<1>2. InitialInfoInc \in Nat /\ InitialInfoInc > 1
  BY ConstFacts
<1>3. tab.cut # 0
  BY <1>1, <1>2
<1>4. tab.cut > 0
  BY <1>1, <1>3
<1>5. tab.inc * tab.cut >= tab.inc /\ tab.inc * tab.cut >= tab.cut
  BY <1>1, <1>4, TimesFacts
<1>6. tab.inc \in 1..InitialInfoInc /\ tab.cut \in 1..InitialInfoInc
  BY <1>1, <1>2, <1>4, <1>5
<1>7. tab.inc = 1 \/ tab.inc % 2 = 0
  BY <1>1, <1>6, TableAssumption DEF PowerOfTwo
<1>8. CanIncreaseInfo(tab) => /\ tab.inc \div 2 \in Nat /\ tab.inc \div 2 > 1
                              /\ tab.inc = 2 * (tab.inc \div 2)
  BY <1>1, <1>7 DEF CanIncreaseInfo
<1> QED  BY <1>1, <1>4, <1>6, <1>8

(* Halving a byte halves its unit.                                         *)
LEMMA HalfStep ==
  ASSUME NEW q \in Nat, NEW b \in Nat, NEW d \in Nat
  PROVE  (2 * q + b + d * (2 * q)) \div 2 = (q + (b \div 2)) + d * q
<1> DEFINE p == d * q
<1>1. p \in Nat
  OBVIOUS
<1>2. d * (2 * q) = 2 * p
  OBVIOUS
<1> HIDE DEF p
<1>3. (2 * q + b + 2 * p) \div 2 = (q + (b \div 2)) + p
  BY <1>1
<1> QED  BY <1>2, <1>3 DEF p

(* What try_increase_info changes.                                         *)
LEMMA IncreasedFields ==
  ASSUME NEW tab, Sized(tab), tab.mask # 0, CanIncreaseInfo(tab)
  PROVE  LET new == IncreasedInfo(tab)
         IN /\ new.mask = tab.mask /\ new.mult = tab.mult /\ new.num = tab.num /\ new.at = tab.at
            /\ new.inc = tab.inc \div 2 /\ new.cut = 2 * tab.cut
            /\ new.max = CalcMaxNumElementsAllowed(tab.mask + 1)
            /\ DOMAIN new.info = DOMAIN tab.info
            /\ \A j \in DOMAIN tab.info : new.info[j] = IF j = End(tab) THEN 1 ELSE tab.info[j] \div 2
            /\ new \in Tables
<1> DEFINE info1 == [i \in DOMAIN tab.info |-> IF i = End(tab) THEN 1 ELSE tab.info[i] \div 2]
           a == CalcMaxNumElementsAllowed(tab.mask + 1)
           new == IncreasedInfo(tab)
<1>1. new = [tab EXCEPT !.inc = tab.inc \div 2, !.cut = 2 * tab.cut, !.max = a, !.info = info1]
  BY DEF IncreasedInfo
<1>2. tab \in Tables
  BY DEF Sized
<1>3. DOMAIN tab.info = 0..(End(tab) + 2) /\ End(tab) \in Nat
      /\ \A j \in 0..(End(tab) + 2) : tab.info[j] \in Nat /\ tab.info[j] <= InfoTop
      /\ tab.mask \in Nat
  BY SizedFacts
<1>4. /\ DOMAIN info1 = DOMAIN tab.info
      /\ \A j \in DOMAIN tab.info : info1[j] = IF j = End(tab) THEN 1 ELSE tab.info[j] \div 2
  OBVIOUS
<1>5. InfoTop \in Nat /\ 2 * InitialInfoInc <= InfoTop + 1 /\ InitialInfoInc \in Nat /\ InitialInfoInc > 1
  BY ConstFacts
<1>6. info1 \in [0..(End(tab) + 2) -> 0..InfoTop]
  <2>1. \A j \in 0..(End(tab) + 2) : info1[j] \in 0..InfoTop
    <3> TAKE j \in 0..(End(tab) + 2)
    <3>1. tab.info[j] \in Nat /\ tab.info[j] <= InfoTop
      BY <1>3
    <3>2. tab.info[j] \div 2 \in Nat /\ tab.info[j] \div 2 <= tab.info[j]
      BY <3>1
    <3>3. info1[j] = IF j = End(tab) THEN 1 ELSE tab.info[j] \div 2
      BY <1>3, <1>4
    <3> HIDE DEF info1
    <3> QED  BY <1>5, <3>1, <3>2, <3>3
  <2> QED  BY <1>3, <2>1
<1>7. info1 \in Infos
  <2>1. End(tab) + 2 \in Nat
    BY <1>3
  <2> HIDE DEF info1
  <2> QED  BY <1>6, <2>1 DEF Infos
<1>8. tab.inc \div 2 \in Nat /\ 2 * tab.cut \in Nat /\ a \in Nat
  BY <1>3, UnitFacts, EndFacts
<1> HIDE DEF info1, a
<1>9. new.mask = tab.mask /\ new.mult = tab.mult /\ new.num = tab.num /\ new.at = tab.at
      /\ new.inc = tab.inc \div 2 /\ new.cut = 2 * tab.cut /\ new.max = a /\ new.info = info1
  BY <1>1, <1>2 DEF Tables
<1>10. new \in Tables
  <2> HIDE DEF new
  <2> QED  BY <1>1, <1>2, <1>7, <1>8 DEF Tables
<1> HIDE DEF new
<1>11. /\ DOMAIN new.info = DOMAIN tab.info
       /\ \A j \in DOMAIN tab.info : new.info[j] = IF j = End(tab) THEN 1 ELSE tab.info[j] \div 2
  BY <1>4, <1>9
<1> QED  BY <1>9, <1>10, <1>11 DEF new, a

(* The bytes expected are halved with the unit.                            *)
LEMMA IncreasedExpected ==
  ASSUME hash \in HashFunctions, NEW tab, Sized(tab), NEW new, NEW k \in Keys, NEW d \in Nat,
         CanIncreaseInfo(tab), new.mask = tab.mask, new.mult = tab.mult,
         new.inc = tab.inc \div 2, new.cut = 2 * tab.cut
  PROVE  Home(new, k) = Home(tab, k) /\ Expected(new, k, d) = Expected(tab, k, d) \div 2
<1> DEFINE q == tab.inc \div 2
           x == hash[tab.mult][k] % InitialInfoInc
           b == x \div tab.cut
<1>1. q \in Nat /\ tab.inc = 2 * q /\ tab.cut \in Nat /\ tab.cut > 0
  BY UnitFacts
<1>2. x \in Nat
  <2>1. tab.mult \in 0..MaxMult
    BY DEF Sized, Tables
  <2>2. hash[tab.mult][k] \in Nat /\ InitialInfoInc \in Nat /\ InitialInfoInc > 0
    BY <2>1, ConstFacts
  <2>3. x \in 0..(InitialInfoInc - 1)
    BY <2>2, ModFacts
  <2> HIDE DEF x
  <2> QED  BY <2>2, <2>3
<1>3. Info(tab, k) = 2 * q + b
  BY <1>1 DEF Info
<1>4. Info(new, k) = q + (x \div (2 * tab.cut))
  BY DEF Info
<1> HIDE DEF x, q
<1>5. b \in Nat /\ b \div 2 = x \div (2 * tab.cut)
  BY <1>1, <1>2, DivFacts, DivTwice
<1>6. Home(new, k) = Home(tab, k)
  BY DEF Home
<1>7. Expected(tab, k, d) = 2 * q + b + d * (2 * q)
  BY <1>1, <1>3 DEF Expected
<1>8. Expected(new, k, d) = (q + (b \div 2)) + d * q
  BY <1>4, <1>5 DEF Expected, q
<1> HIDE DEF b
<1>9. (2 * q + b + d * (2 * q)) \div 2 = (q + (b \div 2)) + d * q
  BY <1>1, <1>5, HalfStep
<1> QED  BY <1>6, <1>7, <1>8, <1>9

(* A table stays a good one when its unit is halved.                       *)
LEMMA IncreasedGood ==
  ASSUME hash \in HashFunctions, NEW tab, Good(tab), tab.mask # 0, CanIncreaseInfo(tab)
  PROVE  LET new == IncreasedInfo(tab)
         IN /\ Good(new) /\ Held(new) = Held(tab) /\ new.mask = tab.mask /\ new.num = tab.num
            /\ new.max = CalcMaxNumElementsAllowed(tab.mask + 1)
<1> DEFINE new == IncreasedInfo(tab)
           q == tab.inc \div 2
<1>1. Sized(tab) /\ Truthful(tab) /\ NoStrayBytes(tab) /\ Chained(tab) /\ Roomy(tab) /\ RightCount(tab)
  BY DEF Good
<1>2. /\ new.mask = tab.mask /\ new.mult = tab.mult /\ new.num = tab.num /\ new.at = tab.at
      /\ new.inc = q /\ new.cut = 2 * tab.cut
      /\ new.max = CalcMaxNumElementsAllowed(tab.mask + 1)
      /\ DOMAIN new.info = DOMAIN tab.info
      /\ \A j \in DOMAIN tab.info : new.info[j] = IF j = End(tab) THEN 1 ELSE tab.info[j] \div 2
      /\ new \in Tables
  BY <1>1, IncreasedFields
<1>3. /\ DOMAIN tab.at \subseteq Nat /\ End(tab) \in Nat /\ DOMAIN tab.info = 0..(End(tab) + 2)
      /\ \A j \in 0..(End(tab) + 2) : tab.info[j] \in Nat /\ tab.info[j] <= InfoTop
      /\ tab.inc \in Nat /\ tab.inc > 1 /\ tab.cut \in Nat
      /\ \A j \in DOMAIN tab.at : tab.at[j] \in Keys
  BY <1>1, SizedFacts
<1>4. q \in Nat /\ q > 1 /\ tab.inc = 2 * q
  BY <1>1, UnitFacts
<1> HIDE DEF new
<1>5. End(new) = End(tab)
  BY <1>2 DEF End
<1> HIDE DEF q
<1>6. Sized(new)
  <2>1. q * (2 * tab.cut) = tab.inc * tab.cut
    BY <1>3, <1>4
  <2>2. new.inc > 1 /\ new.inc * new.cut = InitialInfoInc
    BY <1>1, <1>2, <1>4, <2>1 DEF Sized
  <2> QED  BY <1>2, <1>3, <1>5, <2>2 DEF Sized
<1>7. \A j \in DOMAIN tab.at : j \in Nat /\ j < End(tab) /\ j \in DOMAIN tab.info /\ j # End(tab)
  BY <1>1, <1>3 DEF Truthful
<1>8. \A k \in Keys, d \in Nat : Home(new, k) = Home(tab, k) /\ Expected(new, k, d) = Expected(tab, k, d) \div 2
  BY <1>1, <1>2, IncreasedExpected DEF q
<1>9. Truthful(new)
  <2>1. ASSUME NEW j \in DOMAIN tab.at
        PROVE  /\ j < End(new) /\ j >= Home(new, tab.at[j])
               /\ new.info[j] = Expected(new, tab.at[j], j - Home(new, tab.at[j]))
    <3> DEFINE x == tab.at[j]
    <3>1. x \in Keys /\ j >= Home(tab, x) /\ tab.info[j] = Expected(tab, x, j - Home(tab, x))
      BY <1>1, <1>3 DEF Truthful
    <3> HIDE DEF x
    <3>2. Home(tab, x) \in Nat
      BY <1>1, <3>1, WalkFacts
    <3>3. j - Home(tab, x) \in Nat
      BY <1>7, <3>1, <3>2
    <3>4. Home(new, x) = Home(tab, x)
          /\ Expected(new, x, j - Home(tab, x)) = Expected(tab, x, j - Home(tab, x)) \div 2
      BY <1>8, <3>1, <3>3
    <3>5. new.info[j] = tab.info[j] \div 2
      BY <1>2, <1>7
    <3> QED  BY <1>5, <1>7, <3>1, <3>4, <3>5 DEF x
  <2> QED  BY <1>1, <1>2, <2>1 DEF Truthful
<1>10. \A j \in DOMAIN tab.at : tab.info[j] >= tab.inc
  BY <1>1, EntryFacts
<1>11. NoStrayBytes(new)
  <2>1. ASSUME NEW j \in DOMAIN tab.info
        PROVE  new.info[j] # 0 <=> (j \in DOMAIN tab.at \/ (tab.mask # 0 /\ j = End(tab)))
    <3>1. CASE j = End(tab)
      BY <1>2, <3>1
    <3>2. CASE j # End(tab) /\ j \in DOMAIN tab.at
      <4>1. new.info[j] = tab.info[j] \div 2 /\ tab.info[j] >= tab.inc /\ tab.info[j] \in Nat
        BY <1>2, <1>3, <1>10, <3>2
      <4> DEFINE a == tab.info[j]
      <4>2. a \div 2 # 0
        <5>1. a \in Nat /\ a >= 2
          BY <1>3, <4>1
        <5> HIDE DEF a
        <5> QED  BY <5>1
      <4> QED  BY <3>2, <4>1, <4>2
    <3>3. CASE j # End(tab) /\ j \notin DOMAIN tab.at
      <4>1. tab.info[j] = 0
        BY <1>1, <3>3 DEF NoStrayBytes
      <4>2. new.info[j] = 0
        BY <1>2, <3>3, <4>1
      <4> QED  BY <3>3, <4>2
    <3> QED  BY <3>1, <3>2, <3>3
  <2>2. new.info[End(tab)] = 1
    BY <1>2, <1>3
  <2> QED  BY <1>2, <1>5, <2>1, <2>2 DEF NoStrayBytes
<1>12. Chained(new)
  <2>1. SUFFICES ASSUME NEW j \in 0..(End(tab) + 1)
                 PROVE  new.info[j + 1] < 2 * q \/ new.info[j + 1] <= new.info[j] + q
    BY <1>2, <1>5 DEF Chained
  <2>2. j \in DOMAIN tab.info /\ j + 1 \in DOMAIN tab.info
    BY <1>3
  <2> DEFINE a == tab.info[j + 1]
             b == tab.info[j]
  <2>3. a \in Nat /\ b \in Nat /\ (a < 2 * tab.inc \/ a <= b + tab.inc)
    BY <1>1, <1>3, <2>2 DEF Chained
  <2>4. a \div 2 < 2 * q \/ a \div 2 <= (b \div 2) + q
    <3> HIDE DEF a, b
    <3> QED  BY <1>4, <2>3
  <2>5. CASE j + 1 = End(tab)
    BY <1>2, <1>4, <2>2, <2>5
  <2>6. CASE j = End(tab)
    <3>1. tab.info[j + 1] = 0 /\ j + 1 # End(tab)
      BY <1>1, <1>3, <2>6, WallFacts
    <3>2. new.info[j + 1] = 0
      BY <1>2, <2>2, <3>1
    <3> QED  BY <1>4, <3>2
  <2>7. CASE j # End(tab) /\ j + 1 # End(tab)
    <3>1. new.info[j + 1] = a \div 2 /\ new.info[j] = b \div 2
      BY <1>2, <2>2, <2>7
    <3> QED  BY <2>4, <3>1
  <2> QED  BY <2>5, <2>6, <2>7
<1>13. Roomy(new)
  <2> SUFFICES ASSUME NEW j \in DOMAIN tab.at PROVE new.info[j] + q <= InfoTop
    BY <1>2 DEF Roomy
  <2>1. InfoTop \in Nat /\ tab.inc <= InfoTop
    <3>1. InfoTop \in Nat /\ 2 * InitialInfoInc <= InfoTop + 1 /\ InitialInfoInc \in Nat /\ InitialInfoInc > 1
      BY ConstFacts
    <3>2. tab.inc <= InitialInfoInc
      BY <1>1, UnitFacts
    <3> QED  BY <1>3, <3>1, <3>2
  <2> DEFINE a == tab.info[j]
  <2>2. a \in Nat /\ a <= InfoTop /\ new.info[j] = a \div 2
    BY <1>2, <1>3, <1>7
  <2>3. a \div 2 + q <= InfoTop
    <3> HIDE DEF a
    <3> QED  BY <1>4, <2>1, <2>2
  <2> QED  BY <2>2, <2>3
<1>14. RightCount(new)
  BY <1>1, <1>2 DEF RightCount
<1>15. Held(new) = Held(tab)
  BY <1>2 DEF Held
<1>16. Good(new)
  BY <1>6, <1>9, <1>11, <1>12, <1>13, <1>14 DEF Good
<1> QED  BY <1>2, <1>15, <1>16 DEF new

(* No entries.                                                             *)
LEMMA NoneAt ==
  <<>> \in Ats /\ DOMAIN <<>> = {}
<1>1. <<>> \in [{} -> Keys]
  OBVIOUS
<1>2. {} \in SUBSET Nat
  OBVIOUS
<1> QED  BY <1>1, <1>2 DEF Ats

(* A table without entries is a good one.                                  *)
LEMMA EmptyGood ==
  ASSUME NEW tab \in Tables, tab.at = <<>>, tab.num = 0,
         tab.inc = InitialInfoInc, tab.cut = 1,
         tab.max \in {0, CalcMaxNumElementsAllowed(tab.mask + 1)}, tab.mask = 0 => tab.max = 0,
         DOMAIN tab.info = 0..(End(tab) + 2),
         \A i \in DOMAIN tab.info : tab.info[i] = IF tab.mask # 0 /\ i = End(tab) THEN 1 ELSE 0
  PROVE  Good(tab) /\ Held(tab) = {}
<1>1. DOMAIN tab.at = {}
  BY NoneAt
<1>2. tab.mask \in Nat /\ tab.inc \in Nat /\ tab.inc > 1 /\ tab.inc * tab.cut = InitialInfoInc
  BY ConstFacts DEF Tables
<1>3. End(tab) \in Nat /\ CalcMaxNumElementsAllowed(tab.mask + 1) \in Nat
  BY <1>2, EndFacts
<1>4. Sized(tab)
  BY <1>2 DEF Sized
<1>5. Truthful(tab) /\ Roomy(tab) /\ Held(tab) = {}
  BY <1>1 DEF Truthful, Roomy, Held
<1>6. NoStrayBytes(tab)
  <2>1. End(tab) \in DOMAIN tab.info
    BY <1>3
  <2> QED  BY <1>1, <2>1 DEF NoStrayBytes
<1>7. Chained(tab)
  <2> SUFFICES ASSUME NEW i \in 0..(End(tab) + 1) PROVE tab.info[i + 1] < 2 * tab.inc
    BY DEF Chained
  <2>1. i + 1 \in DOMAIN tab.info
    BY <1>3
  <2>2. tab.info[i + 1] \in {0, 1}
    BY <2>1
  <2> QED  BY <1>2, <2>2
<1>8. RightCount(tab)
  BY <1>1, <1>3, FS_EmptySet DEF RightCount
<1> QED  BY <1>4, <1>5, <1>6, <1>7, <1>8 DEF Good

(* A table nothing was put in.                                             *)
LEMMA UnallocatedGood ==
  ASSUME NEW mult \in 0..MaxMult
  PROVE  Good(Unallocated(mult)) /\ Held(Unallocated(mult)) = {} /\ Unallocated(mult).mask = 0
<1> DEFINE tab == Unallocated(mult)
           info0 == [i \in 0..2 |-> 0]
<1>1. tab = [mask |-> 0, num |-> 0, max |-> 0, inc |-> InitialInfoInc, cut |-> 1, mult |-> mult,
             info |-> info0, at |-> <<>>]
  BY DEF Unallocated
<1>2. info0 \in Infos /\ DOMAIN info0 = 0..2 /\ \A i \in 0..2 : info0[i] = 0
  <2>1. info0 \in [0..2 -> 0..InfoTop]
    BY ConstFacts
  <2>2. 2 \in Nat
    OBVIOUS
  <2> HIDE DEF info0
  <2>3. info0 \in Infos
    BY <2>1, <2>2 DEF Infos
  <2> QED  BY <2>3 DEF info0
<1>3. InitialInfoInc \in Nat
  BY ConstFacts
<1> HIDE DEF info0
<1>4. tab \in Tables
  <2> HIDE DEF tab
  <2> QED  BY <1>1, <1>2, <1>3, NoneAt DEF Tables
<1>5. /\ tab.mask = 0 /\ tab.num = 0 /\ tab.max = 0 /\ tab.inc = InitialInfoInc /\ tab.cut = 1
      /\ tab.info = info0 /\ tab.at = <<>>
  BY <1>1
<1> HIDE DEF tab
<1>6. End(tab) = 0
  BY <1>5 DEF End
<1>7. DOMAIN tab.info = 0..(End(tab) + 2)
  BY <1>2, <1>5, <1>6
<1>8. Good(tab) /\ Held(tab) = {}
  BY <1>2, <1>4, <1>5, <1>6, <1>7, EmptyGood
<1> QED  BY <1>5, <1>8 DEF tab

(* A new one of n slots.                                                   *)
LEMMA InitDataGood ==
  ASSUME NEW tab \in Tables, NEW n \in Nat, n > 1
  PROVE  LET new == InitData(tab, n)
         IN /\ Good(new) /\ Held(new) = {} /\ new.mask = n - 1 /\ new.num = 0 /\ new.mult = tab.mult
            /\ new.max = CalcMaxNumElementsAllowed(n)
<1> DEFINE end == CalcNumElementsWithBuffer(n)
           a == CalcMaxNumElementsAllowed(n)
           info0 == [i \in 0..(end + 2) |-> IF i = end THEN 1 ELSE 0]
           new == InitData(tab, n)
<1>1. new = [tab EXCEPT !.mask = n - 1, !.num = 0, !.max = a,
                 !.inc = InitialInfoInc, !.cut = 1, !.at = <<>>, !.info = info0]
  BY DEF InitData
<1>2. InitialInfoInc \in Nat /\ InfoTop \in Nat /\ InfoTop > 0
  BY ConstFacts
<1>3. n - 1 \in Nat /\ a \in Nat
  BY DEF CalcMaxNumElementsAllowed
<1>4. end \in Nat
  <2> HIDE DEF a
  <2>1. end = n + (IF a < InfoTop THEN a ELSE InfoTop)
    BY DEF CalcNumElementsWithBuffer, a
  <2> HIDE DEF end
  <2> QED  BY <1>2, <1>3, <2>1
<1> HIDE DEF end, a
<1>5. info0 \in Infos
  <2>1. info0 \in [0..(end + 2) -> 0..InfoTop]
    BY <1>2
  <2>2. end + 2 \in Nat
    BY <1>4
  <2> HIDE DEF info0
  <2> QED  BY <2>1, <2>2 DEF Infos
<1>6. DOMAIN info0 = 0..(end + 2) /\ \A i \in 0..(end + 2) : info0[i] = IF i = end THEN 1 ELSE 0
  OBVIOUS
<1> HIDE DEF info0
<1>7. new \in Tables
  <2> HIDE DEF new
  <2> QED  BY <1>1, <1>2, <1>3, <1>5, NoneAt DEF Tables
<1>8. /\ new.mask = n - 1 /\ new.num = 0 /\ new.max = a /\ new.inc = InitialInfoInc /\ new.cut = 1
      /\ new.mult = tab.mult /\ new.at = <<>> /\ new.info = info0
  BY <1>1 DEF Tables
<1> HIDE DEF new
<1>9. new.mask # 0 /\ new.mask + 1 = n
  BY <1>8
<1>10. End(new) = end
  BY <1>9 DEF End, end
<1>11. new.max = CalcMaxNumElementsAllowed(new.mask + 1)
  BY <1>8, <1>9 DEF a
<1>12. Good(new) /\ Held(new) = {}
  BY <1>6, <1>7, <1>8, <1>9, <1>10, <1>11, EmptyGood
<1> QED  BY <1>8, <1>9, <1>11, <1>12 DEF new

(* A table cleared in place.                                               *)
LEMMA ClearedGood ==
  ASSUME NEW tab, Good(tab), tab.mask # 0
  PROVE  LET new == [tab EXCEPT !.num = 0, !.at = <<>>, !.inc = InitialInfoInc, !.cut = 1,
                       !.info = [i \in DOMAIN @ |-> IF i = End(tab) THEN 1 ELSE 0]]
         IN Good(new) /\ Held(new) = {}
<1> DEFINE info0 == [i \in DOMAIN tab.info |-> IF i = End(tab) THEN 1 ELSE 0]
           new == [tab EXCEPT !.num = 0, !.at = <<>>, !.inc = InitialInfoInc, !.cut = 1,
                       !.info = [i \in DOMAIN @ |-> IF i = End(tab) THEN 1 ELSE 0]]
<1>0. new = [tab EXCEPT !.num = 0, !.at = <<>>, !.inc = InitialInfoInc, !.cut = 1, !.info = info0]
  OBVIOUS
<1>1. Sized(tab)
  BY DEF Good
<1>2. tab \in Tables /\ DOMAIN tab.info = 0..(End(tab) + 2) /\ End(tab) \in Nat
  BY <1>1, SizedFacts DEF Sized
<1>3. InitialInfoInc \in Nat /\ InfoTop \in Nat /\ InfoTop > 0
  BY ConstFacts
<1>4. info0 \in Infos
  <2>1. info0 \in [0..(End(tab) + 2) -> 0..InfoTop]
    BY <1>2, <1>3
  <2>2. End(tab) + 2 \in Nat
    BY <1>2
  <2> HIDE DEF info0
  <2> QED  BY <2>1, <2>2 DEF Infos
<1>5. DOMAIN info0 = 0..(End(tab) + 2) /\ \A i \in DOMAIN info0 : info0[i] = IF i = End(tab) THEN 1 ELSE 0
  BY <1>2
<1> HIDE DEF info0, new
<1>6. new \in Tables
  BY <1>0, <1>2, <1>3, <1>4, NoneAt DEF Tables
<1>7. /\ new.mask = tab.mask /\ new.num = 0 /\ new.max = tab.max /\ new.inc = InitialInfoInc
      /\ new.cut = 1 /\ new.at = <<>> /\ new.info = info0
  BY <1>0, <1>2 DEF Tables
<1>8. End(new) = End(tab)
  BY <1>7 DEF End
<1>9. new.max \in {0, CalcMaxNumElementsAllowed(new.mask + 1)}
  BY <1>1, <1>7 DEF Sized
<1>10. Good(new) /\ Held(new) = {}
  BY <1>5, <1>6, <1>7, <1>8, <1>9, EmptyGood
<1> QED  BY <1>10 DEF new

(* Moving one entry into a table that has room.                            *)
LEMMA InsertMoveGood ==
  ASSUME hash \in HashFunctions, NEW tab, Good(tab), tab.mask # 0, NEW k \in Keys, k \notin Held(tab),
         tab.num < CalcMaxNumElementsAllowed(tab.mask + 1), ~Overflows(tab)
  PROVE  LET new == InsertMove(tab, k)
         IN /\ Good(new) /\ Held(new) = Held(tab) \cup {k}
            /\ new.mask = tab.mask /\ new.num = tab.num + 1
<1> DEFINE room == IF tab.max = 0 THEN IncreasedInfo(tab) ELSE tab
           d == FirstGreater(room, k)
           new == InsertMove(tab, k)
<1>1. /\ Good(room) /\ Held(room) = Held(tab) /\ room.mask = tab.mask /\ room.num = tab.num
      /\ room.max # 0
  <2>1. CASE tab.max # 0
    BY <2>1
  <2>2. CASE tab.max = 0
    <3>1. CanIncreaseInfo(tab)
      BY <2>2 DEF Overflows
    <3>2. tab.num \in Nat /\ tab.mask \in Nat
      BY SizedFacts DEF Good
    <3>3. CalcMaxNumElementsAllowed(tab.mask + 1) \in Nat
      BY <3>2, EndFacts
    <3>4. CalcMaxNumElementsAllowed(tab.mask + 1) # 0
      BY <3>2, <3>3
    <3>5. LET inc == IncreasedInfo(tab)
          IN /\ Good(inc) /\ Held(inc) = Held(tab) /\ inc.mask = tab.mask /\ inc.num = tab.num
             /\ inc.max = CalcMaxNumElementsAllowed(tab.mask + 1)
      BY <3>1, IncreasedGood
    <3> QED  BY <2>2, <3>4, <3>5
  <2> QED  BY <2>1, <2>2
<1>2. new = Placed(room, k, d)
  BY DEF InsertMove
<1> HIDE DEF room, new
<1>3. InsertSpot(room, k, d)
  BY <1>1, FirstGreaterSpot
<1> HIDE DEF d
<1>4. PICK e : Opened(room, Placed(room, k, d), k, d, e)
  BY <1>1, <1>3, PlacedOpened
<1>5. Opened(room, new, k, d, e)
  BY <1>2, <1>4
<1>6. /\ Good(new) /\ Held(new) = Held(room) \cup {k}
      /\ new.mask = room.mask /\ new.num = room.num + 1
  BY <1>1, <1>3, <1>5, OpenedGood
<1> QED  BY <1>1, <1>6 DEF new

(***************************************************************************)
(* Moving all entries into a new table.                                    *)
(***************************************************************************)

(* g holds what is moved after each of the first m slots.                  *)
Stages(tab, n, m, g) ==
  g = [i \in 0..m |-> IF i = 0 THEN [tab |-> InitData(tab, n), threw |-> FALSE]
                               ELSE MovedOne(g[i - 1], tab, i - 1)]

(* The recursion over the slots has a solution.                            *)
LEMMA StagesExist ==
  ASSUME NEW tab, NEW n
  PROVE  \A m \in Nat : \E g : Stages(tab, n, m, g)
<1> DEFINE bad == {m \in Nat : ~\E g : Stages(tab, n, m, g)}
           base == [tab |-> InitData(tab, n), threw |-> FALSE]
<1> SUFFICES ASSUME bad # {} PROVE FALSE
  OBVIOUS
<1>1. PICK m \in bad : \A k \in bad : m <= k
  <2>1. bad \in SUBSET Nat
    OBVIOUS
  <2> HIDE DEF bad
  <2> QED  BY <2>1, LeastNatural
<1>2. m \in Nat /\ ~\E g : Stages(tab, n, m, g)
  BY <1>1
<1>3. CASE m = 0
  <2> DEFINE g == [i \in 0..0 |-> base]
  <2>1. \A i \in 0..0 : i = 0
    OBVIOUS
  <2>2. g = [i \in 0..0 |-> IF i = 0 THEN base ELSE MovedOne(g[i - 1], tab, i - 1)]
    <3> HIDE DEF base
    <3> QED  BY <2>1
  <2>3. Stages(tab, n, 0, g)
    BY <2>2 DEF Stages
  <2> HIDE DEF g
  <2> QED  BY <1>2, <1>3, <2>3
<1>4. CASE m > 0
  <2>1. m - 1 \in Nat /\ ~(m <= m - 1)
    BY <1>2, <1>4
  <2>2. m - 1 \notin bad
    <3> HIDE DEF bad
    <3> QED  BY <1>1, <2>1
  <2>3. PICK g : Stages(tab, n, m - 1, g)
    BY <2>1, <2>2
  <2> DEFINE h == [i \in 0..m |-> IF i = m THEN MovedOne(g[m - 1], tab, m - 1) ELSE g[i]]
  <2>4. g = [i \in 0..(m - 1) |-> IF i = 0 THEN base ELSE MovedOne(g[i - 1], tab, i - 1)]
    BY <2>3 DEF Stages
  <2> HIDE DEF base
  <2>5. \A i \in 0..(m - 1) : g[i] = IF i = 0 THEN base ELSE MovedOne(g[i - 1], tab, i - 1)
    BY <2>4
  <2>6. ASSUME NEW i \in 0..m
        PROVE  h[i] = IF i = 0 THEN base ELSE MovedOne(h[i - 1], tab, i - 1)
    <3>1. CASE i = m
      <4>1. i # 0 /\ i - 1 \in 0..m /\ i - 1 # m
        BY <1>2, <1>4, <3>1
      <4>2. h[i - 1] = g[i - 1]
        BY <4>1
      <4>3. h[i] = MovedOne(g[i - 1], tab, i - 1)
        BY <3>1
      <4> QED  BY <4>1, <4>2, <4>3
    <3>2. CASE i # m
      <4>1. i \in 0..(m - 1) /\ h[i] = g[i]
        BY <1>2, <3>2
      <4>2. CASE i = 0
        BY <2>5, <4>1, <4>2
      <4>3. CASE i # 0
        <5>1. i - 1 \in 0..m /\ i - 1 # m
          BY <1>2, <3>2, <4>1, <4>3
        <5>2. h[i - 1] = g[i - 1]
          BY <5>1
        <5> QED  BY <2>5, <4>1, <4>3, <5>2
      <4> QED  BY <4>2, <4>3
    <3> QED  BY <3>1, <3>2
  <2>7. h = [i \in 0..m |-> h[i]]
    OBVIOUS
  <2> HIDE DEF h
  <2>8. [i \in 0..m |-> h[i]] = [i \in 0..m |-> IF i = 0 THEN base ELSE MovedOne(h[i - 1], tab, i - 1)]
    BY <2>6
  <2>9. Stages(tab, n, m, h)
    BY <2>7, <2>8 DEF Stages, base
  <2> QED  BY <1>2, <2>9
<1> QED  BY <1>2, <1>3, <1>4

(* It is what a rehash computes.                                           *)
LEMMA RehashedStages ==
  ASSUME NEW tab, NEW n, End(tab) \in Nat
  PROVE  \E g : Stages(tab, n, End(tab), g) /\ Rehashed(tab, n) = g[End(tab)]
<1> DEFINE c == CHOOSE g : Stages(tab, n, End(tab), g)
<1>1. Rehashed(tab, n) = c[End(tab)]
  BY DEF Rehashed, Stages
<1>2. \E g : Stages(tab, n, End(tab), g)
  BY StagesExist
<1>3. Stages(tab, n, End(tab), c)
  BY <1>2
<1> QED  BY <1>1, <1>3

(* What a rehash needs of the old table; its hashes need not be right.     *)
Movable(tab) ==
  /\ tab \in Tables
  /\ IsFiniteSet(DOMAIN tab.at) /\ tab.num = Cardinality(DOMAIN tab.at)
  /\ \A j \in DOMAIN tab.at : j < End(tab)
  /\ \A i, j \in DOMAIN tab.at : tab.at[i] = tab.at[j] => i = j

(* A good table can be rehashed.                                           *)
LEMMA GoodMovable ==
  ASSUME NEW tab, Good(tab)
  PROVE  Movable(tab)
<1> QED  BY DEF Good, Sized, Truthful, RightCount, Movable

(* So can one whose multiplier has just been changed.                      *)
LEMMA RemultMovable ==
  ASSUME NEW tab, Good(tab), tab.mult < MaxMult
  PROVE  LET new == [tab EXCEPT !.mult = @ + 1]
         IN Movable(new) /\ Held(new) = Held(tab) /\ new.num = tab.num
<1> DEFINE new == [tab EXCEPT !.mult = @ + 1]
<1>1. tab \in Tables
  BY DEF Good, Sized
<1>2. tab.mult \in 0..MaxMult /\ MaxMult \in Nat
  BY <1>1, ConstFacts DEF Tables
<1>3. tab.mult + 1 \in 0..MaxMult
  BY <1>2
<1>4. /\ new \in Tables /\ new.at = tab.at /\ new.num = tab.num /\ new.mask = tab.mask
  BY <1>1, <1>3 DEF Tables
<1> HIDE DEF new
<1>5. End(new) = End(tab)
  BY <1>4 DEF End
<1>6. Movable(tab)
  BY GoodMovable
<1>7. Movable(new) /\ Held(new) = Held(tab)
  BY <1>4, <1>5, <1>6 DEF Movable, Held
<1> QED  BY <1>4, <1>7 DEF new

(* What is moved when the slots before i are done.                         *)
Before(tab, i) == {j \in DOMAIN tab.at : j < i}
Moved(tab, n, i, r) ==
  /\ r \in [tab : Tables, threw : BOOLEAN]
  /\ Good(r.tab) /\ r.tab.mask = n - 1
  /\ r.tab.num <= Cardinality(Before(tab, i))
  /\ ~r.threw => Held(r.tab) = {tab.at[j] : j \in Before(tab, i)}

(* One slot more, at most one entry more.                                  *)
LEMMA BeforeFacts ==
  ASSUME NEW tab, Movable(tab), NEW i \in Nat
  PROVE  /\ IsFiniteSet(Before(tab, i)) /\ Cardinality(Before(tab, i)) \in Nat
         /\ Cardinality(Before(tab, i)) <= tab.num
         /\ Before(tab, i + 1) = IF i \in DOMAIN tab.at THEN Before(tab, i) \cup {i} ELSE Before(tab, i)
         /\ i \notin Before(tab, i)
<1>1. IsFiniteSet(DOMAIN tab.at) /\ tab.num = Cardinality(DOMAIN tab.at) /\ DOMAIN tab.at \subseteq Nat
  BY DEF Movable, Tables, Ats
<1>2. Before(tab, i) \subseteq DOMAIN tab.at
  BY DEF Before
<1>3. /\ IsFiniteSet(Before(tab, i)) /\ Cardinality(Before(tab, i)) \in Nat
      /\ Cardinality(Before(tab, i)) <= tab.num
  BY <1>1, <1>2, FS_Subset, FS_CardinalityType
<1>4. Before(tab, i + 1) = IF i \in DOMAIN tab.at THEN Before(tab, i) \cup {i} ELSE Before(tab, i)
  BY <1>1 DEF Before
<1> QED  BY <1>3, <1>4 DEF Before

(* Moving one entry keeps what was moved, or throws.                       *)
LEMMA MovedOneKeeps ==
  ASSUME hash \in HashFunctions, NEW tab, Movable(tab), NEW n \in Nat, n > 1,
         tab.num <= CalcMaxNumElementsAllowed(n), NEW i \in Nat, NEW r, Moved(tab, n, i, r)
  PROVE  Moved(tab, n, i + 1, MovedOne(r, tab, i))
<1> DEFINE next == MovedOne(r, tab, i)
<1>1. /\ r \in [tab : Tables, threw : BOOLEAN] /\ r.threw \in BOOLEAN
      /\ Good(r.tab) /\ r.tab.mask = n - 1
      /\ r.tab.num <= Cardinality(Before(tab, i))
      /\ ~r.threw => Held(r.tab) = {tab.at[j] : j \in Before(tab, i)}
  BY DEF Moved
<1>2. /\ Before(tab, i + 1) = IF i \in DOMAIN tab.at THEN Before(tab, i) \cup {i} ELSE Before(tab, i)
      /\ IsFiniteSet(Before(tab, i)) /\ Cardinality(Before(tab, i)) \in Nat
      /\ Cardinality(Before(tab, i + 1)) \in Nat /\ Cardinality(Before(tab, i + 1)) <= tab.num
      /\ i \notin Before(tab, i)
  <2>1. i + 1 \in Nat
    OBVIOUS
  <2> QED  BY <2>1, BeforeFacts
<1>3. i \in DOMAIN tab.at => Cardinality(Before(tab, i + 1)) = Cardinality(Before(tab, i)) + 1
  BY <1>2, FS_AddElement
<1>4. r.tab.num \in Nat
  BY <1>1, SizedFacts DEF Good
<1>5. r.tab.num <= Cardinality(Before(tab, i + 1))
  BY <1>1, <1>2, <1>3, <1>4
<1>6. CASE i \notin DOMAIN tab.at
  <2>1. next = r
    BY <1>6 DEF MovedOne
  <2> QED  BY <1>1, <1>2, <1>6, <2>1 DEF Moved
<1>7. CASE i \in DOMAIN tab.at /\ r.threw
  <2>1. next = r
    BY <1>7 DEF MovedOne
  <2>2. Moved(tab, n, i + 1, r)
    BY <1>1, <1>5, <1>7 DEF Moved
  <2> QED  BY <2>1, <2>2
<1>8. CASE i \in DOMAIN tab.at /\ ~r.threw /\ Overflows(r.tab)
  <2>1. next = [r EXCEPT !.threw = TRUE]
    BY <1>8 DEF MovedOne
  <2>2. next.tab = r.tab /\ next.threw = TRUE /\ next \in [tab : Tables, threw : BOOLEAN]
    BY <1>1, <2>1
  <2> HIDE DEF next
  <2>3. Moved(tab, n, i + 1, next)
    BY <1>1, <1>5, <2>2 DEF Moved
  <2> QED  BY <2>3 DEF next
<1>9. CASE i \in DOMAIN tab.at /\ ~r.threw /\ ~Overflows(r.tab)
  <2> DEFINE k == tab.at[i]
             into == InsertMove(r.tab, k)
  <2>1. next = [r EXCEPT !.tab = into]
    BY <1>9 DEF MovedOne
  <2>2. next.tab = into /\ next.threw = FALSE
    <3> HIDE DEF into
    <3> QED  BY <1>1, <1>9, <2>1
  <2>3. k \in Keys
    BY <1>9 DEF Movable, Tables, Ats
  <2>4. k \notin Held(r.tab)
    <3> SUFFICES ASSUME NEW j \in Before(tab, i), tab.at[j] = k PROVE FALSE
      BY <1>1, <1>9
    <3>1. j \in DOMAIN tab.at /\ j # i
      BY <1>2 DEF Before
    <3> QED  BY <1>9, <3>1 DEF Movable
  <2> HIDE DEF k
  <2>5. r.tab.mask # 0 /\ r.tab.mask + 1 = n
    BY <1>1
  <2>6. CalcMaxNumElementsAllowed(n) \in Nat /\ tab.num \in Nat
    BY DEF Movable, Tables, CalcMaxNumElementsAllowed
  <2>7. r.tab.num < CalcMaxNumElementsAllowed(r.tab.mask + 1)
    BY <1>1, <1>2, <1>3, <1>4, <1>9, <2>5, <2>6
  <2>8. /\ Good(into) /\ Held(into) = Held(r.tab) \cup {k}
        /\ into.mask = r.tab.mask /\ into.num = r.tab.num + 1
    BY <1>1, <1>9, <2>3, <2>4, <2>5, <2>7, InsertMoveGood
  <2> HIDE DEF into
  <2>11. next \in [tab : Tables, threw : BOOLEAN]
    BY <1>1, <2>1, <2>8 DEF Good, Sized
  <2> HIDE DEF next
  <2>9. into.num <= Cardinality(Before(tab, i + 1))
    BY <1>1, <1>2, <1>3, <1>4, <1>9, <2>8
  <2>10. Held(into) = {tab.at[j] : j \in Before(tab, i + 1)}
    BY <1>1, <1>2, <1>9, <2>8 DEF k
  <2>12. Moved(tab, n, i + 1, next)
    BY <1>1, <2>2, <2>8, <2>9, <2>10, <2>11 DEF Moved
  <2> QED  BY <2>12 DEF next
<1> QED  BY <1>1, <1>6, <1>7, <1>8, <1>9

(* A rehash keeps all entries, unless it throws; also then the table is    *)
(* a good one.                                                             *)
LEMMA RehashedGood ==
  ASSUME hash \in HashFunctions, NEW tab, Movable(tab), NEW n \in Nat, n > 1,
         tab.num <= CalcMaxNumElementsAllowed(n)
  PROVE  LET r == Rehashed(tab, n)
         IN /\ Good(r.tab) /\ r.threw \in BOOLEAN
            /\ ~r.threw => Held(r.tab) = Held(tab)
<1>1. End(tab) \in Nat /\ tab \in Tables /\ DOMAIN tab.at \subseteq Nat
      /\ \A j \in DOMAIN tab.at : j < End(tab)
  <2>1. tab.mask \in Nat
    BY DEF Movable, Tables
  <2> QED  BY <2>1, EndFacts DEF Movable, Tables, Ats
<1>2. PICK g : Stages(tab, n, End(tab), g) /\ Rehashed(tab, n) = g[End(tab)]
  BY <1>1, RehashedStages
<1> DEFINE base == [tab |-> InitData(tab, n), threw |-> FALSE]
           bad == {i \in 0..End(tab) : ~Moved(tab, n, i, g[i])}
<1>3. g = [i \in 0..End(tab) |-> IF i = 0 THEN base ELSE MovedOne(g[i - 1], tab, i - 1)]
  BY <1>2 DEF Stages
<1>4. Moved(tab, n, 0, base)
  <2> DEFINE new == InitData(tab, n)
  <2>1. Good(new) /\ Held(new) = {} /\ new.mask = n - 1 /\ new.num = 0
    BY <1>1, InitDataGood
  <2> HIDE DEF new
  <2>2. base.tab = new /\ base.threw = FALSE /\ base \in [tab : Tables, threw : BOOLEAN]
    BY <2>1 DEF new, Good, Sized
  <2>3. Before(tab, 0) = {}
    BY <1>1 DEF Before
  <2>4. Cardinality(Before(tab, 0)) = 0
    BY <2>3, FS_EmptySet
  <2>5. {tab.at[j] : j \in Before(tab, 0)} = {}
    BY <2>3
  <2> HIDE DEF base, bad
  <2>6. /\ Good(base.tab) /\ base.tab.mask = n - 1 /\ base.tab.num <= Cardinality(Before(tab, 0))
        /\ Held(base.tab) = {tab.at[j] : j \in Before(tab, 0)}
    <3>1. base.tab = new
      BY <2>2
    <3>2. new.num <= Cardinality(Before(tab, 0))
      BY <2>1, <2>4
    <3>3. Held(new) = {tab.at[j] : j \in Before(tab, 0)}
      BY <2>1, <2>5
    <3> QED  BY <2>1, <3>1, <3>2, <3>3
  <2> QED  BY <2>2, <2>6 DEF Moved
<1>5. bad = {}
  <2> SUFFICES ASSUME bad # {} PROVE FALSE
    OBVIOUS
  <2>1. PICK i \in bad : \A k \in bad : i <= k
    <3>1. bad \in SUBSET Nat
      OBVIOUS
    <3> HIDE DEF bad
    <3> QED  BY <3>1, LeastNatural
  <2>2. i \in 0..End(tab) /\ ~Moved(tab, n, i, g[i])
    BY <2>1
  <2> HIDE DEF base
  <2>3. g[i] = IF i = 0 THEN base ELSE MovedOne(g[i - 1], tab, i - 1)
    BY <1>3, <2>2
  <2>4. CASE i = 0
    BY <1>4, <2>2, <2>3, <2>4
  <2>5. CASE i # 0
    <3>1. i - 1 \in 0..End(tab) /\ i - 1 \in Nat /\ ~(i <= i - 1) /\ (i - 1) + 1 = i
      BY <1>1, <2>2, <2>5
    <3>2. i - 1 \notin bad
      <4> HIDE DEF bad
      <4> QED  BY <2>1, <3>1
    <3>3. Moved(tab, n, i - 1, g[i - 1])
      BY <3>1, <3>2
    <3>4. Moved(tab, n, (i - 1) + 1, MovedOne(g[i - 1], tab, i - 1))
      BY <3>1, <3>3, MovedOneKeeps
    <3> QED  BY <2>2, <2>3, <2>5, <3>1, <3>4
  <2> QED  BY <2>4, <2>5
<1>6. Moved(tab, n, End(tab), Rehashed(tab, n))
  BY <1>1, <1>2, <1>5
<1>7. Before(tab, End(tab)) = DOMAIN tab.at
  BY <1>1 DEF Before
<1> QED  BY <1>6, <1>7 DEF Moved, Held

(* d holds the initial size, doubled up to m times.                        *)
Doublings(m, d) ==
  d = [j \in 0..m |-> IF j = 0 THEN InitialNumElements ELSE 2 * d[j - 1]]

(* The doubling has a solution.                                            *)
LEMMA DoublingsExist ==
  \A m \in Nat : \E d : Doublings(m, d)
<1> DEFINE bad == {m \in Nat : ~\E d : Doublings(m, d)}
<1> SUFFICES ASSUME bad # {} PROVE FALSE
  OBVIOUS
<1>1. PICK m \in bad : \A k \in bad : m <= k
  <2>1. bad \in SUBSET Nat
    OBVIOUS
  <2> HIDE DEF bad
  <2> QED  BY <2>1, LeastNatural
<1>2. m \in Nat /\ ~\E d : Doublings(m, d)
  BY <1>1
<1>3. CASE m = 0
  <2> DEFINE d == [j \in 0..0 |-> InitialNumElements]
  <2>1. \A j \in 0..0 : j = 0
    OBVIOUS
  <2>2. d = [j \in 0..0 |-> IF j = 0 THEN InitialNumElements ELSE 2 * d[j - 1]]
    BY <2>1
  <2>3. Doublings(0, d)
    BY <2>2 DEF Doublings
  <2> HIDE DEF d
  <2> QED  BY <1>2, <1>3, <2>3
<1>4. CASE m > 0
  <2>1. m - 1 \in Nat /\ ~(m <= m - 1)
    BY <1>2, <1>4
  <2>2. m - 1 \notin bad
    <3> HIDE DEF bad
    <3> QED  BY <1>1, <2>1
  <2>3. PICK d : Doublings(m - 1, d)
    BY <2>1, <2>2
  <2> DEFINE h == [j \in 0..m |-> IF j = m THEN 2 * d[m - 1] ELSE d[j]]
  <2>4. d = [j \in 0..(m - 1) |-> IF j = 0 THEN InitialNumElements ELSE 2 * d[j - 1]]
    BY <2>3 DEF Doublings
  <2>5. \A j \in 0..(m - 1) : d[j] = IF j = 0 THEN InitialNumElements ELSE 2 * d[j - 1]
    BY <2>4
  <2>6. ASSUME NEW j \in 0..m
        PROVE  h[j] = IF j = 0 THEN InitialNumElements ELSE 2 * h[j - 1]
    <3>1. CASE j = m
      <4>1. j # 0 /\ j - 1 \in 0..m /\ j - 1 # m
        BY <1>2, <1>4, <3>1
      <4>2. h[j - 1] = d[j - 1]
        BY <4>1
      <4>3. h[j] = 2 * d[j - 1]
        BY <3>1
      <4> HIDE DEF h
      <4> QED  BY <4>1, <4>2, <4>3
    <3>2. CASE j # m
      <4>1. j \in 0..(m - 1) /\ h[j] = d[j]
        BY <1>2, <3>2
      <4>2. j # 0 => h[j - 1] = d[j - 1]
        <5> SUFFICES ASSUME j # 0 PROVE h[j - 1] = d[j - 1]
          OBVIOUS
        <5>1. j - 1 \in 0..m /\ j - 1 # m
          BY <1>2, <3>2, <4>1
        <5> QED  BY <5>1
      <4> HIDE DEF h
      <4> QED  BY <2>5, <4>1, <4>2
    <3> QED  BY <3>1, <3>2
  <2>7. h = [j \in 0..m |-> h[j]]
    OBVIOUS
  <2> HIDE DEF h
  <2>8. [j \in 0..m |-> h[j]] = [j \in 0..m |-> IF j = 0 THEN InitialNumElements ELSE 2 * h[j - 1]]
    BY <2>6
  <2>9. Doublings(m, h)
    BY <2>7, <2>8 DEF Doublings
  <2> QED  BY <1>2, <2>9
<1> QED  BY <1>2, <1>3, <1>4

(* And grows.                                                              *)
LEMMA DoublingsGrow ==
  ASSUME NEW m \in Nat, NEW d, Doublings(m, d)
  PROVE  \A j \in 0..m : d[j] \in Nat /\ d[j] >= 2 * (j + 1)
<1> DEFINE bad == {j \in 0..m : ~(d[j] \in Nat /\ d[j] >= 2 * (j + 1))}
<1> SUFFICES ASSUME bad # {} PROVE FALSE
  OBVIOUS
<1>1. PICK i \in bad : \A k \in bad : i <= k
  <2>1. bad \in SUBSET Nat
    OBVIOUS
  <2> HIDE DEF bad
  <2> QED  BY <2>1, LeastNatural
<1>2. i \in 0..m /\ ~(d[i] \in Nat /\ d[i] >= 2 * (i + 1))
  BY <1>1
<1>3. d[i] = IF i = 0 THEN InitialNumElements ELSE 2 * d[i - 1]
  BY <1>2 DEF Doublings
<1>4. InitialNumElements \in Nat /\ InitialNumElements > 1
  BY ConstFacts
<1>5. CASE i = 0
  BY <1>2, <1>3, <1>4, <1>5
<1>6. CASE i # 0
  <2>1. i \in Nat /\ i > 0 /\ i - 1 \in 0..m /\ ~(i <= i - 1)
    BY <1>2, <1>6
  <2>2. i - 1 \notin bad
    <3> HIDE DEF bad
    <3> QED  BY <1>1, <2>1
  <2>3. d[i - 1] \in Nat /\ d[i - 1] >= 2 * ((i - 1) + 1)
    BY <2>1, <2>2
  <2> DEFINE a == d[i - 1]
  <2>4. a \in Nat /\ a >= 2 * ((i - 1) + 1) /\ d[i] = 2 * a
    BY <1>3, <1>6, <2>3
  <2> HIDE DEF a
  <2>5. 2 * a \in Nat /\ 2 * a >= 2 * (i + 1)
    BY <2>1, <2>4
  <2> QED  BY <1>2, <2>4, <2>5
<1> QED  BY <1>5, <1>6

(* The size for c entries allows c entries.                                *)
LEMMA NewSizeFacts ==
  ASSUME NEW c \in Nat
  PROVE  NewSize(c) \in Nat /\ NewSize(c) > 1 /\ CalcMaxNumElementsAllowed(NewSize(c)) >= c
<1> DEFINE d == CHOOSE g : Doublings(c, g)
           S == {j \in 0..c : CalcMaxNumElementsAllowed(d[j]) >= c}
<1>1. NewSize(c) = d[Min(S)]
  BY DEF NewSize, Doublings
<1>2. \E g : Doublings(c, g)
  BY DoublingsExist
<1>3. Doublings(c, d)
  BY <1>2
<1> HIDE DEF d
<1>4. \A j \in 0..c : d[j] \in Nat /\ d[j] >= 2 * (j + 1)
  BY <1>3, DoublingsGrow
<1>5. c \in S
  <2> DEFINE a == d[c]
  <2>1. a \in Nat /\ a >= 2 * (c + 1)
    BY <1>4
  <2>2. CalcMaxNumElementsAllowed(a) >= c
    <3> HIDE DEF a
    <3> QED  BY <2>1 DEF CalcMaxNumElementsAllowed
  <2> QED  BY <2>2
<1>6. Min(S) \in S
  <2>1. S \in SUBSET Nat
    OBVIOUS
  <2> HIDE DEF S
  <2> QED  BY <1>5, <2>1, MinFacts
<1>7. Min(S) \in 0..c /\ CalcMaxNumElementsAllowed(d[Min(S)]) >= c
  BY <1>6
<1> HIDE DEF S
<1>8. d[Min(S)] \in Nat /\ d[Min(S)] > 1
  BY <1>4, <1>7
<1> QED  BY <1>1, <1>7, <1>8

(***************************************************************************)
(* The steps.                                                              *)
(***************************************************************************)

(* A good table under the same hash function.                              *)
LEMMA NextTable ==
  ASSUME hash' = hash, Good(table')
  PROVE  Good(table)' /\ Held(table)' = Held(table') /\ End(table)' = End(table')
<1>1. End(table)' = End(table')
  BY DEF End, CalcNumElementsWithBuffer, CalcMaxNumElementsAllowed
<1>2. Held(table)' = Held(table')
  BY DEF Held
<1>3. Sized(table)'
  BY DEF Good, Sized, Tables, Infos, Ats, End, CalcNumElementsWithBuffer, CalcMaxNumElementsAllowed
<1>4. Truthful(table)'
  BY DEF Good, Truthful, Home, Expected, Info, End, CalcNumElementsWithBuffer, CalcMaxNumElementsAllowed
<1>5. NoStrayBytes(table)' /\ Chained(table)' /\ Roomy(table)'
  BY DEF Good, NoStrayBytes, Chained, Roomy, End, CalcNumElementsWithBuffer, CalcMaxNumElementsAllowed
<1>6. RightCount(table)'
  BY DEF Good, RightCount, CalcMaxNumElementsAllowed
<1> QED  BY <1>1, <1>2, <1>3, <1>4, <1>5, <1>6 DEF Good

(* What a step has to show.                                                *)
LEMMA Kept ==
  ASSUME hash \in HashFunctions, hash' = hash, Good(table'),
         failed' # "rehash" => contents' = Held(table'), Turns', SweepOK'
  PROVE  TableInv'
<1>1. Good(table)' /\ Held(table)' = Held(table')
  BY NextTable
<1> QED  BY <1>1 DEF TableInv

(* Nothing but the sweep changes the sweep.                                *)
LEMMA Still ==
  ASSUME sweep' = NoSweep
  PROVE  SweepOK'
<1> QED  BY DEF SweepOK

(* No insertion under way.                                                 *)
LEMMA NoOpFacts ==
  NoOp \in [key : Keys \cup {None}, tries : Nat] /\ NoOp.key = None
<1> QED  BY DEF NoOp

(* Between two operations.                                                 *)
LEMMA IdleFacts ==
  ASSUME TableInv, Idle
  PROVE  /\ hash \in HashFunctions /\ Good(table) /\ contents = Held(table)
         /\ failed = "no" /\ sweep = NoSweep /\ op = NoOp
<1> QED  BY DEF TableInv, Idle

(* A rehash, unless it throws, keeps the keys.                             *)
LEMMA RehashKeeps ==
  ASSUME TableInv, failed = "no", NEW tab, Movable(tab), Held(tab) = Held(table), NEW n \in Nat, n > 1,
         tab.num <= CalcMaxNumElementsAllowed(n), Rehash(tab, n)
  PROVE  /\ Good(table') /\ failed' \in {"no", "rehash"}
         /\ failed' # "rehash" => Held(table') = Held(table)
<1>1. /\ table' = Rehashed(tab, n).tab
      /\ failed' = IF Rehashed(tab, n).threw THEN "rehash" ELSE failed
  BY DEF Rehash
<1>2. LET r == Rehashed(tab, n)
      IN /\ Good(r.tab) /\ r.threw \in BOOLEAN
         /\ ~r.threw => Held(r.tab) = Held(tab)
  BY RehashedGood DEF TableInv
<1> QED  BY <1>1, <1>2

(* A table without slots, or without entries, holds no key.                *)
LEMMA UnallocatedFacts ==
  ASSUME NEW tab, Good(tab)
  PROVE  /\ tab.mask = 0 => DOMAIN tab.at = {} /\ Held(tab) = {} /\ tab.num = 0
         /\ tab.num = 0 => DOMAIN tab.at = {} /\ Held(tab) = {}
<1>1. DOMAIN tab.at \subseteq Nat /\ \A i \in DOMAIN tab.at : i < End(tab)
  BY SizedFacts DEF Good, Truthful
<1>2. tab.mask = 0 => DOMAIN tab.at = {}
  BY <1>1 DEF End
<1>3. IsFiniteSet(DOMAIN tab.at) /\ tab.num = Cardinality(DOMAIN tab.at)
  BY DEF Good, RightCount
<1>4. tab.num = 0 <=> DOMAIN tab.at = {}
  BY <1>3, FS_EmptySet
<1> QED  BY <1>2, <1>4 DEF Held

(* Each of the four ways to make room keeps the keys, unless it throws.    *)
LEMMA IncreaseSizeKeeps ==
  ASSUME TableInv, failed = "no", IncreaseSize
  PROVE  /\ Good(table') /\ failed' \in {"no", "rehash"}
         /\ failed' # "rehash" => Held(table') = Held(table)
<1> DEFINE allowed == CalcMaxNumElementsAllowed(table.mask + 1)
<1>1. hash \in HashFunctions /\ Good(table) /\ table \in Tables /\ table.mask \in Nat /\ table.num \in Nat
  BY DEF TableInv, Good, Sized, Tables
<1>2. table.num <= allowed
  BY <1>1 DEF Good, RightCount
<1>3. CASE table.mask = 0 /\ table' = InitData(table, InitialNumElements) /\ UNCHANGED failed
  <2>1. LET new == InitData(table, InitialNumElements)
        IN Good(new) /\ Held(new) = {}
    BY <1>1, ConstFacts, InitDataGood
  <2> QED  BY <1>1, <1>3, <2>1, UnallocatedFacts
<1>4. CASE /\ table.mask # 0 /\ table.num < allowed /\ CanIncreaseInfo(table)
           /\ table' = IncreasedInfo(table) /\ UNCHANGED failed
  <2>1. LET new == IncreasedInfo(table)
        IN Good(new) /\ Held(new) = Held(table)
    BY <1>1, <1>4, IncreasedGood
  <2> QED  BY <1>4, <2>1
<1>5. CASE /\ table.mask # 0 /\ table.mult < MaxMult
           /\ Rehash([table EXCEPT !.mult = @ + 1], table.mask + 1)
  <2> DEFINE new == [table EXCEPT !.mult = @ + 1]
  <2>1. Movable(new) /\ Held(new) = Held(table) /\ new.num = table.num
    BY <1>1, <1>5, RemultMovable
  <2>2. Rehash(new, table.mask + 1)
    BY <1>5
  <2> HIDE DEF new
  <2>3. table.mask + 1 \in Nat /\ table.mask + 1 > 1
    BY <1>1, <1>5
  <2> QED  BY <1>2, <2>1, <2>2, <2>3, RehashKeeps
<1>6. CASE table.mask # 0 /\ Rehash(table, (table.mask + 1) * 2)
  <2> DEFINE n == table.mask + 1
  <2>1. n \in Nat /\ n > 1 /\ n * 2 \in Nat /\ n * 2 > 1
    BY <1>1, <1>6
  <2>2. CalcMaxNumElementsAllowed(n) <= CalcMaxNumElementsAllowed(n * 2)
        /\ CalcMaxNumElementsAllowed(n) \in Nat /\ CalcMaxNumElementsAllowed(n * 2) \in Nat
    <3> HIDE DEF n
    <3> QED  BY <2>1 DEF CalcMaxNumElementsAllowed
  <2>3. table.num <= CalcMaxNumElementsAllowed(n * 2)
    <3> HIDE DEF n
    <3> QED  BY <1>1, <1>2, <2>2 DEF n
  <2>4. Movable(table)
    BY <1>1, GoodMovable
  <2>5. Rehash(table, n * 2)
    BY <1>6
  <2> HIDE DEF n
  <2> QED  BY <2>1, <2>3, <2>4, <2>5, RehashKeeps
<1> HIDE DEF allowed
<1>7. \/ table.mask = 0 /\ table' = InitData(table, InitialNumElements) /\ UNCHANGED failed
      \/ /\ table.mask # 0 /\ table.num < allowed /\ CanIncreaseInfo(table)
         /\ table' = IncreasedInfo(table) /\ UNCHANGED failed
      \/ /\ table.mask # 0
         /\ IF table.num * 2 < allowed
            THEN table.mult < MaxMult /\ Rehash([table EXCEPT !.mult = @ + 1], table.mask + 1)
            ELSE Rehash(table, (table.mask + 1) * 2)
  BY DEF IncreaseSize, allowed
<1> QED  BY <1>3, <1>4, <1>5, <1>6, <1>7

(* The next insertion's entry.                                             *)
LEMMA PlacedKeeps ==
  ASSUME hash \in HashFunctions, NEW tab, Good(tab), NEW k \in Keys, ~KeyFound(tab, k), tab.num < tab.max
  PROVE  LET new == Placed(tab, k, RunEnd(tab, k))
         IN Good(new) /\ Held(new) = Held(tab) \cup {k}
<1> DEFINE d == RunEnd(tab, k)
           new == Placed(tab, k, d)
<1>1. InsertSpot(tab, k, d) /\ k \notin Held(tab)
  BY RunEndSpot
<1>2. tab.num \in Nat /\ tab.max \in Nat /\ tab.max \in {0, CalcMaxNumElementsAllowed(tab.mask + 1)}
  BY SizedFacts DEF Good, Sized
<1>3. tab.max # 0 /\ tab.num < CalcMaxNumElementsAllowed(tab.mask + 1)
  BY <1>2
<1> HIDE DEF d, new
<1>4. PICK e : Opened(tab, Placed(tab, k, d), k, d, e)
  BY <1>1, <1>3, PlacedOpened
<1>5. Opened(tab, new, k, d, e)
  BY <1>4 DEF new
<1>6. Good(new) /\ Held(new) = Held(tab) \cup {k}
  BY <1>1, <1>3, <1>5, OpenedGood
<1> QED  BY <1>6 DEF new, d

(* One turn of an insertion.                                               *)
LEMMA AttemptKeeps ==
  ASSUME TableInv, Attempt
  PROVE  TableInv'
<1>1. /\ hash \in HashFunctions /\ hash' = hash /\ sweep' = sweep /\ failed = "no"
      /\ op.key \in Keys /\ sweep = NoSweep /\ op \in [key : Keys \cup {None}, tries : Nat]
      /\ Good(table) /\ contents = Held(table)
  BY DEF TableInv, Attempt, Turns
<1>2. SweepOK'
  BY <1>1, Still
<1>3. CASE /\ op.tries = Attempts
           /\ failed' = "insert" /\ op' = NoOp /\ UNCHANGED <<table, contents>>
  <2>1. Turns'
    BY <1>1, <1>3, NoOpFacts DEF Turns
  <2> QED  BY <1>1, <1>2, <1>3, <2>1, Kept
<1>4. CASE KeyFound(table, op.key) /\ op' = NoOp /\ UNCHANGED <<table, failed, contents>>
  <2>1. Turns'
    BY <1>1, <1>4, NoOpFacts DEF Turns
  <2> QED  BY <1>1, <1>2, <1>4, <2>1, Kept
<1>5. CASE IncreaseSize /\ op' = [op EXCEPT !.tries = @ + 1] /\ UNCHANGED contents
  <2>1. Turns'
    BY <1>1, <1>5 DEF Turns
  <2>2. /\ Good(table') /\ failed' \in {"no", "rehash"}
        /\ failed' # "rehash" => Held(table') = Held(table)
    BY <1>1, <1>5, IncreaseSizeKeeps
  <2> QED  BY <1>1, <1>2, <1>5, <2>1, <2>2, Kept
<1>6. CASE /\ ~KeyFound(table, op.key) /\ table.num < table.max
           /\ table' = Placed(table, op.key, RunEnd(table, op.key))
           /\ contents' = contents \cup {op.key}
           /\ op' = NoOp /\ UNCHANGED failed
  <2>1. Turns'
    BY <1>1, <1>6, NoOpFacts DEF Turns
  <2>2. LET new == Placed(table, op.key, RunEnd(table, op.key))
        IN Good(new) /\ Held(new) = Held(table) \cup {op.key}
    BY <1>1, <1>6, PlacedKeeps
  <2> QED  BY <1>1, <1>2, <1>6, <2>1, <2>2, Kept
<1> QED  BY <1>3, <1>4, <1>5, <1>6 DEF Attempt

(* What shiftDown leaves, also for an iterator at the erased slot.         *)
LEMMA ShiftDownGood ==
  ASSUME hash \in HashFunctions, NEW tab, Good(tab), NEW i \in DOMAIN tab.at
  PROVE  LET new == ShiftDown(tab, i)
         IN /\ Good(new) /\ Held(new) = Held(tab) \ {tab.at[i]} /\ End(new) = End(tab)
            /\ \A j \in DOMAIN new.at : \E m \in DOMAIN tab.at :
                 new.at[j] = tab.at[m] /\ m # i /\ (m < i <=> j < i)
<1> DEFINE new == ShiftDown(tab, i)
<1>1. PICK e : Closed(tab, ShiftDown(tab, i), i, e)
  BY ShiftDownClosed
<1>2. Closed(tab, new, i, e)
  BY <1>1
<1> HIDE DEF new
<1>3. Good(new) /\ Held(new) = Held(tab) \ {tab.at[i]} /\ End(new) = End(tab)
  BY <1>2, ClosedGood
<1>4. MovedBack(tab, new, i, e)
  BY <1>2, ClosedEntries
<1>5. i \in Nat /\ e \in Nat
  BY <1>2, SizedFacts DEF Good, Closed
<1>6. ASSUME NEW j \in DOMAIN new.at
      PROVE  \E m \in DOMAIN tab.at : new.at[j] = tab.at[m] /\ m # i /\ (m < i <=> j < i)
  <2> DEFINE m == From(i, e, j)
  <2>1. j \in Nat /\ m \in DOMAIN tab.at /\ m # i /\ new.at[j] = tab.at[m]
    BY <1>4 DEF MovedBack
  <2>2. m < i <=> j < i
    BY <1>5, <2>1 DEF From
  <2> HIDE DEF m
  <2> QED  BY <2>1, <2>2
<1> QED  BY <1>3, <1>6 DEF new

(* fastForward passes no entry.                                            *)
LEMMA FastForwardFacts ==
  ASSUME hash \in HashFunctions, NEW tab, Good(tab), tab.mask # 0, NEW i \in Nat, i <= End(tab)
  PROVE  LET f == FastForward(tab, i)
         IN /\ f \in Nat /\ i <= f /\ (f # End(tab) => f \in DOMAIN tab.at)
            /\ \A j \in DOMAIN tab.at : j < f <=> j < i
<1> DEFINE S == {j \in DOMAIN tab.info : j >= i /\ tab.info[j] # 0}
           f == Min(S)
<1>1. Sized(tab) /\ Truthful(tab) /\ NoStrayBytes(tab)
  BY DEF Good
<1>2. /\ DOMAIN tab.info = 0..(End(tab) + 2) /\ End(tab) \in Nat /\ DOMAIN tab.at \subseteq Nat
      /\ \A j \in DOMAIN tab.at : j < End(tab)
  BY <1>1, SizedFacts DEF Truthful
<1>3. S \in SUBSET Nat /\ End(tab) \in S
  BY <1>1, <1>2 DEF NoStrayBytes
<1>4. f \in S /\ \A j \in S : f <= j
  <2> HIDE DEF S
  <2> QED  BY <1>3, MinFacts
<1>5. f \in DOMAIN tab.info /\ f >= i /\ tab.info[f] # 0
  BY <1>4
<1>6. f # End(tab) => f \in DOMAIN tab.at
  BY <1>1, <1>5 DEF NoStrayBytes
<1>7. ASSUME NEW j \in DOMAIN tab.at, j >= i PROVE f <= j
  <2>1. j \in DOMAIN tab.info /\ tab.info[j] # 0
    BY <1>1, <1>2 DEF NoStrayBytes
  <2> QED  BY <1>4, <1>7, <2>1
<1>8. f \in Nat
  BY <1>2, <1>5
<1>9. f = FastForward(tab, i)
  BY DEF FastForward
<1> HIDE DEF f, S
<1>10. \A j \in DOMAIN tab.at : j < f <=> j < i
  <2> TAKE j \in DOMAIN tab.at
  <2>1. j \in Nat
    BY <1>2
  <2> QED  BY <1>5, <1>7, <1>8, <2>1
<1> QED  BY <1>5, <1>6, <1>8, <1>9, <1>10

(* An insertion that starts.                                               *)
LEMMA StartInsertKeeps ==
  ASSUME TableInv, NEW k \in Keys, Insert(k)
  PROVE  TableInv'
<1>1. /\ hash \in HashFunctions /\ Good(table) /\ contents = Held(table)
      /\ failed = "no" /\ sweep = NoSweep
  BY IdleFacts DEF Insert
<1>2. op' = [key |-> k, tries |-> 0] /\ UNCHANGED <<table, hash, failed, sweep, contents>>
  BY DEF Insert
<1>3. Turns' /\ SweepOK'
  BY <1>1, <1>2, Still DEF Turns
<1> QED  BY <1>1, <1>2, <1>3, Kept

(* Between two operations.                                                 *)
LEMMA IdleKept ==
  ASSUME TableInv, Idle, UNCHANGED <<hash, op, sweep>>, Good(table'),
         failed' # "rehash" => contents' = Held(table')
  PROVE  TableInv'
<1>1. hash \in HashFunctions /\ sweep = NoSweep /\ op = NoOp
  BY IdleFacts
<1>2. Turns' /\ SweepOK'
  BY <1>1, Still, NoOpFacts DEF Turns
<1> QED  BY <1>1, <1>2, Kept

(* erase(key)                                                              *)
LEMMA EraseKeeps ==
  ASSUME TableInv, NEW k \in Keys, Erase(k)
  PROVE  TableInv'
<1> DEFINE found == FindDistances(table, k, 1)
           i == Home(table, k) + Min(found)
<1>1. /\ Idle /\ table' = (IF found = {} THEN table ELSE ShiftDown(table, i))
      /\ contents' = contents \ {k} /\ UNCHANGED <<hash, op, failed, sweep>>
  BY DEF Erase
<1>2. hash \in HashFunctions /\ Good(table) /\ contents = Held(table)
  BY <1>1, IdleFacts
<1>3. /\ found \in SUBSET Nat
      /\ \A d \in found : Home(table, k) + d \in DOMAIN table.at /\ table.at[Home(table, k) + d] = k
      /\ found # {} <=> k \in Held(table)
  BY <1>2, FindCorrect
<1> HIDE DEF found
<1>4. CASE found = {}
  BY <1>1, <1>2, <1>3, <1>4, IdleKept
<1>5. CASE found # {}
  <2>1. i \in DOMAIN table.at /\ table.at[i] = k
    BY <1>3, <1>5, MinFacts
  <2> HIDE DEF i
  <2>2. LET new == ShiftDown(table, i)
        IN Good(new) /\ Held(new) = Held(table) \ {k}
    BY <1>2, <2>1, ShiftDownGood
  <2> QED  BY <1>1, <1>2, <1>5, <2>2, IdleKept
<1> QED  BY <1>4, <1>5

(* clear()                                                                 *)
LEMMA ClearKeeps ==
  ASSUME TableInv, Clear
  PROVE  TableInv'
<1>1. /\ Idle /\ table.num > 0 /\ contents' = {} /\ UNCHANGED <<hash, op, failed, sweep>>
      /\ table' = [table EXCEPT !.num = 0, !.at = <<>>, !.inc = InitialInfoInc, !.cut = 1,
                        !.info = [i \in DOMAIN @ |-> IF i = End(table) THEN 1 ELSE 0]]
  BY DEF Clear
<1>2. Good(table)
  BY <1>1, IdleFacts
<1>3. table.mask # 0
  BY <1>1, <1>2, UnallocatedFacts
<1>4. Good(table') /\ Held(table') = {}
  BY <1>1, <1>2, <1>3, ClearedGood
<1> QED  BY <1>1, <1>4, IdleKept

(* A table moved from.                                                     *)
LEMMA MoveOutKeeps ==
  ASSUME TableInv, MoveOut
  PROVE  TableInv'
<1>1. Idle /\ table' = Unallocated(table.mult) /\ contents' = {} /\ UNCHANGED <<hash, op, failed, sweep>>
  BY DEF MoveOut
<1>2. table.mult \in 0..MaxMult
  BY <1>1, IdleFacts DEF Good, Sized, Tables
<1>3. Good(table') /\ Held(table') = {}
  BY <1>1, <1>2, UnallocatedGood
<1> QED  BY <1>1, <1>3, IdleKept

(* reserve(), rehash() and compact() leave room for what is there.         *)
LEMMA ResizeKeeps ==
  ASSUME TableInv, Idle, NEW c \in Nat, table.num <= c, Rehash(table, NewSize(c)),
         UNCHANGED <<hash, op, sweep, contents>>
  PROVE  TableInv'
<1> DEFINE n == NewSize(c)
<1>1. Good(table) /\ contents = Held(table) /\ failed = "no"
  BY IdleFacts
<1>2. n \in Nat /\ n > 1 /\ CalcMaxNumElementsAllowed(n) >= c
  BY NewSizeFacts
<1>3. table.num \in Nat /\ Movable(table)
  BY <1>1, GoodMovable, SizedFacts DEF Good
<1> HIDE DEF n
<1>4. table.num <= CalcMaxNumElementsAllowed(n)
  <2>1. CalcMaxNumElementsAllowed(n) \in Nat
    BY <1>2 DEF CalcMaxNumElementsAllowed
  <2> QED  BY <1>2, <1>3, <2>1
<1>5. Rehash(table, n)
  BY DEF n
<1>6. Good(table') /\ (failed' # "rehash" => Held(table') = Held(table))
  BY <1>1, <1>2, <1>3, <1>4, <1>5, RehashKeeps
<1> QED  BY <1>1, <1>6, IdleKept

(* reserve(c) and rehash(c)                                                *)
LEMMA ReserveKeeps ==
  ASSUME TableInv, NEW c \in ReserveArgs, NEW force \in BOOLEAN, Reserve(c, force)
  PROVE  TableInv'
<1> DEFINE most == IF c > table.num THEN c ELSE table.num
<1>1. Idle /\ Rehash(table, NewSize(most)) /\ UNCHANGED <<hash, op, sweep, contents>>
  BY DEF Reserve
<1>2. table.num \in Nat /\ c \in Nat
  BY <1>1, IdleFacts, SizedFacts, TableAssumption DEF Good
<1>3. most \in Nat /\ table.num <= most
  BY <1>2
<1> HIDE DEF most
<1> QED  BY <1>1, <1>3, ResizeKeeps

(* compact()                                                               *)
LEMMA CompactKeeps ==
  ASSUME TableInv, Compact
  PROVE  TableInv'
<1>1. Idle /\ Rehash(table, NewSize(table.num)) /\ UNCHANGED <<hash, op, sweep, contents>>
  BY DEF Compact
<1>2. table.num \in Nat /\ table.num <= table.num
  BY <1>1, IdleFacts, SizedFacts DEF Good
<1> QED  BY <1>1, <1>2, ResizeKeeps

(* begin(): nothing is passed yet.                                         *)
LEMMA StartSweepKeeps ==
  ASSUME TableInv, StartSweep
  PROVE  TableInv'
<1>1. /\ Idle /\ sweep' = [at |-> Begin(table), seen |-> {}]
      /\ UNCHANGED <<table, hash, op, failed, contents>>
  BY DEF StartSweep
<1>2. hash \in HashFunctions /\ Good(table) /\ contents = Held(table) /\ failed = "no" /\ op = NoOp
  BY <1>1, IdleFacts
<1>3. End(table) \in Nat /\ DOMAIN table.at \subseteq Nat
  BY <1>2, SizedFacts DEF Good
<1> DEFINE b == Begin(table)
<1>4. /\ b \in Nat /\ (b # End(table) => b \in DOMAIN table.at)
      /\ \A j \in DOMAIN table.at : ~(j < b)
  <2>1. CASE table.num = 0
    <3>1. b = End(table) /\ DOMAIN table.at = {}
      BY <1>2, <2>1, UnallocatedFacts DEF Begin
    <3> QED  BY <1>3, <3>1
  <2>2. CASE table.num # 0
    <3>1. table.mask # 0 /\ b = FastForward(table, 0)
      BY <1>2, <2>2, UnallocatedFacts DEF Begin
    <3>2. 0 \in Nat /\ 0 <= End(table)
      BY <1>3
    <3>3. LET f == FastForward(table, 0)
          IN /\ f \in Nat /\ 0 <= f /\ (f # End(table) => f \in DOMAIN table.at)
             /\ \A j \in DOMAIN table.at : j < f <=> j < 0
      BY <1>2, <3>1, <3>2, FastForwardFacts
    <3> HIDE DEF b
    <3> QED  BY <1>3, <3>1, <3>3
  <2> QED  BY <2>1, <2>2
<1>5. sweep'.at = b /\ sweep'.seen = {} /\ DOMAIN sweep' = {"at", "seen"}
  BY <1>1
<1> HIDE DEF b
<1>6. End(table)' = End(table)
  BY <1>1 DEF End
<1>7. SweepOK'
  BY <1>1, <1>4, <1>5, <1>6 DEF SweepOK
<1>8. Turns'
  BY <1>1, <1>2, NoOpFacts DEF Turns
<1> QED  BY <1>1, <1>2, <1>7, <1>8, Kept

(* A sweep under way.                                                      *)
LEMMA PassingFacts ==
  ASSUME TableInv, Passing
  PROVE  /\ hash \in HashFunctions /\ Good(table) /\ contents = Held(table) /\ failed # "rehash"
         /\ op.key = None /\ op \in [key : Keys \cup {None}, tries : Nat]
         /\ sweep.at \in DOMAIN table.at /\ sweep.at \in Nat /\ sweep.at + 1 <= End(table)
         /\ table.mask # 0 /\ DOMAIN sweep = {"at", "seen"}
         /\ \A j \in DOMAIN table.at : table.at[j] \in sweep.seen <=> j < sweep.at
<1>1. /\ hash \in HashFunctions /\ Good(table) /\ contents = Held(table) /\ failed # "rehash"
      /\ op.key = None /\ op \in [key : Keys \cup {None}, tries : Nat]
      /\ sweep.at \in DOMAIN table.at /\ sweep.at \in Nat /\ DOMAIN sweep = {"at", "seen"}
      /\ \A j \in DOMAIN table.at : table.at[j] \in sweep.seen <=> j < sweep.at
  BY DEF TableInv, Turns, SweepOK, Passing
<1>2. sweep.at < End(table) /\ End(table) \in Nat
  BY <1>1, SizedFacts DEF Good, Truthful
<1>3. table.mask # 0
  BY <1>1, UnallocatedFacts
<1> QED  BY <1>1, <1>2, <1>3

(* ++it passes the entry it stood at, and no other.                        *)
LEMMA AdvanceKeeps ==
  ASSUME TableInv, Advance
  PROVE  TableInv'
<1> DEFINE p == sweep.at
           f == FastForward(table, p + 1)
<1>1. /\ Passing /\ sweep' = [at |-> f, seen |-> sweep.seen \cup {table.at[p]}]
      /\ UNCHANGED <<table, hash, op, failed, contents>>
  BY DEF Advance
<1>2. /\ hash \in HashFunctions /\ Good(table) /\ contents = Held(table) /\ failed # "rehash"
      /\ op.key = None /\ op \in [key : Keys \cup {None}, tries : Nat]
      /\ p \in DOMAIN table.at /\ p \in Nat /\ p + 1 <= End(table) /\ table.mask # 0
      /\ \A j \in DOMAIN table.at : table.at[j] \in sweep.seen <=> j < p
  BY <1>1, PassingFacts
<1>3. p + 1 \in Nat /\ DOMAIN table.at \subseteq Nat
  BY <1>2, SizedFacts DEF Good
<1>4. /\ f \in Nat /\ (f # End(table) => f \in DOMAIN table.at)
      /\ \A j \in DOMAIN table.at : j < f <=> j < p + 1
  BY <1>2, <1>3, FastForwardFacts
<1> HIDE DEF f
<1>5. sweep'.at = f /\ sweep'.seen = sweep.seen \cup {table.at[p]} /\ DOMAIN sweep' = {"at", "seen"}
  BY <1>1
<1> HIDE DEF p
<1>6. ASSUME NEW j \in DOMAIN table.at
      PROVE  table.at[j] \in sweep.seen \cup {table.at[p]} <=> j < f
  <2>1. j \in Nat
    BY <1>3
  <2>2. table.at[j] = table.at[p] <=> j = p
    BY <1>2 DEF Good, Truthful
  <2>3. j < f <=> j < p \/ j = p
    BY <1>2, <1>4, <2>1
  <2> QED  BY <1>2, <2>2, <2>3
<1>7. End(table)' = End(table)
  BY <1>1 DEF End
<1>8. SweepOK'
  BY <1>1, <1>4, <1>5, <1>6, <1>7 DEF SweepOK
<1>9. Turns'
  BY <1>1, <1>2 DEF Turns
<1> QED  BY <1>1, <1>2, <1>8, <1>9, Kept

(* erase(it): what is shifted back has not been passed.                    *)
LEMMA EraseHereKeeps ==
  ASSUME TableInv, EraseHere
  PROVE  TableInv'
<1> DEFINE p == sweep.at
           new == ShiftDown(table, p)
           f == AfterErase(new, p)
<1>1. /\ Passing /\ table' = new /\ contents' = contents \ {table.at[p]}
      /\ UNCHANGED <<hash, op, failed>> /\ sweep' = [sweep EXCEPT !.at = f]
  BY DEF EraseHere
<1>2. /\ hash \in HashFunctions /\ Good(table) /\ contents = Held(table) /\ failed # "rehash"
      /\ op.key = None /\ op \in [key : Keys \cup {None}, tries : Nat]
      /\ p \in DOMAIN table.at /\ p \in Nat /\ p + 1 <= End(table) /\ table.mask # 0
      /\ DOMAIN sweep = {"at", "seen"}
      /\ \A j \in DOMAIN table.at : table.at[j] \in sweep.seen <=> j < p
  BY <1>1, PassingFacts
<1>3. /\ Good(new) /\ Held(new) = Held(table) \ {table.at[p]} /\ End(new) = End(table)
      /\ \A j \in DOMAIN new.at : \E m \in DOMAIN table.at :
           new.at[j] = table.at[m] /\ m # p /\ (m < p <=> j < p)
  BY <1>2, ShiftDownGood
<1>4. f = IF new.info[p] # 0 THEN p ELSE FastForward(new, p + 1)
  BY DEF AfterErase
<1> HIDE DEF new, f
<1>5. sweep'.at = f /\ sweep'.seen = sweep.seen /\ DOMAIN sweep' = {"at", "seen"}
  BY <1>1, <1>2
<1> HIDE DEF p
<1>6. /\ DOMAIN new.at \subseteq Nat /\ DOMAIN new.info = 0..(End(table) + 2) /\ End(table) \in Nat
      /\ new.mask # 0 /\ p \in DOMAIN new.info
  <2>1. DOMAIN new.at \subseteq Nat /\ DOMAIN new.info = 0..(End(new) + 2) /\ End(new) \in Nat
    BY <1>3, SizedFacts DEF Good
  <2>2. End(new) # 0
    BY <1>2, <1>3, <2>1
  <2>3. new.mask # 0
    BY <2>2 DEF End
  <2>4. p \in 0..(End(table) + 2)
    BY <1>2, <1>3, <2>1
  <2> QED  BY <1>3, <2>1, <2>3, <2>4
<1>7. ASSUME NEW j \in DOMAIN new.at
      PROVE  new.at[j] \in sweep.seen <=> j < p
  <2>1. PICK m \in DOMAIN table.at : new.at[j] = table.at[m] /\ m # p /\ (m < p <=> j < p)
    BY <1>3
  <2> QED  BY <1>2, <2>1
<1>8. new.info[p] # 0 <=> p \in DOMAIN new.at
  <2>1. p # End(new)
    BY <1>2, <1>3, <1>6
  <2> QED  BY <1>3, <1>6, <2>1 DEF Good, NoStrayBytes
<1>9. /\ f \in Nat /\ (f # End(table) => f \in DOMAIN new.at)
      /\ \A j \in DOMAIN new.at : j < f <=> j < p
  <2>1. CASE p \in DOMAIN new.at
    BY <1>2, <1>4, <1>8, <2>1
  <2>2. CASE p \notin DOMAIN new.at
    <3>1. p + 1 \in Nat /\ p + 1 <= End(new)
      BY <1>2, <1>3
    <3>2. LET g == FastForward(new, p + 1)
          IN /\ g \in Nat /\ (g # End(new) => g \in DOMAIN new.at)
             /\ \A j \in DOMAIN new.at : j < g <=> j < p + 1
      BY <1>2, <1>3, <1>6, <3>1, FastForwardFacts
    <3>3. f = FastForward(new, p + 1)
      BY <1>4, <1>8, <2>2
    <3>4. \A j \in DOMAIN new.at : j < p + 1 <=> j < p
      <4> TAKE j \in DOMAIN new.at
      <4>1. j \in Nat /\ j # p
        BY <1>6, <2>2
      <4> QED  BY <1>2, <4>1
    <3> QED  BY <1>3, <3>2, <3>3, <3>4
  <2> QED  BY <2>1, <2>2
<1>10. End(table)' = End(table)
  BY <1>1, <1>3 DEF End
<1>11. SweepOK'
  BY <1>1, <1>5, <1>7, <1>9, <1>10 DEF SweepOK
<1>12. Turns'
  BY <1>1, <1>2 DEF Turns
<1>13. contents' = Held(table')
  BY <1>1, <1>2, <1>3 DEF p
<1> QED  BY <1>1, <1>2, <1>3, <1>11, <1>12, <1>13, Kept

(* end()                                                                   *)
LEMMA EndSweepKeeps ==
  ASSUME TableInv, EndSweep
  PROVE  TableInv'
<1>1. sweep # NoSweep /\ sweep' = NoSweep /\ UNCHANGED <<table, hash, op, failed, contents>>
  BY DEF EndSweep
<1>2. Turns' /\ SweepOK'
  BY <1>1, Still DEF TableInv, Turns
<1>3. /\ hash \in HashFunctions /\ Good(table')
      /\ failed' # "rehash" => contents' = Held(table')
  BY <1>1 DEF TableInv
<1> QED  BY <1>1, <1>2, <1>3, Kept

(* The invariant holds of a table just made.                               *)
LEMMA TableInvInit ==
  ASSUME TableInit
  PROVE  TableInv
<1>1. table = Unallocated(0) /\ hash \in HashFunctions /\ op = NoOp /\ failed = "no"
      /\ sweep = NoSweep /\ contents = {}
  BY DEF TableInit
<1>2. 0 \in 0..MaxMult
  BY ConstFacts
<1>3. Good(table) /\ Held(table) = {}
  BY <1>1, <1>2, UnallocatedGood
<1>4. Turns /\ SweepOK
  BY <1>1, NoOpFacts DEF Turns, SweepOK
<1> QED  BY <1>1, <1>3, <1>4 DEF TableInv

(* Every step keeps it.                                                    *)
LEMMA TableInvStep ==
  ASSUME TableInv, [TableNext]_tableVars
  PROVE  TableInv'
<1>1. ASSUME NEW k \in Keys, Insert(k) \/ Erase(k) PROVE TableInv'
  BY <1>1, StartInsertKeeps, EraseKeeps
<1>2. CASE Attempt
  BY <1>2, AttemptKeeps
<1>3. CASE Clear \/ MoveOut \/ Compact
  BY <1>3, ClearKeeps, MoveOutKeeps, CompactKeeps
<1>4. ASSUME NEW c \in ReserveArgs, NEW force \in BOOLEAN, Reserve(c, force) PROVE TableInv'
  BY <1>4, ReserveKeeps
<1>5. CASE StartSweep \/ Advance \/ EraseHere \/ EndSweep
  BY <1>5, StartSweepKeeps, AdvanceKeeps, EraseHereKeeps, EndSweepKeeps
<1>6. CASE UNCHANGED tableVars
  <2>1. UNCHANGED <<table, hash, op, failed, sweep, contents>>
    BY <1>6 DEF tableVars
  <2>2. End(table)' = End(table)
    BY <2>1 DEF End
  <2>3. Turns' /\ SweepOK'
    BY <2>1, <2>2 DEF TableInv, Turns, SweepOK
  <2>4. /\ hash \in HashFunctions /\ Good(table')
        /\ failed' # "rehash" => contents' = Held(table')
    BY <2>1 DEF TableInv
  <2> QED  BY <2>1, <2>3, <2>4, Kept
<1> QED  BY <1>1, <1>2, <1>3, <1>4, <1>5, <1>6 DEF TableNext

(* The table stays a good one: every byte tells the truth, whoever is away *)
(* from home stands behind somebody at least as far but one, a table that  *)
(* still takes entries has a unit to spare in every byte, and the buffer   *)
(* behind the last slot is never used up.                                  *)
THEOREM TableStaysGood ==
  TableSpec => []TableInv
<1>1. TableInit => TableInv
  BY TableInvInit
<1>2. TableInv /\ [TableNext]_tableVars => TableInv'
  BY TableInvStep
<1> QED  BY <1>1, <1>2, PTL DEF TableSpec

(* It is more than the run checks.                                         *)
LEMMA TableInvCorrect ==
  ASSUME TableInv
  PROVE  TableCorrect
<1>1. /\ hash \in HashFunctions /\ Good(table) /\ Sized(table) /\ Truthful(table) /\ NoStrayBytes(table)
      /\ RightCount(table) /\ (failed # "rehash" => contents = Held(table))
  BY DEF TableInv, Good
<1>2. ASSUME NEW i \in DOMAIN table.at
      PROVE  LET k == table.at[i] IN
             /\ i < End(table) /\ i >= Home(table, k)
             /\ table.info[i] = Expected(table, k, i - Home(table, k))
             /\ table.info[i] <= InfoTop
             /\ \A j \in DOMAIN table.at : table.at[j] = k => j = i
  <2>1. i \in 0..(End(table) + 2)
    BY <1>1, SizedFacts DEF Truthful
  <2>2. table.info[i] <= InfoTop
    BY <1>1, <2>1, SizedFacts
  <2> QED  BY <1>1, <2>2 DEF Truthful
<1>3. LayoutOK
  BY <1>1, <1>2 DEF LayoutOK, NoStrayBytes, RightCount
<1>4. ASSUME failed # "rehash", NEW k \in Keys
      PROVE  /\ FindIdx(table, k) # End(table) <=> k \in contents
             /\ FindDistances(table, k, 1) # {} <=> k \in contents
  <2>1. FindDistances(table, k, 1) # {} <=> k \in Held(table)
    BY <1>1, FindCorrect
  <2> QED  BY <1>1, <1>4, <2>1, FindIdxCorrect
<1>5. FindsExactly
  BY <1>4 DEF FindsExactly
<1> QED  BY <1>3, <1>5 DEF TableCorrect

(* Every info byte tells the truth and is never truncated, and both search *)
(* loops find exactly the keys a map would hold, after every shift, halved *)
(* unit, new multiplier and rehash.                                        *)
THEOREM TableIsAMap ==
  TableSpec => []TableCorrect
<1>1. TableInv => TableCorrect
  BY TableInvCorrect
<1> QED  BY <1>1, TableStaysGood, PTL

(* An iteration that erases as it goes passes every entry exactly once.    *)
THEOREM SweepsPassOnce ==
  TableSpec => []SweepVisitsOnce
<1>1. TableInv => SweepVisitsOnce
  BY DEF TableInv, SweepOK, SweepVisitsOnce
<1> QED  BY <1>1, TableStaysGood, PTL
=============================================================================
