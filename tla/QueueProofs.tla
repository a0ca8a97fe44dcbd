---------------------------- MODULE QueueProofs ----------------------------
(***************************************************************************)
(* Proofs about the Queue for every number of items and every table of     *)
(* strides.                                                                *)
(***************************************************************************)
EXTENDS Queue, SpanProofs

(* Scan stops at the next item that is ready, or is at the END when there  *)
(* is none, and changes no item.                                           *)
LEMMA ScanType ==
  ASSUME NEW V, NEW x \in ReelType(V), NEW ready
  PROVE  LET y == Scan(x, ready)
             from == IF x.processing THEN x.idx + 1 ELSE x.idx
         IN  /\ y \in ReelType(V)
             /\ y.slots = x.slots /\ y.max_idx = x.max_idx /\ y.nvalues = x.nvalues
             /\ y.leaves = x.leaves /\ y.dims = x.dims
             /\ y.end => /\ y.idx = x.idx /\ y.processing = x.processing
                         /\ \A i \in Occupied(x) : i >= from => x.slots[i] \notin ready
             /\ ~y.end => /\ y.processing
                          /\ y.idx \in Occupied(x) /\ y.value = x.slots[y.idx]
                          /\ y.value \in ready /\ y.idx >= from
                          /\ \A i \in Occupied(x) :
                                i >= from /\ x.slots[i] \in ready => y.idx <= i
<1> DEFINE from == IF x.processing THEN x.idx + 1 ELSE x.idx
           found == {i \in Occupied(x) : i >= from /\ x.slots[i] \in ready}
           least == CHOOSE i \in found : \A j \in found : i <= j
<1>1. CASE found = {}
  <2>1. Scan(x, ready) = [x EXCEPT !.end = TRUE] BY <1>1 DEF Scan
  <2>2. \A i \in Occupied(x) : i >= from => x.slots[i] \notin ready BY <1>1
  <2>3. /\ Scan(x, ready) \in ReelType(V) /\ Scan(x, ready).end
        /\ Scan(x, ready).idx = x.idx /\ Scan(x, ready).processing = x.processing
        /\ Scan(x, ready).slots = x.slots /\ Scan(x, ready).max_idx = x.max_idx
        /\ Scan(x, ready).nvalues = x.nvalues /\ Scan(x, ready).leaves = x.leaves
        /\ Scan(x, ready).dims = x.dims
    BY <2>1 DEF ReelType
  <2>4. QED BY <2>2, <2>3
<1>2. CASE found # {}
  <2>1. found \subseteq Nat BY CapacityBounds DEF Occupied, Indices
  <2>2. least \in found /\ \A j \in found : least <= j BY <1>2, <2>1, LeastExists
  <2>3. Scan(x, ready) = [x EXCEPT !.idx = least, !.value = x.slots[least],
                                   !.processing = TRUE, !.end = FALSE]
    BY <1>2 DEF Scan
  <2> HIDE DEF least
  <2>4. least \in Int /\ x.slots[least] \in V
    <3>1. least \in Indices BY <2>2 DEF Occupied
    <3>2. least \in Nat BY <2>1, <2>2
    <3>3. QED BY <3>1, <3>2 DEF ReelType
  <2>5. /\ Scan(x, ready) \in ReelType(V) /\ Scan(x, ready).idx = least
        /\ Scan(x, ready).value = x.slots[least]
        /\ Scan(x, ready).processing /\ ~Scan(x, ready).end
        /\ Scan(x, ready).slots = x.slots /\ Scan(x, ready).max_idx = x.max_idx
        /\ Scan(x, ready).nvalues = x.nvalues /\ Scan(x, ready).leaves = x.leaves
        /\ Scan(x, ready).dims = x.dims
    BY <2>3, <2>4 DEF ReelType
  <2>6. QED BY <2>2, <2>5
<1>3. QED BY <1>1, <1>2
-----------------------------------------------------------------------------
(* The inductive invariant.                                                *)
QInv == /\ TypeOK /\ ShelfSound /\ NoneAboveMax /\ Backed
        /\ CritMatches /\ Distinct /\ CountExact

Slot == Items \union {NULL}

(* Queue_Set stores the item and its criteria and leaves the pass where it *)
(* was.                                                                    *)
LEMMA SetEffect ==
  ASSUME TypeOK, NEW i \in Indices, NEW a \in Items, Queue_Set(i, a)
  PROVE  /\ it' \in ReelType(Slot) /\ critIt' \in ReelType(Slot)
         /\ it'.slots = [it.slots EXCEPT ![i] = a]
         /\ critIt'.slots = [critIt.slots EXCEPT ![i] = a]
         /\ it'.max_idx = IF it.max_idx > i THEN it.max_idx ELSE i
         /\ it'.nvalues = IF it.slots[i] = NULL THEN it.nvalues + 1 ELSE it.nvalues
         /\ it'.idx = it.idx /\ it'.processing = it.processing /\ it'.end = it.end
         /\ Made(it', i) /\ Made(critIt', i)
         /\ \A j \in Indices : Made(it, j) => Made(it', j)
         /\ \A j \in Indices : Made(critIt, j) => Made(critIt', j)
<1>1. it \in ReelType(Slot) /\ critIt \in ReelType(Slot) /\ a \in Slot
  BY DEF TypeOK, Slot
<1> DEFINE x == Store(it, i, a)
<1>2. /\ x \in ReelType(Slot)
      /\ x.slots = [it.slots EXCEPT ![i] = a]
      /\ x.max_idx = IF it.max_idx > i THEN it.max_idx ELSE i
      /\ x.nvalues = IF it.slots[i] = NULL THEN it.nvalues + 1 ELSE it.nvalues
      /\ x.processing = it.processing /\ x.end = it.end
      /\ Made(x, i) /\ \A j \in Indices : Made(it, j) => Made(x, j)
  BY <1>1, StoreType
<1>3. it' = Fetch(x, it.idx)
  BY DEF Queue_Set, Iter_SetByIdx, Iter_GetByIdx
<1>4. it.idx \in Int BY <1>1 DEF ReelType
<1> HIDE DEF x
<1>5. /\ it' \in ReelType(Slot) /\ it'.slots = x.slots /\ it'.max_idx = x.max_idx
      /\ it'.nvalues = x.nvalues /\ it'.idx = it.idx
      /\ it'.processing = x.processing /\ it'.end = x.end
      /\ \A j \in Indices : Made(x, j) => Made(it', j)
  BY <1>2, <1>3, <1>4, FetchType
<1>6. critIt' = Store(critIt, i, a) BY DEF Queue_Set, Iter_SetByIdx
<1>7. /\ critIt' \in ReelType(Slot)
      /\ critIt'.slots = [critIt.slots EXCEPT ![i] = a]
      /\ Made(critIt', i)
      /\ \A j \in Indices : Made(critIt, j) => Made(critIt', j)
  BY <1>1, <1>6, StoreType
<1>8. QED BY <1>2, <1>5, <1>7

(* Where Queue_Add puts an item there was none: an index from the shelf    *)
(* and the one above max_idx are both empty.                               *)
LEMMA AddPlace ==
  ASSUME QInv, NEW a \in Items, Queue_Add(a)
  PROVE  \E i \in Indices :
           /\ it.slots[i] = NULL
           /\ Queue_Set(i, a)
           /\ \/ /\ selected >= 0 /\ i = ShelfTop
                 /\ availableIt' = Fetch(availableIt, selected)
                 /\ selected' = selected - 1
              \/ /\ selected < 0 /\ i = it.max_idx + 1 /\ selected' = selected
                 /\ availableIt' = availableIt
<1>0. selected \in Int BY CapacityBounds DEF QInv, TypeOK
<1>1. CASE selected >= 0
  <2>1. ShelfTop \in Indices /\ it.slots[ShelfTop] = NULL
    BY <1>1 DEF QInv, TypeOK, ShelfSound, Shelved, ShelfTop
  <2>2. QED BY <1>1, <2>1 DEF Queue_Add, Iter_GetByIdx, QInv, TypeOK
<1>2. CASE selected < 0
  <2>1. it.max_idx + 1 \in Indices /\ it.max_idx + 1 > it.max_idx
    <3>1. it.max_idx \in -1 .. Limit - 1
      <4>1. it \in ReelType(Items \union {NULL}) BY DEF QInv, TypeOK
      <4>2. QED BY <4>1 DEF ReelType
    <3>2. it.max_idx + 1 < Limit BY <1>0, <1>2 DEF Queue_Add
    <3>3. QED BY <3>1, <3>2, CapacityBounds DEF Indices
  <2>2. it.slots[it.max_idx + 1] = NULL BY <2>1 DEF QInv, NoneAboveMax
  <2>3. QED BY <1>2, <2>1, <2>2 DEF Queue_Add, QInv, TypeOK
<1>3. QED BY <1>0, <1>1, <1>2

\* Queue_Add keeps the inductive invariant, on a shelved index or on the next one.
LEMMA AddInv ==
  ASSUME QInv, NEW a \in Items, Queue_Add(a)
  PROVE  QInv'
<1>1. PICK i \in Indices :
           /\ it.slots[i] = NULL
           /\ Queue_Set(i, a)
           /\ \/ /\ selected >= 0 /\ i = ShelfTop
                 /\ availableIt' = Fetch(availableIt, selected)
                 /\ selected' = selected - 1
              \/ /\ selected < 0 /\ selected' = selected
                 /\ availableIt' = availableIt
  BY AddPlace
<1>2. /\ it' \in ReelType(Slot) /\ critIt' \in ReelType(Slot)
      /\ it'.slots = [it.slots EXCEPT ![i] = a]
      /\ critIt'.slots = [critIt.slots EXCEPT ![i] = a]
      /\ it'.max_idx = IF it.max_idx > i THEN it.max_idx ELSE i
      /\ it'.nvalues = it.nvalues + 1
      /\ Made(it', i) /\ Made(critIt', i)
      /\ \A j \in Indices : Made(it, j) => Made(it', j)
      /\ \A j \in Indices : Made(critIt, j) => Made(critIt', j)
  BY <1>1, SetEffect DEF QInv
<1>3. /\ it \in ReelType(Slot) /\ critIt \in ReelType(Slot)
      /\ availableIt \in ReelType(Indices \union {NULL})
      /\ selected \in -1 .. Limit - 1 /\ selected \in Int
  BY CapacityBounds DEF QInv, TypeOK, Slot
<1>4. /\ it.slots \in [Indices -> Slot] /\ critIt.slots \in [Indices -> Slot]
      /\ it.max_idx \in Int /\ Indices \subseteq Int
  <2>1. it.slots \in [Indices -> Slot] /\ critIt.slots \in [Indices -> Slot]
    BY <1>3 DEF ReelType
  <2>2. Indices \subseteq Int BY CapacityBounds DEF Indices
  <2>3. it.max_idx \in Int
    <3>1. it.max_idx \in -1 .. Limit - 1 BY <1>3 DEF ReelType
    <3>2. Limit \in Nat BY CapacityBounds
    <3>3. QED BY <3>1, <3>2
  <2>4. QED BY <2>1, <2>2, <2>3
<1>5. a \in Slot /\ a # NULL BY ItemsAssumption DEF Slot
<1>6. /\ availableIt' \in ReelType(Indices \union {NULL})
      /\ availableIt'.slots = availableIt.slots
      /\ availableIt'.max_idx = availableIt.max_idx
      /\ selected' \in -1 .. Limit - 1 /\ selected' <= selected
  <2>1. CASE availableIt' = availableIt /\ selected' = selected
    BY <1>3, <2>1
  <2>2. CASE /\ availableIt' = Fetch(availableIt, selected)
             /\ selected >= 0 /\ selected' = selected - 1
    <3>1. selected' \in -1 .. Limit - 1 /\ selected' <= selected
      BY <1>3, <2>2, CapacityBounds
    <3>2. /\ Fetch(availableIt, selected) \in ReelType(Indices \union {NULL})
          /\ Fetch(availableIt, selected).slots = availableIt.slots
          /\ Fetch(availableIt, selected).max_idx = availableIt.max_idx
      <4>1. availableIt \in ReelType(Indices \union {NULL}) /\ selected \in Int BY <1>3
      <4>2. QED BY ONLY <4>1, FetchType
    <3>3. QED BY <2>2, <3>1, <3>2
  <2>3. QED BY <1>1, <2>1, <2>2
<1>7. TypeOK'
  BY <1>2, <1>6 DEF QInv, TypeOK, Slot, Queue_Add
<1>8. ShelfSound'
  <2>1. selected' <= availableIt'.max_idx
    BY <1>3, <1>6 DEF QInv, ShelfSound, ReelType
  <2>2. \A s \in Shelved' : s \in Shelved /\ availableIt.slots[s] # i
    <3>1. CASE selected >= 0 /\ i = ShelfTop /\ selected' = selected - 1
      BY <1>3, <3>1 DEF QInv, ShelfSound, Shelved, ShelfTop
    <3>2. CASE selected < 0 /\ selected' = selected
      BY <1>3, <3>2 DEF Shelved
    <3>3. QED BY <1>1, <3>1, <3>2
  <2>3. \A s \in Shelved' : /\ availableIt'.slots[s] \in Indices
                             /\ it'.slots[availableIt'.slots[s]] = NULL
    BY <1>2, <1>4, <1>6, <2>2 DEF QInv, ShelfSound
  <2>4. \A s, t \in Shelved' : s # t => availableIt'.slots[s] # availableIt'.slots[t]
    BY <1>6, <2>2 DEF QInv, ShelfSound
  <2>5. QED BY <2>1, <2>3, <2>4 DEF ShelfSound
<1>9. NoneAboveMax'
  BY <1>2, <1>4 DEF QInv, NoneAboveMax
<1>10. Occupied(it') = Occupied(it) \union {i} /\ i \notin Occupied(it)
  BY <1>1, <1>2, <1>4, <1>5 DEF Occupied
<1>11. Backed'
  <2>1. \A j \in Occupied(it) : j \in Indices BY DEF Occupied
  <2>2. QED BY <1>2, <1>10, <2>1 DEF QInv, Backed
<1>12. CritMatches'
  BY <1>2 DEF QInv, CritMatches
<1>13. Distinct'
  <2>1. \A j \in Occupied(it) : it'.slots[j] = it.slots[j] /\ it.slots[j] # a
    BY <1>2, <1>4, <1>10 DEF Queue_Add, Queued, Occupied
  <2>2. it'.slots[i] = a BY <1>2, <1>4
  <2>3. QED BY <1>10, <2>1, <2>2 DEF QInv, Distinct
<1>14. CountExact'
  BY <1>2, <1>10, FiniteOccupied, FS_AddElement DEF QInv, CountExact
<1>15. QED
  BY <1>7, <1>8, <1>9, <1>11, <1>12, <1>13, <1>14 DEF QInv

(* Queue_Remove empties the index in both Spans.                           *)
LEMMA RemoveEffect ==
  ASSUME QInv, NEW idx \in Occupied(it), Queue_Remove(idx)
  PROVE  /\ it' \in ReelType(Slot) /\ critIt' \in ReelType(Slot)
         /\ it'.slots = [it.slots EXCEPT ![idx] = NULL]
         /\ critIt'.slots = [critIt.slots EXCEPT ![idx] = NULL]
         /\ it'.max_idx = IF it.max_idx = idx THEN idx - 1 ELSE it.max_idx
         /\ it'.nvalues = it.nvalues - 1
         /\ it'.idx = idx /\ it'.processing = it.processing
         /\ \A j \in Indices : Made(it, j) => Made(it', j)
         /\ \A j \in Indices : Made(critIt, j) => Made(critIt', j)
<1>1. /\ it \in ReelType(Slot) /\ critIt \in ReelType(Slot)
      /\ NULL \in Slot /\ idx \in Indices
  BY DEF QInv, TypeOK, Slot, Occupied
<1>2. Made(it, idx) /\ Made(critIt, idx) BY DEF QInv, Backed
<1>3. it' = Iter_RemoveByIdx(it, idx) /\ critIt' = Iter_RemoveByIdx(critIt, idx)
  BY DEF Queue_Remove
<1>4. QED BY <1>1, <1>2, <1>3, RemoveType

\* Queue_Remove keeps the inductive invariant: both reels lose the same index.
LEMMA RemoveInv ==
  ASSUME QInv, NEW idx \in Occupied(it), Queue_Remove(idx)
  PROVE  QInv'
<1>1. /\ it' \in ReelType(Slot) /\ critIt' \in ReelType(Slot)
      /\ it'.slots = [it.slots EXCEPT ![idx] = NULL]
      /\ critIt'.slots = [critIt.slots EXCEPT ![idx] = NULL]
      /\ it'.max_idx = IF it.max_idx = idx THEN idx - 1 ELSE it.max_idx
      /\ it'.nvalues = it.nvalues - 1
      /\ \A j \in Indices : Made(it, j) => Made(it', j)
      /\ \A j \in Indices : Made(critIt, j) => Made(critIt', j)
  BY RemoveEffect
<1>2. /\ it \in ReelType(Slot) /\ critIt \in ReelType(Slot)
      /\ availableIt \in ReelType(Indices \union {NULL})
      /\ selected \in -1 .. Limit - 1 /\ selected \in Int
      /\ idx \in Indices /\ it.slots[idx] # NULL
  BY CapacityBounds DEF QInv, TypeOK, Slot, Occupied
<1>3. /\ it.slots \in [Indices -> Slot] /\ critIt.slots \in [Indices -> Slot]
      /\ it.max_idx \in Int /\ Indices \subseteq Int
      /\ availableIt.slots \in [Indices -> Indices \union {NULL}]
      /\ availableIt.max_idx \in Int
  <2>1. Indices \subseteq Int BY CapacityBounds DEF Indices
  <2>2. it.slots \in [Indices -> Slot] /\ it.max_idx \in Int
    BY <1>2 DEF ReelType
  <2>3. critIt.slots \in [Indices -> Slot] BY <1>2 DEF ReelType
  <2>4. /\ availableIt.slots \in [Indices -> Indices \union {NULL}]
        /\ availableIt.max_idx \in Int
    BY <1>2 DEF ReelType
  <2>5. QED BY <2>1, <2>2, <2>3, <2>4
<1>4. \A s \in Shelved : s \in Indices
  BY <1>2, CapacityBounds DEF Shelved, Indices
<1>5. \A s \in Shelved : availableIt.slots[s] # idx
  BY <1>2 DEF QInv, ShelfSound
<1>6. /\ availableIt' \in ReelType(Indices \union {NULL})
      /\ selected' \in -1 .. Limit - 1
      /\ selected' <= availableIt'.max_idx
      /\ \A s \in Shelved' : IF s \in Shelved
                              THEN availableIt'.slots[s] = availableIt.slots[s]
                              ELSE s = selected' /\ availableIt'.slots[s] = idx
  <2>1. CASE /\ Shelf_Available
             /\ availableIt' = [Iter_GetByIdx(availableIt, selected)
                                  EXCEPT !.slots[selected] = idx]
             /\ selected' = selected - 1
    <3> DEFINE x == Fetch(availableIt, selected)
    <3>1. selected >= 0 /\ selected \in Indices
      BY <1>2, <2>1, CapacityBounds DEF Shelf_Available, Indices
    <3>2. /\ x \in ReelType(Indices \union {NULL})
          /\ x.slots = availableIt.slots /\ x.max_idx = availableIt.max_idx
      BY <1>2, FetchType
    <3> HIDE DEF x
    <3>3. availableIt' = [x EXCEPT !.slots[selected] = idx]
      BY <2>1 DEF Iter_GetByIdx, x
    <3>4. [x.slots EXCEPT ![selected] = idx] \in [Indices -> Indices \union {NULL}]
      BY <1>2, <1>3, <3>2
    <3>5. /\ availableIt' \in ReelType(Indices \union {NULL})
          /\ availableIt'.slots = [x.slots EXCEPT ![selected] = idx]
          /\ availableIt'.max_idx = x.max_idx
      BY <3>2, <3>3, <3>4 DEF ReelType
    <3>6. selected' \in -1 .. Limit - 1 BY <1>2, <2>1, <3>1, CapacityBounds
    <3>7. selected' <= availableIt'.max_idx
      BY <1>2, <1>3, <2>1, <3>2, <3>5 DEF QInv, ShelfSound
    <3>8. \A s \in Shelved' : s \in Shelved /\ s # selected
      BY <1>2, <2>1 DEF Shelved
    <3>9. \A s \in Shelved' : availableIt'.slots[s] = availableIt.slots[s]
      BY <1>3, <1>4, <3>2, <3>5, <3>8
    <3>10. QED BY <3>5, <3>6, <3>7, <3>8, <3>9
  <2>2. CASE /\ selected + 1 < Limit
             /\ availableIt' = Iter_SetByIdx(availableIt, selected + 1, idx)
             /\ selected' = selected + 1
    <3>1. selected + 1 \in Indices /\ selected' \in -1 .. Limit - 1
      BY <1>2, <2>2, CapacityBounds DEF Indices
    <3>2. /\ availableIt' \in ReelType(Indices \union {NULL})
          /\ availableIt'.slots = [availableIt.slots EXCEPT ![selected + 1] = idx]
          /\ availableIt'.max_idx = IF availableIt.max_idx > selected + 1
                                    THEN availableIt.max_idx ELSE selected + 1
      <4>1. availableIt' = Store(availableIt, selected + 1, idx)
        BY <2>2 DEF Iter_SetByIdx
      <4>2. idx \in Indices \union {NULL} BY <1>2
      <4>3. availableIt \in ReelType(Indices \union {NULL}) BY <1>2
      <4>4. selected + 1 \in Indices BY <3>1
      <4>5. QED BY <4>1, <4>2, <4>3, <4>4, StoreType
    <3>3. selected' <= availableIt'.max_idx BY <1>2, <1>3, <2>2, <3>2
    <3>4. \A s \in Shelved' : s \in Shelved \/ s = selected'
      BY <1>2, <2>2 DEF Shelved
    <3>5. \A s \in Shelved : s # selected + 1 BY <1>2 DEF Shelved
    <3>6. \A s \in Shelved : availableIt'.slots[s] = availableIt.slots[s]
      BY <1>3, <1>4, <3>1, <3>2, <3>5
    <3>7. availableIt'.slots[selected'] = idx BY <1>3, <2>2, <3>1, <3>2
    <3>8. QED BY <3>1, <3>2, <3>3, <3>4, <3>6, <3>7
  <2>3. QED BY <2>1, <2>2 DEF Queue_Remove
<1>7. TypeOK'
  BY <1>1, <1>6 DEF QInv, TypeOK, Slot, Queue_Remove
<1>8. ShelfSound'
  <2>1. \A s \in Shelved' : /\ availableIt'.slots[s] \in Indices
                             /\ it'.slots[availableIt'.slots[s]] = NULL
    BY <1>1, <1>2, <1>3, <1>6 DEF QInv, ShelfSound
  <2>2. \A s, t \in Shelved' : s # t => availableIt'.slots[s] # availableIt'.slots[t]
    BY <1>5, <1>6 DEF QInv, ShelfSound
  <2>3. QED BY <1>6, <2>1, <2>2 DEF ShelfSound
<1>9. NoneAboveMax'
  BY <1>1, <1>2, <1>3 DEF QInv, NoneAboveMax
<1>10. Occupied(it') = Occupied(it) \ {idx}
  BY <1>1, <1>2, <1>3 DEF Occupied
<1>11. Backed'
  <2>1. \A j \in Occupied(it) : j \in Indices BY DEF Occupied
  <2>2. QED BY <1>1, <1>10, <2>1 DEF QInv, Backed
<1>12. CritMatches'
  BY <1>1 DEF QInv, CritMatches
<1>13. Distinct'
  <2>1. \A j \in Occupied(it') : j \in Occupied(it) /\ it'.slots[j] = it.slots[j]
    BY <1>1, <1>3, <1>10 DEF Occupied
  <2>2. QED BY <2>1 DEF QInv, Distinct
<1>14. CountExact'
  BY <1>1, <1>10, FiniteOccupied, FS_RemoveElement DEF QInv, CountExact
<1>15. QED
  BY <1>7, <1>8, <1>9, <1>11, <1>12, <1>13, <1>14 DEF QInv

(* Queue_Next only moves: to the next item that is ready, from where the   *)
(* pass stands or, after END, from the start.                              *)
LEMMA NextEffect ==
  ASSUME QInv, Queue_Next
  PROVE  \E ready, start :
           LET from == IF start.processing THEN start.idx + 1 ELSE start.idx
               before == IF start.processing THEN seen ELSE {}
           IN  /\ ready \subseteq Queued /\ AlwaysReady \intersect Queued \subseteq ready
               /\ start \in ReelType(Slot)
               /\ IF it.end THEN start.idx = 0 /\ ~start.processing
                  ELSE start = it
               /\ it' \in ReelType(Slot) /\ critIt' \in ReelType(Slot)
               /\ it'.slots = it.slots /\ it'.max_idx = it.max_idx
               /\ it'.nvalues = it.nvalues /\ critIt'.slots = critIt.slots
               /\ \A j \in Indices : Made(it, j) => Made(it', j)
               /\ \A j \in Indices : Made(critIt, j) => Made(critIt', j)
               /\ pass' = ~it'.end
               /\ seen' = IF it'.end THEN before ELSE before \union {it'.value}
               /\ it'.end => /\ it'.idx = start.idx
                             /\ it'.processing = start.processing
                             /\ \A i \in Occupied(it) : i >= from => it.slots[i] \notin ready
               /\ ~it'.end => /\ it'.processing
                              /\ it'.idx \in Occupied(it) /\ it'.value = it.slots[it'.idx]
                              /\ it'.value \in ready /\ it'.idx >= from
                              /\ \A i \in Occupied(it) :
                                    i >= from /\ it.slots[i] \in ready => it'.idx <= i
<1> DEFINE start == IF it.end THEN Iter_Init(it) ELSE it
           before == IF start.processing THEN seen ELSE {}
<1>1. PICK ready \in SUBSET Queued :
        /\ AlwaysReady \intersect Queued \subseteq ready
        /\ it' = Scan(start, ready)
        /\ critIt' = IF it'.end THEN critIt ELSE Iter_GetByIdx(critIt, it'.idx)
        /\ pass' = ~it'.end
        /\ seen' = IF it'.end THEN before ELSE before \union {it'.value}
  BY DEF Queue_Next, NextAmong
<1>2. it \in ReelType(Slot) /\ critIt \in ReelType(Slot) /\ NULL \in Slot
  BY DEF QInv, TypeOK, Slot
<1>3. /\ start \in ReelType(Slot)
      /\ start.slots = it.slots /\ start.max_idx = it.max_idx
      /\ start.nvalues = it.nvalues /\ start.leaves = it.leaves /\ start.dims = it.dims
      /\ IF it.end THEN start.idx = 0 /\ ~start.processing ELSE start = it
  <2>1. CASE it.end
    <3>1. start = Iter_Init(it) BY <2>1
    <3> HIDE DEF start
    <3>2. QED BY <1>2, <2>1, <3>1, InitType
  <2>2. CASE ~it.end BY <1>2, <2>2
  <2>3. QED BY <2>1, <2>2
<1>4. Occupied(start) = Occupied(it) BY <1>3 DEF Occupied
<1> DEFINE from == IF start.processing THEN start.idx + 1 ELSE start.idx
<1> HIDE DEF start
<1>5. /\ it' \in ReelType(Slot)
      /\ it'.slots = start.slots /\ it'.max_idx = start.max_idx
      /\ it'.nvalues = start.nvalues /\ it'.leaves = start.leaves /\ it'.dims = start.dims
      /\ it'.end => /\ it'.idx = start.idx /\ it'.processing = start.processing
                    /\ \A i \in Occupied(start) : i >= from => start.slots[i] \notin ready
      /\ ~it'.end => /\ it'.processing
                     /\ it'.idx \in Occupied(start) /\ it'.value = start.slots[it'.idx]
                     /\ it'.value \in ready /\ it'.idx >= from
                     /\ \A i \in Occupied(start) :
                           i >= from /\ start.slots[i] \in ready => it'.idx <= i
  BY <1>1, <1>3, ScanType
<1>6. \A j \in Indices : Made(it, j) => Made(it', j)
  BY <1>3, <1>5 DEF Made
<1>7. /\ critIt' \in ReelType(Slot) /\ critIt'.slots = critIt.slots
      /\ \A j \in Indices : Made(critIt, j) => Made(critIt', j)
  <2>1. CASE it'.end BY <1>1, <1>2, <2>1
  <2>2. CASE ~it'.end
    <3>1. it'.idx \in Int BY <1>5 DEF ReelType
    <3>2. critIt' = Fetch(critIt, it'.idx) BY <1>1, <2>2 DEF Iter_GetByIdx
    <3>3. QED BY <1>2, <3>1, <3>2, FetchType
  <2>3. QED BY <2>1, <2>2
<1>8. QED
  <2>1. WITNESS ready, start
  <2>2. QED BY <1>1, <1>3, <1>4, <1>5, <1>6, <1>7

\* Queue_Next keeps the inductive invariant: it moves the position, not the slots.
LEMMA NextInv ==
  ASSUME QInv, Queue_Next
  PROVE  QInv'
<1>1. /\ it' \in ReelType(Slot) /\ critIt' \in ReelType(Slot)
      /\ it'.slots = it.slots /\ it'.max_idx = it.max_idx
      /\ it'.nvalues = it.nvalues /\ critIt'.slots = critIt.slots
      /\ \A j \in Indices : Made(it, j) => Made(it', j)
      /\ \A j \in Indices : Made(critIt, j) => Made(critIt', j)
      /\ pass' \in BOOLEAN
      /\ seen' \subseteq seen \union Queued
  BY NextEffect DEF ReelType, Queued
<1>2. Occupied(it') = Occupied(it) BY <1>1 DEF Occupied
<1>3. Queued \subseteq Items
  BY DEF QInv, TypeOK, ReelType, Queued, Occupied
<1>4. UNCHANGED <<availableIt, selected>> BY DEF Queue_Next, NextAmong
<1>5. TypeOK' BY <1>1, <1>3, <1>4 DEF QInv, TypeOK, Slot
<1>6. ShelfSound' BY <1>1, <1>4 DEF QInv, ShelfSound, Shelved
<1>7. NoneAboveMax' /\ CritMatches' /\ CountExact' /\ Distinct'
  BY <1>1, <1>2 DEF QInv, NoneAboveMax, CritMatches, CountExact, Distinct
<1>8. Backed'
  <2>1. \A j \in Occupied(it) : j \in Indices BY DEF Occupied
  <2>2. QED BY <1>1, <1>2, <2>1 DEF QInv, Backed
<1>9. QED BY <1>5, <1>6, <1>7, <1>8 DEF QInv

\* A queue just made satisfies the inductive invariant and the split of the pass.
LEMMA InitInv == Init => QInv /\ PassSplit
<1> SUFFICES ASSUME Init PROVE QInv /\ PassSplit
  OBVIOUS
<1> DEFINE none == [i \in Indices |-> NULL]
<1>1. /\ Limit \in Nat /\ Limit > 0 /\ 0 \in 0 .. MAX_DIMS
      /\ none \in [Indices -> Items \union {NULL}]
      /\ none \in [Indices -> Indices \union {NULL}]
  BY TablesAssumption, CapacityBounds DEF Limit
<1>2. Span_Make \in ReelType(Items \union {NULL})
  BY <1>1 DEF ReelType, Span_Make
<1>3. Span_Make \in ReelType(Indices \union {NULL})
  BY <1>1 DEF ReelType, Span_Make
<1>4. Occupied(Span_Make) = {} BY DEF Occupied, Span_Make
<1>5. TypeOK
  <2>1. -1 \in -1 .. Limit - 1 BY <1>1
  <2>2. QED BY <1>2, <1>3, <2>1 DEF Init, TypeOK
<1>6. ShelfSound BY DEF Init, ShelfSound, Shelved, Span_Make
<1>7. NoneAboveMax /\ Backed /\ CritMatches /\ Distinct
  BY <1>4 DEF Init, NoneAboveMax, Backed, CritMatches, Distinct, Span_Make
<1>8. CountExact BY <1>4, FS_EmptySet DEF Init, CountExact, Span_Make
<1>9. PassSplit BY DEF Init, PassSplit, Underway, Span_Make
<1>10. QED BY <1>5, <1>6, <1>7, <1>8, <1>9 DEF QInv

\* Every step of the queue, or a stutter, keeps the inductive invariant.
LEMMA StepInv == QInv /\ [Next]_vars => QInv'
<1> SUFFICES ASSUME QInv, [Next]_vars PROVE QInv'
  OBVIOUS
<1>1. ASSUME NEW a \in Items, Queue_Add(a) PROVE QInv'
  BY <1>1, AddInv
<1>2. ASSUME NEW idx \in Occupied(it), Queue_Remove(idx) PROVE QInv'
  BY <1>2, RemoveInv
<1>3. CASE Queue_Next BY <1>3, NextInv
<1>4. CASE UNCHANGED vars
  BY <1>4 DEF vars, QInv, TypeOK, ShelfSound, Shelved, NoneAboveMax, Backed,
              CritMatches, Distinct, CountExact, Occupied, Made
<1>5. QED BY <1>1, <1>2, <1>3, <1>4 DEF Next

-----------------------------------------------------------------------------
(* Where a pass stands.  Adding happens between passes, removing at the    *)
(* item the pass stands on.                                                *)
LEMMA AddSplit ==
  ASSUME QInv, PassSplit, NEW a \in Items, Queue_Add(a)
  PROVE  PassSplit'
<1>1. PICK i \in Indices : Queue_Set(i, a) BY AddPlace
<1>2. it'.idx = it.idx /\ it'.processing = it.processing /\ it'.end = it.end
  BY <1>1, SetEffect DEF QInv
<1>3. ~pass /\ pass' = pass BY DEF Queue_Add
<1>4. QED BY <1>2, <1>3 DEF PassSplit, Underway

\* A removal keeps the pass split into indices already visited and still ahead.
LEMMA RemoveSplit ==
  ASSUME QInv, PassSplit, NEW idx \in Occupied(it), Removable(idx), Queue_Remove(idx)
  PROVE  PassSplit'
<1> SUFFICES ASSUME ~RemoveBetween PROVE PassSplit'
  BY DEF PassSplit
<1>1. pass /\ it.idx = idx /\ ~it.end BY DEF Removable
<1>2. /\ it'.slots = [it.slots EXCEPT ![idx] = NULL]
      /\ it'.idx = idx /\ it'.processing = it.processing
  BY RemoveEffect
<1>3. pass' = pass /\ seen' = seen BY DEF Queue_Remove
<1>4. it.slots \in [Indices -> Slot] BY DEF QInv, TypeOK, ReelType, Slot
<1>5. \A i \in Occupied(it') : i \in Occupied(it) /\ it'.slots[i] = it.slots[i]
  BY <1>2, <1>4 DEF Occupied
<1>6. Underway BY <1>1 DEF PassSplit, Underway
<1>7. QED BY <1>1, <1>2, <1>3, <1>5, <1>6 DEF PassSplit, Underway

\* Queue_Next keeps the split; when the pass ends, every item ready throughout it
\* has been visited.
LEMMA NextSplit ==
  ASSUME QInv, PassSplit, Queue_Next, ~RemoveBetween
  PROVE  /\ PassSplit'
         /\ ~pass' => AlwaysReady \intersect Queued \subseteq seen'
<1>1. PICK ready, start :
        LET from == IF start.processing THEN start.idx + 1 ELSE start.idx
            before == IF start.processing THEN seen ELSE {}
        IN  /\ AlwaysReady \intersect Queued \subseteq ready
            /\ start \in ReelType(Slot)
            /\ IF it.end THEN start.idx = 0 /\ ~start.processing ELSE start = it
            /\ it' \in ReelType(Slot) /\ it'.slots = it.slots
            /\ pass' = ~it'.end
            /\ seen' = IF it'.end THEN before ELSE before \union {it'.value}
            /\ it'.end => /\ it'.idx = start.idx
                          /\ it'.processing = start.processing
                          /\ \A i \in Occupied(it) : i >= from => it.slots[i] \notin ready
            /\ ~it'.end => /\ it'.processing
                           /\ it'.idx \in Occupied(it) /\ it'.value = it.slots[it'.idx]
                           /\ it'.value \in ready /\ it'.idx >= from
                           /\ \A i \in Occupied(it) :
                                 i >= from /\ it.slots[i] \in ready => it'.idx <= i
  BY NextEffect
<1> DEFINE from == IF start.processing THEN start.idx + 1 ELSE start.idx
           before == IF start.processing THEN seen ELSE {}
<1>2. /\ start.processing \in BOOLEAN /\ it'.end \in BOOLEAN /\ start.idx \in Int
      /\ from \in Int /\ Occupied(it) \subseteq Int /\ \A i \in Occupied(it) : i >= 0
      /\ it.end \in BOOLEAN
  <2>1. it \in ReelType(Items \union {NULL}) BY DEF QInv, TypeOK
  <2>2. it' \in ReelType(Items \union {NULL}) /\ start \in ReelType(Items \union {NULL})
    BY <1>1 DEF Slot
  <2>3. /\ start.processing \in BOOLEAN /\ it'.end \in BOOLEAN /\ start.idx \in Int
        /\ it.end \in BOOLEAN
    BY <2>1, <2>2 DEF ReelType
  <2>4. Occupied(it) \subseteq Int /\ \A i \in Occupied(it) : i >= 0
    BY CapacityBounds DEF Occupied, Indices
  <2>5. from \in Int BY <2>3
  <2>6. QED BY <2>3, <2>4, <2>5
<1>3. start.processing => start = it /\ Underway
  BY <1>1, <1>2 DEF Underway
<1>4. ~start.processing => start.idx = 0
  BY <1>1, <1>2 DEF PassSplit
<1>5. \A i \in Occupied(it) : i < from /\ it.slots[i] \in AlwaysReady
                                => it.slots[i] \in before
  <2>1. CASE start.processing BY <1>2, <1>3, <2>1 DEF PassSplit
  <2>2. CASE ~start.processing BY <1>2, <1>4, <2>2
  <2>3. QED BY <1>2, <2>1, <2>2
<1>6. \A i \in Occupied(it) : i >= from => it.slots[i] \notin before
  <2>1. CASE start.processing BY <1>2, <1>3, <2>1 DEF PassSplit
  <2>2. CASE ~start.processing BY <2>2
  <2>3. QED BY <1>2, <2>1, <2>2
<1>7. Occupied(it') = Occupied(it) BY <1>1 DEF Occupied
<1>8. \A i \in Occupied(it) : it.slots[i] \in AlwaysReady => it.slots[i] \in ready
  BY <1>1 DEF Queued
<1> HIDE DEF from, before
<1>9. CASE it'.end
  <2>1. \A i \in Occupied(it) : it.slots[i] \in AlwaysReady => it.slots[i] \in seen'
    BY <1>1, <1>2, <1>5, <1>8, <1>9 DEF from, before
  <2>2. AlwaysReady \intersect Queued \subseteq seen' BY <2>1 DEF Queued
  <2>3. ~pass' BY <1>1, <1>9
  <2>4. PassSplit' BY <1>1, <1>4, <1>9, <2>3 DEF PassSplit, Underway
  <2>5. QED BY <2>2, <2>3, <2>4
<1>10. CASE ~it'.end
  <2>1. /\ it'.processing /\ pass' /\ it'.idx \in Occupied(it) /\ it'.idx >= from
        /\ it'.value = it.slots[it'.idx] /\ it'.slots = it.slots
        /\ seen' = before \union {it'.value}
        /\ \A i \in Occupied(it) : i >= from /\ it.slots[i] \in ready => it'.idx <= i
    BY <1>1, <1>10 DEF from, before
  <2>2. it'.idx \in Int BY <1>2, <2>1
  <2>3. ASSUME NEW i \in Occupied(it), i > it'.idx
        PROVE  it.slots[i] \notin seen'
    <3>1. i >= from /\ i # it'.idx BY <1>2, <2>1, <2>2, <2>3
    <3>2. it.slots[i] # it'.value BY <2>1, <3>1 DEF QInv, Distinct
    <3>3. QED BY <1>6, <2>1, <3>1, <3>2
  <2>4. ASSUME NEW i \in Occupied(it), ~(i > it'.idx), it.slots[i] \in AlwaysReady
        PROVE  it.slots[i] \in seen'
    <3>1. CASE i < from BY <1>5, <2>1, <2>4, <3>1
    <3>2. CASE i >= from
      <4>1. i = it'.idx BY <1>2, <1>8, <2>1, <2>2, <2>4, <3>2
      <4>2. QED BY <2>1, <4>1
    <3>3. QED BY <1>2, <3>1, <3>2
  <2>5. PassSplit' BY <1>7, <2>1, <2>3, <2>4 DEF PassSplit, Underway
  <2>6. QED BY <2>1, <2>5
<1>11. QED BY <1>9, <1>10
-----------------------------------------------------------------------------
(* The inductive invariant of the queue, which the theorems below read     *)
(* off: it holds in every state that Queue_Add, Queue_Remove and           *)
(* Queue_Next reach.                                                       *)
THEOREM QueueInvariant == Spec => []QInv
<1>1. Init => QInv BY InitInv
<1>2. QInv /\ [Next]_vars => QInv' BY StepInv
<1>3. QED BY <1>1, <1>2, PTL DEF Spec

(* Every variable of the queue keeps its type.                             *)
THEOREM QueueTypeOK == Spec => []TypeOK
<1>1. QInv => TypeOK BY DEF QInv
<1>2. QED BY <1>1, QueueInvariant, PTL

(* The shelf only holds indices whose item is gone, each once: Queue_Add   *)
(* never gives out an index that is in use, nor one index twice.           *)
THEOREM QueueShelfSound == Spec => []ShelfSound
<1>1. QInv => ShelfSound BY DEF QInv
<1>2. QED BY <1>1, QueueInvariant, PTL

(* The criteria at an index are always those of the item there.            *)
THEOREM QueueCritMatches == Spec => []CritMatches
<1>1. QInv => CritMatches BY DEF QInv
<1>2. QED BY <1>1, QueueInvariant, PTL

(* nvalues counts the items.                                               *)
THEOREM QueueCountExact == Spec => []CountExact
<1>1. QInv => CountExact BY DEF QInv
<1>2. QED BY <1>1, QueueInvariant, PTL

(* An item stays at its index until it is removed, whatever is added and   *)
(* removed around it.                                                      *)
THEOREM QueueNeverOverwrites == Spec => NeverOverwrites
<1> DEFINE Keeps == \A i \in Indices : it.slots[i] # NULL => it'.slots[i] \in {it.slots[i], NULL}
<1>1. QInv /\ [Next]_vars => [Keeps]_vars
  <2> SUFFICES ASSUME QInv, [Next]_vars PROVE Keeps \/ UNCHANGED vars
    OBVIOUS
  <2>1. it.slots \in [Indices -> Slot] BY DEF QInv, TypeOK, ReelType, Slot
  <2>2. ASSUME NEW a \in Items, Queue_Add(a) PROVE Keeps
    <3>1. PICK i \in Indices : it.slots[i] = NULL /\ Queue_Set(i, a)
      BY <2>2, AddPlace
    <3>2. it'.slots = [it.slots EXCEPT ![i] = a] BY <3>1, SetEffect DEF QInv
    <3>3. QED BY <2>1, <3>1, <3>2
  <2>3. ASSUME NEW idx \in Occupied(it), Queue_Remove(idx) PROVE Keeps
    <3>1. it'.slots = [it.slots EXCEPT ![idx] = NULL] BY <2>3, RemoveEffect
    <3>2. QED BY <2>1, <3>1 DEF Occupied
  <2>4. CASE Queue_Next
    <3>1. it'.slots = it.slots BY <2>4, NextEffect
    <3>2. QED BY <3>1
  <2>5. QED BY <2>2, <2>3, <2>4 DEF Next
<1>2. QED BY <1>1, QueueInvariant, PTL DEF Spec, NeverOverwrites

\* Every step of the queue, or a stutter, keeps the split of the pass.
LEMMA StepSplit == QInv /\ PassSplit /\ [Next]_vars => PassSplit'
<1> SUFFICES ASSUME QInv, PassSplit, [Next]_vars PROVE PassSplit'
  OBVIOUS
<1>1. CASE RemoveBetween BY <1>1 DEF PassSplit
<1>2. CASE ~RemoveBetween
  <2>1. ASSUME NEW a \in Items, Queue_Add(a) PROVE PassSplit'
    BY <2>1, AddSplit
  <2>2. ASSUME NEW idx \in Occupied(it), Removable(idx), Queue_Remove(idx)
        PROVE PassSplit'
    BY <2>2, RemoveSplit
  <2>3. CASE Queue_Next BY <1>2, <2>3, NextSplit
  <2>4. CASE UNCHANGED vars
    BY <2>4 DEF vars, PassSplit, Underway, Occupied
  <2>5. QED BY <2>1, <2>2, <2>3, <2>4 DEF Next
<1>3. QED BY <1>1, <1>2, ItemsAssumption

(* For a client that removes nothing but the item it stands on, a pass     *)
(* that reaches END has returned every item that was ready.                *)
THEOREM QueuePassComplete == ASSUME ~RemoveBetween PROVE Spec => PassComplete
<1> DEFINE Complete == Queue_Next /\ ~pass' => AlwaysReady \intersect Queued \subseteq seen'
<1>1. Init => PassSplit BY InitInv
<1>2. QInv /\ PassSplit /\ [Next]_vars => PassSplit' BY StepSplit
<1>3. QInv /\ PassSplit /\ [Next]_vars => [Complete]_vars BY NextSplit
<1>4. QED BY <1>1, <1>2, <1>3, QueueInvariant, PTL DEF Spec, PassComplete

(* ... and has returned none of them twice.                                *)
THEOREM QueuePassOnce == ASSUME ~RemoveBetween PROVE Spec => []PassOnce
<1>1. Init => PassSplit BY InitInv
<1>2. QInv /\ PassSplit /\ [Next]_vars => PassSplit' BY StepSplit
<1>3. QInv /\ PassSplit => PassOnce
  <2> SUFFICES ASSUME QInv, PassSplit, Underway, NEW ready \in SUBSET Queued,
                      ~Scan(it, ready).end
               PROVE  Scan(it, ready).value \notin seen
    BY DEF PassOnce
  <2> DEFINE y == Scan(it, ready)
  <2>1. it \in ReelType(Slot) BY DEF QInv, TypeOK, Slot
  <2>2. /\ y.idx \in Occupied(it) /\ y.value = it.slots[y.idx]
        /\ y.idx >= it.idx + 1
    BY <2>1, ScanType DEF Underway
  <2>3. y.idx \in Int /\ it.idx \in Int
    BY <2>1, <2>2, CapacityBounds DEF ReelType, Occupied, Indices
  <2>4. y.idx > it.idx BY <2>2, <2>3
  <2>5. QED BY <2>2, <2>4 DEF PassSplit
<1>4. QED BY <1>1, <1>2, <1>3, QueueInvariant, PTL DEF Spec
-----------------------------------------------------------------------------
(* What the loop relies on beside the invariant: the Iter stands at an     *)
(* index, and the tree is deep enough for max_idx.                         *)
Standing == it.idx \in Indices /\ it.max_idx < Capacity(it.dims)

\* Storing leaves max_idx within the tree.
LEMMA StoreFits ==
  ASSUME NEW V, NEW x \in ReelType(V), NEW i \in Indices, NEW v \in V,
         x.max_idx < Capacity(x.dims)
  PROVE  Store(x, i, v).max_idx < Capacity(Store(x, i, v).dims)
<1> DEFINE d == DimsNeeded(i)
           e == Higher(x.dims, d)
<1>1. d \in 0 .. MAX_DIMS /\ i < Capacity(d) BY DimsFit
<1>2. Store(x, i, v).max_idx = Higher(x.max_idx, i) /\ Store(x, i, v).dims = e
  BY DEF Store, ReelType
<1>3. x.dims \in 0 .. MAX_DIMS /\ x.max_idx \in Int /\ i \in Int
  BY CapacityBounds DEF ReelType, Indices
<1>4. e \in 0 .. MAX_DIMS /\ x.dims <= e /\ d <= e
  BY <1>1, <1>3, TablesAssumption DEF Higher
<1>5. Capacity(x.dims) <= Capacity(e) /\ Capacity(d) <= Capacity(e)
  BY <1>1, <1>3, <1>4, TablesAssumption
<1>6. Capacity(x.dims) \in Nat /\ Capacity(e) \in Nat /\ Capacity(d) \in Nat
  BY <1>1, <1>3, <1>4, CapacityBounds
<1> HIDE DEF d, e
<1>7. Higher(x.max_idx, i) < Capacity(e)
  BY <1>1, <1>3, <1>5, <1>6 DEF Higher
<1>8. QED BY <1>2, <1>7

\* An addition leaves the Iter where it stood.
LEMMA AddStands ==
  ASSUME QInv, Standing, NEW a \in Items, Queue_Add(a)
  PROVE  Standing'
<1>1. PICK i \in Indices : Queue_Set(i, a) BY AddPlace
<1>2. it \in ReelType(Slot) /\ a \in Slot BY DEF QInv, TypeOK, Slot
<1> DEFINE x == Store(it, i, a)
<1>3. x \in ReelType(Slot) BY <1>2, StoreType
<1>4. x.max_idx < Capacity(x.dims) BY <1>2, StoreFits DEF Standing
<1>5. it' = Fetch(x, it.idx) BY <1>1 DEF Queue_Set, Iter_SetByIdx, Iter_GetByIdx
<1> HIDE DEF x
<1>6. it'.max_idx = x.max_idx /\ it'.dims = x.dims /\ it'.idx = it.idx
  BY <1>3, <1>5 DEF Fetch, ReelType
<1>7. QED BY <1>4, <1>6 DEF Standing

\* A removal leaves it at the index that was emptied.
LEMMA RemoveStands ==
  ASSUME QInv, Standing, NEW idx \in Occupied(it), Queue_Remove(idx)
  PROVE  Standing'
<1>1. /\ it'.max_idx = IF it.max_idx = idx THEN idx - 1 ELSE it.max_idx
      /\ it'.idx = idx
  BY RemoveEffect
<1>2. it \in ReelType(Slot) /\ idx \in Indices BY DEF QInv, TypeOK, Slot, Occupied
<1>3. it' = Iter_RemoveByIdx(it, idx) BY DEF Queue_Remove
<1>4. it'.dims = it.dims
  <2> DEFINE w == [it EXCEPT !.idx = idx]
             y == Iter_Remove(w)
  <2>1. w.dims = it.dims /\ DOMAIN w = DOMAIN it BY <1>2 DEF ReelType
  <2>2. it' = [y EXCEPT !.end = idx >= y.max_idx] BY <1>3 DEF Iter_RemoveByIdx
  <2> HIDE DEF w
  <2>3. y.dims = w.dims BY <1>2, <2>1 DEF Iter_Remove, ReelType
  <2> HIDE DEF y
  <2>4. it'.dims = y.dims BY <2>2
  <2>5. QED BY <2>1, <2>3, <2>4
<1>5. it.max_idx \in Int /\ idx \in Int /\ Capacity(it.dims) \in Nat
  BY <1>2, CapacityBounds DEF ReelType, Indices
<1>6. QED BY <1>1, <1>2, <1>4, <1>5 DEF Standing

\* The pass stands on items.
LEMMA NextStands ==
  ASSUME QInv, Standing, Queue_Next
  PROVE  Standing'
<1> DEFINE start == IF it.end THEN Iter_Init(it) ELSE it
<1>1. PICK ready : it' = Scan(start, ready) BY DEF Queue_Next, NextAmong
<1>2. it \in ReelType(Slot) /\ NULL \in Slot BY DEF QInv, TypeOK, Slot
<1>3. 0 \in Indices BY CapacityBounds DEF Indices, Standing
<1>4. /\ start \in ReelType(Slot) /\ start.idx \in Indices
      /\ start.max_idx = it.max_idx /\ start.dims = it.dims
  <2>1. CASE it.end
    <3>1. start = Iter_Init(it) BY <2>1
    <3> HIDE DEF start
    <3>2. QED BY <1>2, <1>3, <3>1, InitType
  <2>2. CASE ~it.end BY <1>2, <2>2 DEF Standing
  <2>3. QED BY <2>1, <2>2
<1> HIDE DEF start
<1>5. /\ it'.max_idx = start.max_idx /\ it'.dims = start.dims
      /\ it'.end => it'.idx = start.idx
      /\ ~it'.end => it'.idx \in Occupied(start)
      /\ it'.end \in BOOLEAN
  <2>1. /\ Scan(start, ready) \in ReelType(Slot)
        /\ Scan(start, ready).max_idx = start.max_idx
        /\ Scan(start, ready).dims = start.dims
        /\ Scan(start, ready).end => Scan(start, ready).idx = start.idx
        /\ ~Scan(start, ready).end => Scan(start, ready).idx \in Occupied(start)
    BY <1>4, ScanType
  <2>2. QED BY <1>1, <2>1 DEF ReelType
<1>6. it'.idx \in Indices BY <1>4, <1>5 DEF Occupied
<1>7. QED BY <1>4, <1>5, <1>6 DEF Standing

\* A queue just made stands at its first index.
LEMMA InitStands == Init => Standing
<1>1. 0 \in 0 .. MAX_DIMS BY TablesAssumption
<1>2. Capacity(0) \in Nat BY <1>1, CapacityBounds
<1>3. Limit \in Nat /\ Limit > 0 BY <1>1, CapacityBounds, TablesAssumption DEF Limit
<1>4. 0 \in Indices BY <1>3 DEF Indices
<1>5. Span_Make.idx = 0 /\ Span_Make.max_idx = -1 /\ Span_Make.dims = 0 BY DEF Span_Make
<1>6. QED BY <1>2, <1>4, <1>5 DEF Init, Standing

\* Every step keeps the Iter at an index and max_idx within the tree.
LEMMA StepStands == QInv /\ Standing /\ [Next]_vars => Standing'
<1> SUFFICES ASSUME QInv, Standing, [Next]_vars PROVE Standing'
  OBVIOUS
<1>1. ASSUME NEW a \in Items, Queue_Add(a) PROVE Standing' BY <1>1, AddStands
<1>2. ASSUME NEW idx \in Occupied(it), Queue_Remove(idx) PROVE Standing'
  BY <1>2, RemoveStands
<1>3. CASE Queue_Next BY <1>3, NextStands
<1>4. CASE UNCHANGED vars BY <1>4 DEF vars, Standing
<1>5. QED BY <1>1, <1>2, <1>3, <1>4 DEF Next
-----------------------------------------------------------------------------
(* One Span at two positions.                                              *)
Twin(x, y) ==
  /\ y.slots = x.slots /\ y.leaves = x.leaves /\ y.nvalues = x.nvalues
  /\ y.max_idx = x.max_idx /\ y.dims = x.dims

Placed(x, i, v) == [x EXCEPT !.idx = i, !.value = v]

\* Moving the Iter to an index with its value changes nothing else.
LEMMA PlacedAt ==
  ASSUME NEW V, NEW x \in ReelType(V), NEW i \in Int, NEW v \in V
  PROVE  /\ Placed(x, i, v) \in ReelType(V) /\ Twin(x, Placed(x, i, v))
         /\ Placed(x, i, v).processing = x.processing
         /\ Placed(x, i, v).idx = i /\ Placed(x, i, v).value = v
<1> DEFINE w == [x EXCEPT !.idx = i]
           y == [w EXCEPT !.value = v]
<1>1. Placed(x, i, v) = y BY DEF Placed
<1>2. /\ w \in ReelType(V) /\ w.idx = i /\ w.processing = x.processing
      /\ w.slots = x.slots /\ w.leaves = x.leaves /\ w.nvalues = x.nvalues
      /\ w.max_idx = x.max_idx /\ w.dims = x.dims
  BY DEF ReelType
<1> HIDE DEF w
<1>3. /\ y \in ReelType(V) /\ y.idx = i /\ y.value = v
      /\ y.processing = w.processing
      /\ y.slots = w.slots /\ y.leaves = w.leaves /\ y.nvalues = w.nvalues
      /\ y.max_idx = w.max_idx /\ y.dims = w.dims
  BY <1>2 DEF ReelType
<1> HIDE DEF y
<1>4. QED BY <1>1, <1>2, <1>3 DEF Twin

\* StepUp goes to the next index of a single slab, to the next item of a deeper tree,
\* or past max_idx.
LEMMA StepUpIs ==
  ASSUME NEW V, NULL \in V, NEW x \in ReelType(V), x.idx \in Nat,
         x.max_idx < Capacity(x.dims)
  PROVE  LET y == StepUp(x)
         IN  /\ y \in ReelType(V) /\ Twin(x, y)
             /\ y.processing = x.processing /\ y.idx \in Nat
             /\ y.idx <= y.max_idx => /\ y.idx \in Indices /\ y.idx > x.idx
                                      /\ y.value = x.slots[y.idx]
             /\ \A i \in Occupied(x) : i > x.idx => y.idx <= i
             /\ x.idx <= x.max_idx => y.idx > x.idx
<1> DEFINE y == StepUp(x)
<1>0. x \in ReelType(V) /\ NULL \in V OBVIOUS
<1>1. /\ x.max_idx \in -1 .. Limit - 1 /\ Limit \in Nat /\ x.max_idx \in Int
      /\ x.slots \in [Indices -> V] /\ x.dims \in 0 .. MAX_DIMS
  BY CapacityBounds DEF ReelType
<1>2. Indices \subseteq Nat BY <1>1 DEF Indices
<1>3. CASE x.dims = 0
  <2> DEFINE i == x.idx + 1
             j == IF i < STRIDE THEN i ELSE STRIDE - 1
  <2>1. 0 \in 0 .. MAX_DIMS BY TablesAssumption
  <2>2. Capacity(0) = STRIDE /\ STRIDE \in Nat /\ STRIDE > 1 /\ STRIDE <= Limit
    BY <2>1, CapacityBounds, TablesAssumption DEF Capacity, STRIDE
  <2>3. i \in Nat /\ i > x.idx OBVIOUS
  <2>4. j \in Indices BY <1>1, <2>2, <2>3 DEF Indices
  <2>5. x.slots[j] \in V BY <1>1, <2>4
  <2>6. i <= x.max_idx => i \in Indices /\ j = i
    BY <1>1, <1>3, <2>2, <2>3 DEF Indices
  <2>7. y = Placed(x, i, x.slots[j]) BY <1>3 DEF StepUp, Placed
  <2> HIDE DEF i, j, y
  <2>8. /\ y \in ReelType(V) /\ Twin(x, y) /\ y.processing = x.processing
        /\ y.idx = i /\ y.value = x.slots[j]
    <3>1. i \in Int BY <2>3
    <3>2. QED BY ONLY <1>0, <2>5, <2>7, <3>1, PlacedAt
  <2>9. \A k \in Occupied(x) : k > x.idx => i <= k
    BY <1>2 DEF Occupied, i
  <2>10. y.max_idx = x.max_idx BY <2>8 DEF Twin
  <2>11. QED BY <2>3, <2>6, <2>8, <2>9, <2>10 DEF y
<1>4. CASE x.dims # 0
  <2> DEFINE above == {i \in Occupied(x) : i > x.idx}
             least == CHOOSE i \in above : \A j \in above : i <= j
  <2>1. CASE above = {}
    <3>1. y = Placed(x, x.max_idx + 1, NULL) BY <1>4, <2>1 DEF StepUp, Placed
    <3> HIDE DEF y
    <3>2. /\ y \in ReelType(V) /\ Twin(x, y) /\ y.processing = x.processing
          /\ y.idx = x.max_idx + 1
      <4>1. x.max_idx + 1 \in Int BY <1>1
      <4>2. QED BY ONLY <1>0, <3>1, <4>1, PlacedAt
    <3>3. y.max_idx = x.max_idx BY <3>2 DEF Twin
    <3>4. y.idx \in Nat /\ ~(y.idx <= y.max_idx) /\ (x.idx <= x.max_idx => y.idx > x.idx)
      BY <1>1, <3>2, <3>3
    <3>5. QED BY <2>1, <3>2, <3>4 DEF y
  <2>2. CASE above # {}
    <3>1. above \subseteq Nat BY <1>2 DEF Occupied
    <3>2. least \in above /\ \A j \in above : least <= j BY <2>2, <3>1, LeastExists
    <3>3. y = Placed(x, least, x.slots[least])
      BY <1>4, <2>2 DEF StepUp, Placed
    <3> HIDE DEF least, y
    <3>4. least \in Indices /\ least \in Nat /\ least > x.idx BY <3>1, <3>2 DEF Occupied
    <3>5. x.slots[least] \in V BY <1>1, <3>4
    <3>6. /\ y \in ReelType(V) /\ Twin(x, y) /\ y.processing = x.processing
          /\ y.idx = least /\ y.value = x.slots[least]
      <4>1. least \in Int BY <3>4
      <4>2. QED BY ONLY <1>0, <3>3, <3>5, <4>1, PlacedAt
    <3>7. \A k \in Occupied(x) : k > x.idx => least <= k BY <3>2
    <3>8. QED BY <3>4, <3>6, <3>7 DEF y
  <2>3. QED BY <2>1, <2>2
<1>5. QED BY <1>3, <1>4
-----------------------------------------------------------------------------
(* The index a pass over x goes on from.                                   *)
From(x) == IF x.processing THEN x.idx + 1 ELSE x.idx

Stopped(y, ready) == ~y.end /\ y.value # NULL /\ y.value \in ready

(* Where the loop over x is after n turns: at no item it may stop at has   *)
(* it gone past, and every turn that does not stop gets on.                *)
Passed(x, ready, y, n) ==
  /\ y \in ReelType(Slot) /\ Twin(x, y) /\ y.processing
  /\ y.idx \in Nat /\ (y.end <=> y.idx > y.max_idx)
  /\ ~y.end => y.idx \in Indices /\ y.idx >= From(x) /\ y.value = x.slots[y.idx]
  /\ \A i \in Occupied(x) : i >= From(x) /\ x.slots[i] \in ready => y.idx <= i
  /\ y.end \/ Stopped(y, ready) \/ y.idx >= n

(* A Span the loop can start on.                                           *)
Startable(x) ==
  /\ x \in ReelType(Slot) /\ x.idx \in Indices /\ ~x.end
  /\ x.max_idx < Capacity(x.dims) /\ x.nvalues # 0
  /\ \A i \in Indices : i > x.max_idx => x.slots[i] = NULL
  /\ \A i \in Occupied(x) : Made(x, i)

\* Setting END says nothing else.
LEMMA Ended ==
  ASSUME NEW y \in ReelType(Slot), NEW b \in BOOLEAN
  PROVE  LET z == [y EXCEPT !.end = b]
         IN  /\ z \in ReelType(Slot) /\ Twin(y, z) /\ z.processing = y.processing
             /\ z.idx = y.idx /\ z.value = y.value /\ z.end = b
BY DEF ReelType, Twin

\* The first Iter_Next of a Queue_Next that goes on from an item.
LEMMA GoesOn ==
  ASSUME NEW x, Startable(x), x.processing, NEW ready
  PROVE  Passed(x, ready, Iter_Next(x), 0)
<1> DEFINE y == StepUp(x)
           b == y.idx > y.max_idx
           z == [y EXCEPT !.end = b]
<1>1. x \in ReelType(Slot) /\ NULL \in Slot /\ x.idx \in Nat /\ x.max_idx < Capacity(x.dims)
  BY CapacityBounds DEF Startable, Slot, Indices
<1>2. /\ y \in ReelType(Slot) /\ Twin(x, y)
      /\ y.processing = x.processing /\ y.idx \in Nat
      /\ y.idx <= y.max_idx => /\ y.idx \in Indices /\ y.idx > x.idx
                               /\ y.value = x.slots[y.idx]
      /\ \A i \in Occupied(x) : i > x.idx => y.idx <= i
  BY <1>1, StepUpIs
<1>3. Iter_Next(x) = z BY DEF Iter_Next, Startable
<1> HIDE DEF y
<1>4. b \in BOOLEAN OBVIOUS
<1>5. y.max_idx \in Int BY <1>2, CapacityBounds DEF ReelType
<1> HIDE DEF b
<1>6. /\ z \in ReelType(Slot) /\ Twin(y, z) /\ z.processing = y.processing
      /\ z.idx = y.idx /\ z.value = y.value /\ z.end = b
  BY <1>2, <1>4, Ended
<1> HIDE DEF z
<1>7. Twin(x, z) /\ z.max_idx = y.max_idx BY <1>2, <1>6 DEF Twin
<1>8. From(x) = x.idx + 1 BY DEF From
<1>9. \A i \in Occupied(x) : i >= From(x) => i > x.idx
  BY <1>1, <1>8, CapacityBounds DEF Occupied, Indices
<1>10. ~z.end => z.idx \in Indices /\ z.idx >= From(x) /\ z.value = x.slots[z.idx]
  <2>1. SUFFICES ASSUME ~z.end
                 PROVE  z.idx \in Indices /\ z.idx >= From(x) /\ z.value = x.slots[z.idx]
    OBVIOUS
  <2>2. ~(y.idx > y.max_idx) BY <2>1, <1>6 DEF b
  <2>3. y.idx <= y.max_idx BY <1>2, <1>5, <2>2
  <2>4. QED BY <1>1, <1>2, <1>6, <1>8, <2>3
<1>11. z.idx \in Nat /\ (z.end <=> z.idx > z.max_idx) /\ z.idx >= 0
  <2>1. z.end <=> y.idx > y.max_idx BY <1>6 DEF b
  <2>2. QED BY <1>2, <1>6, <1>7, <2>1
<1>12. QED BY <1>2, <1>3, <1>6, <1>7, <1>9, <1>10, <1>11 DEF Passed

\* The first Iter_Next of a pass, or after an addition.
LEMMA SetsOut ==
  ASSUME NEW x, Startable(x), ~x.processing, NEW ready
  PROVE  Passed(x, ready, Iter_Next(x), 0)
<1> DEFINE v == [x EXCEPT !.value = NULL]
           w == [v EXCEPT !.processing = TRUE]
           y == Placed(w, x.idx, x.slots[x.idx])
           b == y.idx > y.max_idx
           z == [y EXCEPT !.end = b]
<1>1. /\ x \in ReelType(Slot) /\ NULL \in Slot /\ x.idx \in Nat /\ x.idx \in Int
      /\ x.idx \in Indices /\ x.slots \in [Indices -> Slot] /\ x.slots[x.idx] \in Slot
      /\ x.max_idx \in Int
  BY CapacityBounds DEF Startable, Slot, Indices, ReelType
<1>2. v \in ReelType(Slot) /\ Twin(x, v) /\ v.idx = x.idx /\ v.value = NULL
  BY <1>1 DEF ReelType, Twin
<1>3. [x EXCEPT !.value = NULL, !.processing = TRUE] = w OBVIOUS
<1> HIDE DEF v
<1>4. /\ w \in ReelType(Slot) /\ Twin(v, w) /\ w.idx = x.idx /\ w.value = NULL
      /\ w.processing
  BY <1>2 DEF ReelType, Twin
<1>5. Iter_Next(x) = LET u == Fetch(w, x.idx) IN [u EXCEPT !.end = u.idx > u.max_idx]
  BY <1>3 DEF Iter_Next, Startable
<1> HIDE DEF w
<1>6. Twin(x, w) BY <1>2, <1>4 DEF Twin
<1>7. Fetch(w, x.idx) = y
  <2>1. Made(w, x.idx) <=> Made(x, x.idx) BY <1>6 DEF Made, Twin
  <2>2. ~Made(x, x.idx) => x.slots[x.idx] = NULL BY <1>1 DEF Startable, Occupied
  <2>3. Fetch(w, x.idx) = Placed(w, x.idx, IF Made(w, x.idx) THEN w.slots[x.idx] ELSE w.value)
    BY DEF Fetch, Placed
  <2>4. (IF Made(w, x.idx) THEN w.slots[x.idx] ELSE w.value) = x.slots[x.idx]
    BY <1>4, <1>6, <2>1, <2>2 DEF Twin
  <2>5. QED BY <2>3, <2>4
<1>8. Iter_Next(x) = z BY <1>5, <1>7
<1>9. /\ y \in ReelType(Slot) /\ Twin(w, y) /\ y.processing = w.processing
      /\ y.idx = x.idx /\ y.value = x.slots[x.idx]
  <2>1. w \in ReelType(Slot) /\ x.idx \in Int /\ x.slots[x.idx] \in Slot BY <1>1, <1>4
  <2>2. QED BY ONLY <2>1, PlacedAt
<1> HIDE DEF y
<1>10. b \in BOOLEAN OBVIOUS
<1> HIDE DEF b
<1>11. /\ z \in ReelType(Slot) /\ Twin(y, z) /\ z.processing = y.processing
       /\ z.idx = y.idx /\ z.value = y.value /\ z.end = b
  BY <1>9, <1>10, Ended
<1> HIDE DEF z
<1>12. Twin(x, z) /\ z.max_idx = y.max_idx BY <1>6, <1>9, <1>11 DEF Twin
<1>13. From(x) = x.idx BY DEF From
<1>14. \A i \in Occupied(x) : i >= From(x) => z.idx <= i
  BY <1>9, <1>11, <1>13
<1>15. ~z.end => z.idx \in Indices /\ z.idx >= From(x) /\ z.value = x.slots[z.idx]
  BY <1>1, <1>9, <1>11, <1>13
<1>16. z.idx \in Nat /\ (z.end <=> z.idx > z.max_idx) /\ z.idx >= 0
  <2>1. z.end <=> y.idx > y.max_idx BY <1>11 DEF b
  <2>2. QED BY <1>1, <1>9, <1>11, <1>12, <2>1
<1>17. z.processing BY <1>4, <1>9, <1>11
<1>18. QED BY <1>8, <1>11, <1>12, <1>14, <1>15, <1>16, <1>17 DEF Passed

\* One more turn: the Iter stays where it stops, or goes on to the next index.
LEMMA TurnPasses ==
  ASSUME NEW x, Startable(x), NEW ready, NEW y, NEW n \in Nat, Passed(x, ready, y, n)
  PROVE  Passed(x, ready, Turn(y, ready), n + 1)
<1> DEFINE u == StepUp(y)
           b == u.idx > u.max_idx
           z == [u EXCEPT !.end = b]
<1>1. /\ y \in ReelType(Slot) /\ Twin(x, y) /\ y.processing
      /\ y.idx \in Nat /\ (y.end <=> y.idx > y.max_idx)
      /\ ~y.end => y.idx \in Indices /\ y.idx >= From(x) /\ y.value = x.slots[y.idx]
      /\ \A i \in Occupied(x) : i >= From(x) /\ x.slots[i] \in ready => y.idx <= i
      /\ y.end \/ Stopped(y, ready) \/ y.idx >= n
  BY DEF Passed
<1>2. CASE y.end \/ Stopped(y, ready)
  <2>1. Turn(y, ready) = y BY <1>2 DEF Turn, Stopped
  <2>2. QED BY <1>1, <1>2, <2>1 DEF Passed
<1>3. CASE ~y.end /\ ~Stopped(y, ready)
  <2>1. Turn(y, ready) = Iter_Next(y) BY <1>3 DEF Turn, Stopped
  <2>2. y.nvalues # 0 /\ y.max_idx < Capacity(y.dims) BY <1>1 DEF Twin, Startable
  <2>3. Iter_Next(y) = z BY <1>1, <1>3, <2>2 DEF Iter_Next
  <2>4. NULL \in Slot BY DEF Slot
  <2>5. /\ u \in ReelType(Slot) /\ Twin(y, u)
        /\ u.processing = y.processing /\ u.idx \in Nat
        /\ u.idx <= u.max_idx => /\ u.idx \in Indices /\ u.idx > y.idx
                                 /\ u.value = y.slots[u.idx]
        /\ \A i \in Occupied(y) : i > y.idx => u.idx <= i
        /\ y.idx <= y.max_idx => u.idx > y.idx
    BY <1>1, <2>2, <2>4, StepUpIs
  <2> HIDE DEF u
  <2>6. b \in BOOLEAN OBVIOUS
  <2>7. u.max_idx \in Int /\ y.max_idx \in Int BY <1>1, <2>5, CapacityBounds DEF ReelType
  <2> HIDE DEF b
  <2>8. /\ z \in ReelType(Slot) /\ Twin(u, z) /\ z.processing = u.processing
        /\ z.idx = u.idx /\ z.value = u.value /\ z.end = b
    BY <2>5, <2>6, Ended
  <2> HIDE DEF z
  <2>9. Twin(x, z) /\ z.max_idx = u.max_idx /\ y.slots = x.slots
    BY <1>1, <2>5, <2>8 DEF Twin
  <2>10. z.end <=> u.idx > u.max_idx BY <2>8 DEF b
  <2>11. From(x) \in Int BY CapacityBounds DEF From, Startable, ReelType
  <2>12. ~z.end => z.idx \in Indices /\ z.idx >= From(x) /\ z.value = x.slots[z.idx]
    <3>1. SUFFICES ASSUME ~z.end
                   PROVE  z.idx \in Indices /\ z.idx >= From(x) /\ z.value = x.slots[z.idx]
      OBVIOUS
    <3>2. u.idx <= u.max_idx BY <2>5, <2>7, <2>10, <3>1
    <3>3. QED BY <1>1, <1>3, <2>5, <2>8, <2>9, <2>11, <3>2
  <2>13. \A i \in Occupied(x) : i >= From(x) /\ x.slots[i] \in ready => z.idx <= i
    <3>1. SUFFICES ASSUME NEW i \in Occupied(x), i >= From(x), x.slots[i] \in ready
                   PROVE  z.idx <= i
      OBVIOUS
    <3>2. y.idx <= i BY <1>1, <3>1
    <3>3. i # y.idx BY <1>1, <1>3, <3>1 DEF Stopped, Occupied
    <3>4. i \in Occupied(y) /\ i \in Nat
      BY <2>9, CapacityBounds DEF Occupied, Indices
    <3>5. i > y.idx BY <1>1, <3>2, <3>3, <3>4
    <3>6. QED BY <2>5, <2>8, <3>4, <3>5
  <2>14. z.idx >= n + 1
    <3>1. y.idx >= n BY <1>1, <1>3
    <3>2. y.idx <= y.max_idx BY <1>1, <1>3, <2>7
    <3>3. QED BY <1>1, <2>5, <2>8, <3>1, <3>2
  <2>15. z.processing BY <1>1, <2>5, <2>8
  <2>16. z.idx \in Nat /\ (z.end <=> z.idx > z.max_idx) BY <2>5, <2>8, <2>9, <2>10
  <2>17. QED
    BY <2>1, <2>3, <2>8, <2>9, <2>12, <2>13, <2>14, <2>15, <2>16 DEF Passed
<1>4. QED BY <1>2, <1>3
-----------------------------------------------------------------------------
Turns(f, start, ready, n) ==
  f = [m \in 0 .. n |-> IF m = 0 THEN Iter_Next(start) ELSE Turn(f[m - 1], ready)]

\* There is a function of the turns the loop takes, for every number of turns.
LEMMA TurnsExist ==
  ASSUME NEW start, NEW ready, NEW N \in Nat
  PROVE  \E f : Turns(f, start, ready, N)
<1> DEFINE S == {n \in Nat : \E f : Turns(f, start, ready, n)}
<1>1. 0 \in S
  <2> DEFINE f == [m \in 0 .. 0 |-> Iter_Next(start)]
  <2>1. \A m \in 0 .. 0 : m = 0 OBVIOUS
  <2>2. f = [m \in 0 .. 0 |-> IF m = 0 THEN Iter_Next(start) ELSE Turn(f[m - 1], ready)]
    BY <2>1
  <2> HIDE DEF f
  <2>3. Turns(f, start, ready, 0) BY <2>2 DEF Turns
  <2>4. QED BY <2>3
<1>2. ASSUME NEW n \in Nat, n \in S PROVE n + 1 \in S
  <2>1. PICK f : Turns(f, start, ready, n) BY <1>2
  <2> DEFINE g == [m \in 0 .. n + 1 |-> IF m <= n THEN f[m] ELSE Turn(f[n], ready)]
  <2>2. \A m \in 0 .. n : f[m] = IF m = 0 THEN Iter_Next(start) ELSE Turn(f[m - 1], ready)
    <3>1. f = [m \in 0 .. n |-> IF m = 0 THEN Iter_Next(start) ELSE Turn(f[m - 1], ready)]
      BY <2>1 DEF Turns
    <3>2. QED BY <3>1
  <2>3. ASSUME NEW m \in 0 .. n + 1
        PROVE  g[m] = IF m = 0 THEN Iter_Next(start) ELSE Turn(g[m - 1], ready)
    <3>1. CASE m <= n
      <4>1. m \in 0 .. n /\ g[m] = f[m] BY <3>1
      <4>2. m # 0 => g[m - 1] = f[m - 1] BY <3>1
      <4>3. QED BY <2>2, <4>1, <4>2
    <3>2. CASE ~(m <= n)
      <4>1. m = n + 1 /\ g[m] = Turn(f[n], ready) /\ m - 1 = n /\ m # 0 BY <3>2
      <4>2. g[n] = f[n] OBVIOUS
      <4>3. QED BY <4>1, <4>2
    <3>3. QED BY <3>1, <3>2
  <2>4. g = [m \in 0 .. n + 1 |-> g[m]] OBVIOUS
  <2> HIDE DEF g
  <2>5. Turns(g, start, ready, n + 1) BY <2>3, <2>4 DEF Turns
  <2>6. n + 1 \in Nat OBVIOUS
  <2>7. \E h : Turns(h, start, ready, n + 1) BY <2>5
  <2>8. QED BY <2>6, <2>7
<1>3. \A n \in Nat : n \in S => n + 1 \in S BY <1>2
<1> HIDE DEF S
<1>4. Nat \subseteq S BY ONLY <1>1, <1>3, SetInduction
<1>5. QED BY <1>4 DEF S

\* The loop is what its turns make of the first Iter_Next.
LEMMA LoopTurns ==
  ASSUME NEW start, NEW ready
  PROVE  \E f : /\ f[0] = Iter_Next(start) /\ Loop(start, ready) = f[Limit]
                /\ \A n \in 0 .. Limit : n # 0 => f[n] = Turn(f[n - 1], ready)
<1> DEFINE at == CHOOSE f : Turns(f, start, ready, Limit)
<1>1. Limit \in Nat BY CapacityBounds
<1>2. Turns(at, start, ready, Limit) BY <1>1, TurnsExist
<1>3. Loop(start, ready) = at[Limit] BY DEF Loop, Turns
<1> HIDE DEF at
<1>4. at = [m \in 0 .. Limit |->
              IF m = 0 THEN Iter_Next(start) ELSE Turn(at[m - 1], ready)]
  BY <1>2 DEF Turns
<1>5. at[0] = Iter_Next(start) BY <1>1, <1>4
<1>6. \A n \in 0 .. Limit : n # 0 => at[n] = Turn(at[n - 1], ready) BY <1>4
<1>7. QED BY <1>3, <1>5, <1>6

\* What holds of the first turn, and of each turn if it does of the one before, holds
\* of the loop.
LEMMA LoopPasses ==
  ASSUME NEW x, Startable(x), NEW ready
  PROVE  Passed(x, ready, Loop(x, ready), Limit)
<1>1. PICK f : /\ f[0] = Iter_Next(x) /\ Loop(x, ready) = f[Limit]
               /\ \A n \in 0 .. Limit : n # 0 => f[n] = Turn(f[n - 1], ready)
  BY LoopTurns
<1> DEFINE S == {n \in Nat : n <= Limit => Passed(x, ready, f[n], n)}
<1>2. Limit \in Nat BY CapacityBounds
<1>3. 0 \in S
  <2>1. Passed(x, ready, Iter_Next(x), 0) BY GoesOn, SetsOut
  <2>2. QED BY <1>1, <2>1
<1>4. ASSUME NEW n \in Nat, n \in S PROVE n + 1 \in S
  <2>1. SUFFICES ASSUME n + 1 <= Limit PROVE Passed(x, ready, f[n + 1], n + 1)
    OBVIOUS
  <2>2. n <= Limit /\ n + 1 \in 0 .. Limit /\ n + 1 # 0 /\ (n + 1) - 1 = n
    BY <1>2, <2>1
  <2>3. Passed(x, ready, f[n], n) BY <1>4, <2>2
  <2>4. f[n + 1] = Turn(f[n], ready) BY <1>1, <2>2
  <2>5. QED BY <2>3, <2>4, TurnPasses
<1>5. \A n \in Nat : n \in S => n + 1 \in S BY <1>4
<1>6. S = {n \in Nat : n <= Limit => Passed(x, ready, f[n], n)} OBVIOUS
<1> HIDE DEF S
<1>7. Nat \subseteq S BY ONLY <1>3, <1>5, SetInduction
<1>8. QED BY <1>1, <1>2, <1>6, <1>7

\* Two positions of an Iter that agree in everything.
LEMMA SameReel ==
  ASSUME NEW V, NEW y \in ReelType(V), NEW z \in ReelType(V), Twin(y, z),
         y.idx = z.idx, y.value = z.value, y.processing = z.processing, y.end = z.end
  PROVE  y = z
BY DEF ReelType, Twin

\* On a Span with items the loop stops where Scan does.
LEMMA LoopScans ==
  ASSUME NEW x, Startable(x), NEW ready
  PROVE  /\ Loop(x, ready).end = Scan(x, ready).end
         /\ Loop(x, ready).slots = Scan(x, ready).slots
         /\ ~Loop(x, ready).end => Loop(x, ready) = Scan(x, ready)
<1> DEFINE y == Loop(x, ready)
           z == Scan(x, ready)
<1>1. Passed(x, ready, y, Limit) BY LoopPasses
<1>2. x \in ReelType(Slot) /\ ~x.end BY DEF Startable
<1>3. /\ z \in ReelType(Slot)
      /\ z.slots = x.slots /\ z.max_idx = x.max_idx /\ z.nvalues = x.nvalues
      /\ z.leaves = x.leaves /\ z.dims = x.dims
      /\ z.end => \A i \in Occupied(x) : i >= From(x) => x.slots[i] \notin ready
      /\ ~z.end => /\ z.processing
                   /\ z.idx \in Occupied(x) /\ z.value = x.slots[z.idx]
                   /\ z.value \in ready /\ z.idx >= From(x)
                   /\ \A i \in Occupied(x) :
                         i >= From(x) /\ x.slots[i] \in ready => z.idx <= i
  BY <1>2, ScanType DEF From
<1> HIDE DEF y, z
<1>4. /\ y \in ReelType(Slot) /\ Twin(x, y) /\ y.processing
      /\ y.idx \in Nat /\ (y.end <=> y.idx > y.max_idx)
      /\ ~y.end => y.idx \in Indices /\ y.idx >= From(x) /\ y.value = x.slots[y.idx]
      /\ \A i \in Occupied(x) : i >= From(x) /\ x.slots[i] \in ready => y.idx <= i
      /\ y.end \/ Stopped(y, ready) \/ y.idx >= Limit
  BY <1>1 DEF Passed
<1>5. Limit \in Nat /\ Indices \subseteq Nat BY CapacityBounds DEF Indices
<1>6. y.slots = z.slots BY <1>3, <1>4 DEF Twin
<1>7. CASE y.end
  <2>1. SUFFICES ASSUME ~z.end PROVE FALSE
    <3>1. y.end \in BOOLEAN /\ z.end \in BOOLEAN BY <1>3, <1>4 DEF ReelType
    <3>2. y.end = z.end BY <1>7, <2>1, <3>1
    <3>3. QED BY <1>6, <1>7, <3>2 DEF y, z
  <2>2. z.idx \in Indices /\ x.slots[z.idx] # NULL BY <1>3, <2>1 DEF Occupied
  <2>3. y.idx <= z.idx BY <1>3, <1>4, <2>1
  <2>4. x.max_idx \in Int /\ y.max_idx = x.max_idx /\ z.idx \in Nat
    <3>1. x.max_idx \in -1 .. Limit - 1 BY <1>2 DEF ReelType
    <3>2. y.max_idx = x.max_idx BY <1>4 DEF Twin
    <3>3. x.max_idx \in Int BY <1>5, <3>1
    <3>4. z.idx \in Nat BY <1>5, <2>2
    <3>5. QED BY <3>2, <3>3, <3>4
  <2>5. z.idx > x.max_idx BY <1>4, <1>7, <2>3, <2>4
  <2>6. QED BY <2>2, <2>5 DEF Startable
<1>8. CASE ~y.end
  <2>1. Stopped(y, ready)
    <3>1. y.max_idx \in -1 .. Limit - 1 BY <1>4 DEF ReelType
    <3>2. ~(y.idx >= Limit) BY <1>4, <1>5, <1>8, <3>1
    <3>3. QED BY <1>4, <1>8, <3>2
  <2>2. /\ y.idx \in Occupied(x) /\ y.idx >= From(x)
        /\ y.value = x.slots[y.idx] /\ x.slots[y.idx] \in ready
    BY <1>4, <1>8, <2>1 DEF Stopped, Occupied
  <2>3. ~z.end BY <1>3, <2>2
  <2>4. z.idx <= y.idx /\ y.idx <= z.idx BY <1>3, <1>4, <2>2, <2>3
  <2>5. z.idx \in Nat BY <1>3, <1>5, <2>3 DEF Occupied
  <2>6. y.idx = z.idx BY <1>4, <2>4, <2>5
  <2>7. y.value = z.value BY <1>3, <2>2, <2>3, <2>6
  <2>8. /\ y.processing = z.processing /\ y.end = z.end
    <3>1. /\ y.end \in BOOLEAN /\ z.end \in BOOLEAN
          /\ y.processing \in BOOLEAN /\ z.processing \in BOOLEAN
      BY <1>3, <1>4 DEF ReelType
    <3>2. QED BY <1>3, <1>4, <1>8, <2>3, <3>1
  <2>9. Twin(y, z) BY <1>3, <1>4 DEF Twin
  <2>10. y \in ReelType(Slot) /\ z \in ReelType(Slot) BY <1>3, <1>4
  <2>11. y = z BY ONLY <2>6, <2>7, <2>8, <2>9, <2>10, SameReel
  <2>12. QED BY <2>11 DEF y, z
<1>9. QED BY <1>7, <1>8

\* On a Span that counts no item neither goes anywhere.
LEMMA LoopIdles ==
  ASSUME NEW x \in ReelType(Slot), x.nvalues = 0, Occupied(x) = {}, NEW ready
  PROVE  /\ Loop(x, ready).end = Scan(x, ready).end
         /\ Loop(x, ready).slots = Scan(x, ready).slots
         /\ ~Loop(x, ready).end => Loop(x, ready) = Scan(x, ready)
<1>1. PICK f : /\ f[0] = Iter_Next(x) /\ Loop(x, ready) = f[Limit]
               /\ \A n \in 0 .. Limit : n # 0 => f[n] = Turn(f[n - 1], ready)
  BY LoopTurns
<1> DEFINE e == [x EXCEPT !.end = TRUE]
           S == {n \in Nat : n <= Limit => f[n] = e}
<1>2. Limit \in Nat BY CapacityBounds
<1>3. e.end = TRUE /\ Iter_Next(x) = e BY DEF Iter_Next, ReelType
<1>4. Scan(x, ready) = e BY DEF Scan
<1> HIDE DEF e
<1>5. 0 \in S BY <1>1, <1>3
<1>6. ASSUME NEW n \in Nat, n \in S PROVE n + 1 \in S
  <2>1. SUFFICES ASSUME n + 1 <= Limit PROVE f[n + 1] = e
    OBVIOUS
  <2>2. n <= Limit /\ n + 1 \in 0 .. Limit /\ n + 1 # 0 /\ (n + 1) - 1 = n
    BY <1>2, <2>1
  <2>3. f[n] = e BY <1>6, <2>2
  <2>4. f[n + 1] = Turn(f[n], ready) BY <1>1, <2>2
  <2>5. QED BY <1>3, <2>3, <2>4 DEF Turn
<1>7. \A n \in Nat : n \in S => n + 1 \in S BY <1>6
<1>8. S = {n \in Nat : n <= Limit => f[n] = e} OBVIOUS
<1> HIDE DEF S
<1>9. Nat \subseteq S BY ONLY <1>5, <1>7, SetInduction
<1>10. Loop(x, ready) = e BY <1>1, <1>2, <1>8, <1>9
<1>11. QED BY <1>4, <1>10

\* In every state the invariant allows, the loop of Queue_Next is Scan.
LEMMA ScansInvariant == QInv /\ Standing => ScanIsLoop
<1> SUFFICES ASSUME QInv, Standing PROVE ScanIsLoop
  OBVIOUS
<1> DEFINE start == IF it.end THEN Iter_Init(it) ELSE it
<1>1. it \in ReelType(Slot) /\ NULL \in Slot BY DEF QInv, TypeOK, Slot
<1>2. 0 \in Indices BY CapacityBounds DEF Indices, Standing
<1>3. /\ start \in ReelType(Slot) /\ start.idx \in Indices /\ ~start.end
      /\ start.slots = it.slots /\ start.max_idx = it.max_idx
      /\ start.nvalues = it.nvalues /\ start.leaves = it.leaves /\ start.dims = it.dims
  <2>1. CASE it.end
    <3>1. start = Iter_Init(it) BY <2>1
    <3>2. Iter_Init(it).end = FALSE BY <1>1 DEF Iter_Init, ReelType
    <3> HIDE DEF start
    <3>3. QED BY <1>1, <1>2, <3>1, <3>2, InitType
  <2>2. CASE ~it.end BY <1>1, <2>2 DEF Standing
  <2>3. QED BY <2>1, <2>2
<1> HIDE DEF start
<1>4. Occupied(start) = Occupied(it) /\ \A i \in Indices : Made(start, i) <=> Made(it, i)
  BY <1>3 DEF Occupied, Made
<1>5. SUFFICES ASSUME NEW ready \in SUBSET Queued
               PROVE  /\ Loop(start, ready).end = Scan(start, ready).end
                      /\ Loop(start, ready).slots = Scan(start, ready).slots
                      /\ ~Loop(start, ready).end => Loop(start, ready) = Scan(start, ready)
  BY DEF ScanIsLoop, start
<1>6. CASE start.nvalues = 0
  <2>1. Cardinality(Occupied(it)) = 0 BY <1>3, <1>6 DEF QInv, CountExact
  <2>2. Occupied(it) = {}
    BY <2>1, FiniteOccupied, FS_EmptySet
  <2>3. QED BY <1>3, <1>4, <1>6, <2>2, LoopIdles
<1>7. CASE start.nvalues # 0
  <2>1. \A i \in Indices : i > start.max_idx => start.slots[i] = NULL
    BY <1>3 DEF QInv, NoneAboveMax
  <2>2. \A i \in Occupied(start) : Made(start, i)
    BY <1>4 DEF QInv, Backed, Occupied
  <2>3. start.max_idx < Capacity(start.dims) BY <1>3 DEF Standing
  <2>4. Startable(start) BY <1>3, <1>7, <2>1, <2>2, <2>3 DEF Startable
  <2>5. QED BY <2>4, LoopScans
<1>8. QED BY <1>6, <1>7

(* Scan, by which every other theorem about the Queue speaks of            *)
(* Queue_Next, is what the loop of Iter_Next in queue.c does: it stops at  *)
(* the next item whose criteria function accepts it, and skips none.       *)
THEOREM QueueScanIsLoop == Spec => []ScanIsLoop
<1>1. Init => QInv /\ Standing BY InitInv, InitStands
<1>2. QInv /\ Standing /\ [Next]_vars => (QInv /\ Standing)'
  BY StepInv, StepStands
<1>3. QInv /\ Standing => ScanIsLoop BY ScansInvariant
<1>4. QED BY <1>1, <1>2, <1>3, PTL DEF Spec
=============================================================================
