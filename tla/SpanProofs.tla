----------------------------- MODULE SpanProofs -----------------------------
(***************************************************************************)
(* What the operators of SpanIter do to a Span, for every table of         *)
(* strides: the lemmas that the proofs about its users rest on.            *)
(***************************************************************************)
EXTENDS SpanIter, FiniteSetTheorems, WellFoundedInduction, TLAPS

(* An index of the Span fits in a tree of the depth DimsNeeded gives it,   *)
(* and no tree holds more than Limit indices.                              *)
LEMMA DimsFit ==
  ASSUME NEW i \in Indices
  PROVE  /\ DimsNeeded(i) \in 0 .. MAX_DIMS
         /\ i < Capacity(DimsNeeded(i))
BY TablesAssumption DEF DimsNeeded, Fits

\* Every depth a reel may have holds a whole number of slots, never more than Limit.
LEMMA CapacityBounds ==
  /\ Limit \in Nat
  /\ \A d \in 0 .. MAX_DIMS : Capacity(d) \in Nat /\ Capacity(d) <= Limit
<1>1. \A d \in 0 .. MAX_DIMS : Capacity(d) \in Nat
  BY TablesAssumption DEF Capacity
<1>2. MAX_DIMS \in 0 .. MAX_DIMS /\ Limit = Capacity(MAX_DIMS)
  BY TablesAssumption DEF Capacity, Limit
<1>3. QED
  BY <1>1, <1>2, TablesAssumption

\* Dividing a slot index by the stride gives an integer (the shelf of the index).
LEMMA DivType == \A i \in Int : i \div STRIDE \in Int
<1>1. STRIDE \in Nat /\ STRIDE > 1
  BY TablesAssumption DEF STRIDE
<1>2. QED
  BY <1>1

(* What Iter_Query does to a Span under SPAN_OP_SET.                       *)
LEMMA StoreType ==
  ASSUME NEW V, NEW x \in ReelType(V), NEW i \in Indices, NEW v \in V
  PROVE  /\ Store(x, i, v) \in ReelType(V)
         /\ Store(x, i, v).slots = [x.slots EXCEPT ![i] = v]
         /\ Store(x, i, v).max_idx = IF x.max_idx > i THEN x.max_idx ELSE i
         /\ Store(x, i, v).nvalues =
              IF x.slots[i] = NULL THEN x.nvalues + 1 ELSE x.nvalues
         /\ Store(x, i, v).processing = x.processing /\ Store(x, i, v).end = x.end
         /\ Made(Store(x, i, v), i)
         /\ \A j \in Indices : Made(x, j) => Made(Store(x, i, v), j)
<1>1. Limit \in Nat BY CapacityBounds
<1>2. i \in Int /\ i >= 0 /\ i < Limit /\ i \div STRIDE \in Int
  BY <1>1, DivType DEF Indices
<1>3. DimsNeeded(i) \in 0 .. MAX_DIMS /\ i < Capacity(DimsNeeded(i)) BY DimsFit
<1> DEFINE d == Higher(x.dims, DimsNeeded(i))
<1>4. d \in 0 .. MAX_DIMS /\ d >= x.dims /\ d >= DimsNeeded(i)
  BY <1>3, TablesAssumption DEF ReelType, Higher
<1>5. Capacity(x.dims) <= Capacity(d) /\ Capacity(DimsNeeded(i)) <= Capacity(d)
  BY <1>3, <1>4, TablesAssumption DEF ReelType
<1>6. Capacity(x.dims) \in Nat /\ Capacity(d) \in Nat /\ Capacity(DimsNeeded(i)) \in Nat
  BY <1>3, <1>4, CapacityBounds DEF ReelType
<1>7. Higher(x.max_idx, i) \in -1 .. Limit - 1
  BY <1>1, <1>2 DEF ReelType, Higher
<1> HIDE DEF d
<1>8. /\ Store(x, i, v).slots = [x.slots EXCEPT ![i] = v]
      /\ Store(x, i, v).leaves = x.leaves \union {i \div STRIDE}
      /\ Store(x, i, v).max_idx = Higher(x.max_idx, i)
      /\ Store(x, i, v).dims = d
      /\ Store(x, i, v).nvalues =
           IF x.slots[i] = NULL THEN x.nvalues + 1 ELSE x.nvalues
      /\ Store(x, i, v).processing = x.processing /\ Store(x, i, v).end = x.end
  BY DEF Store, ReelType, d
<1>9. Store(x, i, v) \in ReelType(V)
  <2>1. [x.slots EXCEPT ![i] = v] \in [Indices -> V] BY DEF ReelType
  <2>2. x.leaves \union {i \div STRIDE} \in SUBSET Int BY <1>2 DEF ReelType
  <2>3. (IF x.slots[i] = NULL THEN x.nvalues + 1 ELSE x.nvalues) \in Int
    BY DEF ReelType
  <2>4. QED BY <1>2, <1>4, <1>7, <2>1, <2>2, <2>3 DEF ReelType, Store, d
<1>10. Made(Store(x, i, v), i)
  BY <1>2, <1>3, <1>5, <1>6, <1>8 DEF Made
<1>11. ASSUME NEW j \in Indices, Made(x, j)
       PROVE  Made(Store(x, i, v), j)
  BY <1>1, <1>5, <1>6, <1>8, <1>11 DEF Made, Indices
<1>12. QED
  <2>1. x.max_idx \in Int BY DEF ReelType
  <2>2. QED BY <2>1, <1>8, <1>9, <1>10, <1>11 DEF Higher

\* A slot whose storage is made lies inside the index range the model covers.
LEMMA MadeIndices ==
  ASSUME NEW V, NEW x \in ReelType(V), NEW i \in Int, Made(x, i)
  PROVE  i \in Indices
<1>1. x.dims \in 0 .. MAX_DIMS BY DEF ReelType
<1>2. QED BY <1>1, CapacityBounds DEF Made, Indices

(* SPAN_OP_GET moves the Iter and nothing else.                            *)
LEMMA FetchType ==
  ASSUME NEW V, NEW x \in ReelType(V), NEW i \in Int
  PROVE  /\ Fetch(x, i) \in ReelType(V)
         /\ Fetch(x, i).slots = x.slots
         /\ Fetch(x, i).max_idx = x.max_idx
         /\ Fetch(x, i).nvalues = x.nvalues
         /\ Fetch(x, i).idx = i
         /\ Fetch(x, i).processing = x.processing
         /\ Fetch(x, i).end = x.end
         /\ \A j \in Indices : Made(x, j) => Made(Fetch(x, i), j)
<1>1. (IF Made(x, i) THEN x.slots[i] ELSE x.value) \in V
  BY MadeIndices DEF ReelType
<1>2. Fetch(x, i) \in ReelType(V)
  BY <1>1 DEF ReelType, Fetch
<1>3. Fetch(x, i).leaves = x.leaves /\ Fetch(x, i).dims = x.dims
  BY DEF ReelType, Fetch
<1>4. \A j \in Indices : Made(x, j) => Made(Fetch(x, i), j)
  BY <1>3 DEF Made
<1>5. QED
  BY <1>2, <1>4 DEF ReelType, Fetch

(* SPAN_OP_REMOVE at an index that has memory.                             *)
LEMMA RemoveType ==
  ASSUME NEW V, NULL \in V, NEW x \in ReelType(V), NEW i \in Indices, Made(x, i)
  PROVE  /\ Iter_RemoveByIdx(x, i) \in ReelType(V)
         /\ Iter_RemoveByIdx(x, i).slots = [x.slots EXCEPT ![i] = NULL]
         /\ Iter_RemoveByIdx(x, i).max_idx = IF x.max_idx = i THEN i - 1 ELSE x.max_idx
         /\ Iter_RemoveByIdx(x, i).nvalues = x.nvalues - 1
         /\ Iter_RemoveByIdx(x, i).idx = i
         /\ Iter_RemoveByIdx(x, i).processing = x.processing
         /\ \A j \in Indices : Made(x, j) => Made(Iter_RemoveByIdx(x, i), j)
<1> DEFINE at == [x EXCEPT !.idx = i]
           y  == Iter_Remove(at)
<1>1. Limit \in Nat /\ i \in Int /\ i >= 0 /\ i < Limit
  BY CapacityBounds DEF Indices
<1>2. /\ at \in ReelType(V) /\ at.idx = i /\ at.slots = x.slots
      /\ at.leaves = x.leaves /\ at.dims = x.dims /\ at.max_idx = x.max_idx
      /\ at.nvalues = x.nvalues /\ at.processing = x.processing
  BY <1>1 DEF ReelType
<1>3. Made(at, at.idx) BY <1>2 DEF Made
<1> DEFINE top == IF x.max_idx = i THEN x.max_idx - 1 ELSE x.max_idx
<1>4. top \in -1 .. Limit - 1 BY <1>1 DEF ReelType
<1>5. [at.slots EXCEPT ![i] = NULL] \in [Indices -> V] BY <1>2 DEF ReelType
<1>6. at.nvalues - 1 \in Int BY <1>2 DEF ReelType
<1> HIDE DEF at, top
<1>7. y = [at EXCEPT !.value = NULL, !.slots[i] = NULL,
                     !.nvalues = @ - 1, !.max_idx = top]
  BY <1>2, <1>3 DEF Iter_Remove, top
<1>8. y \in ReelType(V)
  BY <1>2, <1>4, <1>5, <1>6, <1>7 DEF ReelType
<1>9. /\ y.slots = [x.slots EXCEPT ![i] = NULL] /\ y.max_idx = top
      /\ y.nvalues = x.nvalues - 1 /\ y.idx = i /\ y.leaves = x.leaves
      /\ y.dims = x.dims /\ y.processing = x.processing
  BY <1>2, <1>7 DEF ReelType
<1> DEFINE past == i >= y.max_idx
<1>10. past \in BOOLEAN
  OBVIOUS
<1>11. Iter_RemoveByIdx(x, i) = [y EXCEPT !.end = past]
  BY DEF Iter_RemoveByIdx, at
<1> HIDE DEF y, past
<1>12. Iter_RemoveByIdx(x, i) \in ReelType(V)
  BY <1>8, <1>10, <1>11 DEF ReelType
<1>13. Iter_RemoveByIdx(x, i).leaves = x.leaves /\ Iter_RemoveByIdx(x, i).dims = x.dims
  BY <1>8, <1>9, <1>11 DEF ReelType
<1>14. \A j \in Indices : Made(x, j) => Made(Iter_RemoveByIdx(x, i), j)
  BY <1>13 DEF Made
<1>15. /\ Iter_RemoveByIdx(x, i).slots = y.slots
       /\ Iter_RemoveByIdx(x, i).max_idx = y.max_idx
       /\ Iter_RemoveByIdx(x, i).nvalues = y.nvalues
       /\ Iter_RemoveByIdx(x, i).idx = y.idx
       /\ Iter_RemoveByIdx(x, i).processing = y.processing
  BY <1>8, <1>11 DEF ReelType
<1>16. QED
  BY <1>1, <1>9, <1>12, <1>14, <1>15 DEF top

(* A fresh Iter on the same Span.                                          *)
LEMMA InitType ==
  ASSUME NEW V, NULL \in V, NEW x \in ReelType(V)
  PROVE  /\ Iter_Init(x) \in ReelType(V)
         /\ Iter_Init(x).idx = 0 /\ ~Iter_Init(x).processing
         /\ Iter_Init(x).slots = x.slots /\ Iter_Init(x).max_idx = x.max_idx
         /\ Iter_Init(x).nvalues = x.nvalues
         /\ Iter_Init(x).leaves = x.leaves /\ Iter_Init(x).dims = x.dims
<1> DEFINE w == [x EXCEPT !.idx = 0]
           y == [w EXCEPT !.value = NULL]
           z == [y EXCEPT !.processing = FALSE]
<1>1. Iter_Init(x) = [z EXCEPT !.end = FALSE]
  BY DEF Iter_Init
<1>2. /\ w \in ReelType(V) /\ w.idx = 0 /\ w.slots = x.slots
      /\ w.max_idx = x.max_idx /\ w.nvalues = x.nvalues
      /\ w.leaves = x.leaves /\ w.dims = x.dims
  BY DEF ReelType
<1> HIDE DEF w
<1>3. /\ y \in ReelType(V) /\ y.idx = 0 /\ y.slots = x.slots
      /\ y.max_idx = x.max_idx /\ y.nvalues = x.nvalues
      /\ y.leaves = x.leaves /\ y.dims = x.dims
  BY <1>2 DEF ReelType
<1> HIDE DEF y
<1>4. /\ z \in ReelType(V) /\ z.idx = 0 /\ z.slots = x.slots /\ ~z.processing
      /\ z.max_idx = x.max_idx /\ z.nvalues = x.nvalues
      /\ z.leaves = x.leaves /\ z.dims = x.dims
  BY <1>3 DEF ReelType
<1> HIDE DEF z
<1>5. QED
  BY <1>1, <1>4 DEF ReelType

\* A non-empty set of naturals has a least element: Queue_Next stops at the least
\* ready index above its position.
LEMMA LeastExists ==
  ASSUME NEW S, S \subseteq Nat, S # {}
  PROVE  \E i \in S : \A j \in S : i <= j
<1> DEFINE Less == {p \in Nat \X Nat : p[1] < p[2]}
<1>1. IsWellFoundedOn(Less, Nat)
  BY NatLessThanWellFounded DEF OpToRel
<1> HIDE DEF Less
<1>2. PICK i \in S : \A j \in S : <<j, i>> \notin Less
  BY <1>1, WFMin
<1>3. ASSUME NEW j \in S PROVE i <= j
  <2>1. ~(j < i) BY <1>2, <1>3 DEF Less
  <2>2. QED BY <2>1
<1>4. QED BY <1>3

\* Only finitely many slots are occupied, so the item count is a cardinality.
LEMMA FiniteOccupied ==
  ASSUME NEW x PROVE IsFiniteSet(Occupied(x))
<1>1. 0 \in Int /\ Limit - 1 \in Int BY CapacityBounds
<1>2. IsFiniteSet(Indices) BY <1>1, FS_Interval DEF Indices
<1>3. Occupied(x) \in SUBSET Indices BY DEF Occupied
<1>4. QED BY <1>2, <1>3, FS_Subset

\* A set of naturals that has 0 and the successor of each member has them all.
LEMMA SetInduction ==
  ASSUME NEW S, 0 \in S, \A n \in Nat : n \in S => n + 1 \in S
  PROVE  Nat \subseteq S
<1> SUFFICES ASSUME ~(Nat \subseteq S) PROVE FALSE
  OBVIOUS
<1> DEFINE T == Nat \ S
<1>0. T \subseteq Nat /\ T # {}
  <2>1. \E n : n \in Nat /\ n \notin S
    OBVIOUS
  <2>2. QED BY <2>1
<1>1. PICK m \in T : \A k \in T : m <= k
  BY <1>0, LeastExists
<1>2. m # 0 /\ m - 1 \in Nat
  BY <1>1
<1>3. m - 1 \in S
  BY <1>1, <1>2
<1>4. QED BY <1>2, <1>3

\* The greatest member of a bounded set of naturals.
LEMMA GreatestExists ==
  ASSUME NEW S, S \subseteq Nat, S # {}, NEW n \in Nat, \A i \in S : i <= n
  PROVE  \E i \in S : \A j \in S : j <= i
<1> DEFINE R == {n - i : i \in S}
<1>1. R \subseteq Nat /\ R # {}
  <2>1. \A i \in S : i \in Nat /\ n - i \in Nat
    OBVIOUS
  <2>2. \E i : i \in S
    OBVIOUS
  <2>3. R # {}
    BY <2>2
  <2>4. R \subseteq Nat
    BY <2>1
  <2>5. QED BY <2>3, <2>4
<1>2. PICK k \in R : \A l \in R : k <= l
  BY <1>1, LeastExists
<1>3. PICK i \in S : k = n - i
  BY <1>2
<1>4. ASSUME NEW j \in S PROVE j <= i
  <2>1. n - j \in R BY <1>4
  <2>2. k <= n - j BY <1>2, <2>1
  <2>3. QED BY <1>3, <2>2
<1>5. QED BY <1>4

(* Between them, growing the tree and opening the way to an index take at  *)
(* most two slabs for each level.                                          *)
LEMMA CostBounds ==
  ASSUME NEW x, x.dims \in 0 .. MAX_DIMS, NEW i \in Indices
  PROVE  /\ GrowthSlabs(x, i) \in 0 .. MAX_DIMS
         /\ SlabCost(x, i) \in 0 .. 2 * MAX_DIMS
         /\ GrowthSlabs(x, i) <= SlabCost(x, i)
         /\ GrowthSlabs(x, i) > 0 => DimsNeeded(i) > x.dims
<1>1. MAX_DIMS \in Nat BY TablesAssumption
<1>2. DimsNeeded(i) \in 0 .. MAX_DIMS BY DimsFit
<1>3. /\ GrowthSlabs(x, i) \in 0 .. MAX_DIMS
      /\ GrowthSlabs(x, i) > 0 => DimsNeeded(i) > x.dims
  BY <1>1, <1>2 DEF GrowthSlabs, Higher
<1> DEFINE dims == Higher(DimsNeeded(i), x.dims)
           Open(level) == \E leaf \in x.leaves :
                             leaf \div INCREMENTS[level] = i \div INCREMENTS[level + 1]
           shut == {level \in 0 .. dims - 1 : ~Open(level)}
<1>4. dims \in 0 .. MAX_DIMS
  BY <1>1, <1>2 DEF Higher
<1>5. PathSlabs(x, i) = Cardinality(shut)
  BY DEF PathSlabs
<1> HIDE DEF dims
<1>6. shut \in SUBSET (0 .. dims - 1)
  OBVIOUS
<1> HIDE DEF shut
<1>7. IsFiniteSet(0 .. dims - 1) /\ Cardinality(0 .. dims - 1) = dims
  <2>1. 0 \in Int /\ dims - 1 \in Int
    BY <1>1, <1>4
  <2>2. /\ IsFiniteSet(0 .. dims - 1)
        /\ Cardinality(0 .. dims - 1) = IF 0 > dims - 1 THEN 0 ELSE dims - 1 - 0 + 1
    BY ONLY <2>1, FS_Interval
  <2>3. QED BY <1>1, <1>4, <2>2
<1>8. /\ IsFiniteSet(shut) /\ Cardinality(shut) <= Cardinality(0 .. dims - 1)
  BY <1>6, <1>7, FS_Subset
<1>9. Cardinality(shut) \in Nat
  BY <1>8, FS_CardinalityType
<1>10. PathSlabs(x, i) \in 0 .. MAX_DIMS
  BY <1>1, <1>4, <1>5, <1>7, <1>8, <1>9
<1>11. QED BY <1>1, <1>3, <1>10 DEF SlabCost
=============================================================================
