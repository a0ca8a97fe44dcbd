------------------------------ MODULE SpanIter ------------------------------
(***************************************************************************)
(* A Span together with the one Iter that works on it, as the callers of   *)
(* src/src/mod/base/mem/iter.c see them.  The radix tree is flattened to   *)
(* the function "slots"; what remains of the tree is what a caller can     *)
(* notice: its depth "dims", and which leaf slabs exist ("leaves"), since  *)
(* removing at a slot of an existing slab counts down even when the slot   *)
(* is empty.                                                               *)
(*                                                                         *)
(* The fields idx, value, processing and end are the Iter's: its position, *)
(* the value it carries (which need not be the one at idx) and the flags   *)
(* PROCESSING and END of it->type.state, the two that survive              *)
(* "state & NORMAL_FLAGS" from one call to the next.                       *)
(***************************************************************************)
EXTENDS Integers, FiniteSets

CONSTANTS
  INCREMENTS,  (* _increments: the indices one slot spans at each depth    *)
  MAX_DIMS,    (* SPAN_MAX_DIMS, the greatest depth of the tree (4)        *)
  NULL         (* the empty slot                                           *)

(* SPAN_STRIDE, the slots of a slab (16).                                  *)
STRIDE == INCREMENTS[1]

(* From this index on Iter_Query reports "idx too large".                  *)
Limit   == INCREMENTS[MAX_DIMS + 1]
Indices == 0 .. Limit - 1

(* _capacity: the indices a tree of this depth has room for.               *)
Capacity(dims) == INCREMENTS[dims + 1]

Fits(i, d) == i < Capacity(d) /\ (d = 0 \/ i >= INCREMENTS[d])

(* What the literal tables at the head of iter.c satisfy.                  *)
ASSUME TablesAssumption ==
  /\ MAX_DIMS \in Nat
  /\ INCREMENTS \in [0 .. MAX_DIMS + 1 -> Nat \ {0}]
  /\ INCREMENTS[0] = 1 /\ STRIDE > 1
  /\ \A d, e \in 0 .. MAX_DIMS : d <= e => Capacity(d) <= Capacity(e)
  /\ \A d \in 0 .. MAX_DIMS : Capacity(d) = STRIDE * INCREMENTS[d]
  /\ \A i \in Indices : \E d \in 0 .. MAX_DIMS : Fits(i, d)

DimsNeeded(i) == CHOOSE d \in 0 .. MAX_DIMS : Fits(i, d)

Higher(a, b) == IF a > b THEN a ELSE b

(* An empty Span (Span_Setup) with an Iter on it.                           *)
Span_Make ==
  [slots |-> [i \in Indices |-> NULL], leaves |-> {0}, nvalues |-> 0,
   max_idx |-> -1, dims |-> 0,
   idx |-> 0, value |-> NULL, processing |-> FALSE, end |-> FALSE]

Occupied(x) == {i \in Indices : x.slots[i] # NULL}

(* A slot has memory behind it.                                            *)
Made(x, i) == i >= 0 /\ i < Capacity(x.dims) /\ i \div STRIDE \in x.leaves

(* The slabs Iter_Query allocates before it can store at i: one for every  *)
(* level the tree grows by, one for every level of the way down to i that  *)
(* no stored index has opened yet.                                         *)
GrowthSlabs(x, i) == Higher(DimsNeeded(i) - x.dims, 0)

PathSlabs(x, i) ==
  LET dims == Higher(DimsNeeded(i), x.dims)
      Open(level) == \E leaf \in x.leaves :
                        leaf \div INCREMENTS[level] = i \div INCREMENTS[level + 1]
  IN  Cardinality({level \in 0 .. dims - 1 : ~Open(level)})

SlabCost(x, i) == GrowthSlabs(x, i) + PathSlabs(x, i)

(* A Span whose slots hold values of V, with an Iter on it.                 *)
ReelType(V) ==
  [slots : [Indices -> V], leaves : SUBSET Int, nvalues : Int,
   max_idx : -1 .. Limit - 1, dims : 0 .. MAX_DIMS, idx : Int, value : V,
   processing : BOOLEAN, end : BOOLEAN]

-----------------------------------------------------------------------------
(* Iter_Query under SPAN_OP_SET.                                           *)
Store(x, i, v) ==
  [x EXCEPT !.idx = i, !.value = v,
            !.nvalues = IF x.slots[i] = NULL THEN @ + 1 ELSE @,
            !.slots[i] = v,
            !.leaves = @ \union {i \div STRIDE},
            !.dims = Higher(@, DimsNeeded(i)),
            !.max_idx = Higher(@, i)]

(* Iter_Query under SPAN_OP_GET: the value is left alone when the index    *)
(* has no memory.                                                          *)
Fetch(x, i) ==
  [x EXCEPT !.idx = i, !.value = IF Made(x, i) THEN x.slots[i] ELSE @]

Iter_SetByIdx(x, i, v) == Store(x, i, v)

Iter_Add(x, v) == [Store(x, x.max_idx + 1, v) EXCEPT !.end = FALSE]

Iter_GetByIdx(x, i) == Fetch(x, i)

(* The index that made the tree deeper stays counted as a value.           *)
Iter_ExpandTo_Counts(x, i) == [Store(x, i, NULL) EXCEPT !.end = FALSE]

(* Makes room for an index without a value: max_idx rises all the same.    *)
Iter_ExpandTo(x, i) == [Store(x, i, NULL) EXCEPT !.nvalues = @ - 1, !.end = FALSE]

(* The value is not counted down.                                          *)
Iter_Remove_NoCount(x) ==
  [x EXCEPT !.value = NULL, !.slots[x.idx] = NULL,
            !.max_idx = IF @ = x.idx THEN @ - 1 ELSE @]

(* Iter_Query under SPAN_OP_REMOVE at the current position.                *)
Iter_Remove(x) ==
  IF Made(x, x.idx)
  THEN [x EXCEPT !.value = NULL, !.slots[x.idx] = NULL, !.nvalues = @ - 1,
                 !.max_idx = IF @ = x.idx THEN @ - 1 ELSE @]
  ELSE [x EXCEPT !.value = NULL]

Iter_RemoveByIdx(x, i) ==
  LET y == Iter_Remove([x EXCEPT !.idx = i])
  IN  [y EXCEPT !.end = i >= y.max_idx]

(* A fresh Iter on the same Span.                                          *)
Iter_Init(x) == [x EXCEPT !.idx = 0, !.value = NULL, !.processing = FALSE, !.end = FALSE]

-----------------------------------------------------------------------------
(* _Iter_Prev takes its "start again from max_idx" branch on END, but      *)
(* Iter_Prev has always cleared END when it calls it: once PROCESSING, an  *)
(* iterator only steps down.  A tree of one slab does not skip empty       *)
(* slots, a deeper one does and stops at 0 when nothing is left.           *)
StepDown(x) ==
  IF x.dims = 0
  THEN [x EXCEPT !.idx = @ - 1, !.value = x.slots[x.idx - 1]]
  ELSE LET below == {i \in Occupied(x) : i < x.idx}
       IN  IF below = {} THEN [x EXCEPT !.idx = 0, !.value = NULL]
           ELSE LET i == CHOOSE i \in below : \A j \in below : j <= i
                IN  [x EXCEPT !.idx = i, !.value = x.slots[i]]

Iter_Prev(x) ==
  CASE x.idx = 0 /\ x.processing -> [x EXCEPT !.end = TRUE]
    [] ~(x.idx = 0 /\ x.processing) /\ x.nvalues = 0 ->
         [x EXCEPT !.idx = -1, !.value = NULL, !.end = TRUE]
    [] x.nvalues # 0 /\ ~x.processing ->
         [Fetch([x EXCEPT !.value = NULL], x.max_idx)
            EXCEPT !.processing = TRUE, !.end = FALSE]
    [] x.nvalues # 0 /\ x.processing /\ x.idx # 0 ->
         [StepDown(x) EXCEPT !.end = FALSE]

(* Iter_Next starts (again) when it is not PROCESSING or has reached END.  *)
(* Where it stands after END no caller looks.                              *)
StepUp(x) ==
  IF x.dims = 0
  THEN LET i == x.idx + 1
       IN  [x EXCEPT !.idx = i, !.value = x.slots[IF i < STRIDE THEN i ELSE STRIDE - 1]]
  ELSE LET above == {i \in Occupied(x) : i > x.idx}
       IN  IF above = {} THEN [x EXCEPT !.idx = x.max_idx + 1, !.value = NULL]
           ELSE LET i == CHOOSE i \in above : \A j \in above : i <= j
                IN  [x EXCEPT !.idx = i, !.value = x.slots[i]]

(* END comes on the last item instead of after it.                         *)
Iter_Next_Early(x) ==
  IF x.nvalues = 0 THEN [x EXCEPT !.end = TRUE]
  ELSE LET y == IF x.end \/ ~x.processing
                THEN Fetch([x EXCEPT !.processing = TRUE], IF x.end THEN 0 ELSE x.idx)
                ELSE StepUp(x)
       IN  [y EXCEPT !.end = y.idx >= y.max_idx]

Iter_Next(x) ==
  IF x.nvalues = 0 THEN [x EXCEPT !.end = TRUE]
  ELSE LET y == IF x.end \/ ~x.processing
                THEN Fetch([x EXCEPT !.value = NULL, !.processing = TRUE],
                           IF x.end THEN 0 ELSE x.idx)
                ELSE StepUp(x)
       IN  [y EXCEPT !.end = y.idx > y.max_idx]
=============================================================================
