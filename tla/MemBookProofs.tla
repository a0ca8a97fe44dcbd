---------------------------- MODULE MemBookProofs ----------------------------
(***************************************************************************)
(* Proofs about the page allocator for every size of a book, every number  *)
(* of chapters and every table of strides.                                 *)
(***************************************************************************)
EXTENDS MemBook, SpanProofs

\* What a slot of one of the book's Spans may hold.
Cell == (0 .. PAGE_MAX) \union {NULL}

\* No two slots hold the same page.
Uniq(x) == \A i, j \in Occupied(x) : x.slots[i] = x.slots[j] => i = j

(* What holds of all three Spans.  Nothing is stored above max_idx or       *)
(* without memory, and the Iter carries the value of the slot it stands on; *)
(* below the first slot it stands only at the END of an empty Span.  Before *)
(* the first pass nothing has been removed.                                 *)
Loose(x) ==
  /\ x \in ReelType(Cell)
  /\ \A i \in Occupied(x) : i <= x.max_idx /\ Made(x, i)
  /\ x.idx \in Indices \union {-1}
  /\ x.idx = -1 => x.end /\ x.nvalues = 0
  /\ x.idx # -1 => x.value = x.slots[x.idx]
  /\ ~x.processing => x.nvalues = x.max_idx + 1
  /\ Uniq(x)

(* What holds of "recycled" and of the page Span of book->m.               *)
Stack(x) ==
  /\ Loose(x)
  /\ Occupied(x) = 0 .. x.max_idx
  /\ x.nvalues = x.max_idx + 1
  /\ x.nvalues > 0 => x.idx = x.max_idx

LEMMA Bounds ==
  /\ Limit \in Nat /\ PAGE_MAX \in Nat /\ PAGE_MAX < Limit
  /\ NULL \in Cell /\ NULL \notin 0 .. PAGE_MAX
  /\ \A i : i \in Indices <=> i \in Int /\ 0 <= i /\ i < Limit
  /\ -1 \notin Indices
<1>1. Limit \in Nat BY CapacityBounds
<1>2. QED BY <1>1, BookAssumption DEF Cell, Indices

\* A page put in an empty slot joins the pages held.
LEMMA HeldAdd ==
  ASSUME NEW x, NEW y, Uniq(x), NEW i \in Indices, NEW v,
         \A j \in Indices : y.slots[j] = IF j = i THEN v ELSE x.slots[j],
         x.slots[i] = NULL, v # NULL, v \notin Held(x)
  PROVE  /\ Occupied(y) = Occupied(x) \union {i}
         /\ Held(y) = Held(x) \union {v}
         /\ Uniq(y)
<1>1. Occupied(y) = Occupied(x) \union {i}
  BY DEF Occupied
<1>2. i \notin Occupied(x) /\ y.slots[i] = v /\ \A j \in Occupied(x) : y.slots[j] = x.slots[j]
  BY DEF Occupied
<1>3. Held(y) = Held(x) \union {v}
  BY <1>1, <1>2 DEF Held
<1>4. \A j \in Occupied(x) : x.slots[j] # v
  BY DEF Held
<1>5. Uniq(y)
  BY <1>1, <1>2, <1>4 DEF Uniq
<1>6. QED BY <1>1, <1>3, <1>5

\* An emptied slot loses the one page it held.
LEMMA HeldDel ==
  ASSUME NEW x, NEW y, Uniq(x), NEW i \in Indices,
         \A j \in Indices : y.slots[j] = IF j = i THEN NULL ELSE x.slots[j]
  PROVE  /\ Occupied(y) = Occupied(x) \ {i}
         /\ x.slots[i] # NULL => Held(y) = Held(x) \ {x.slots[i]}
         /\ x.slots[i] = NULL => Held(y) = Held(x)
         /\ Uniq(y)
<1>1. Occupied(y) = Occupied(x) \ {i}
  BY DEF Occupied
<1>2. \A j \in Occupied(y) : j \in Occupied(x) /\ y.slots[j] = x.slots[j]
  BY <1>1 DEF Occupied
<1>3. Uniq(y)
  BY <1>2 DEF Uniq
<1>4. ASSUME x.slots[i] # NULL
      PROVE  Held(y) = Held(x) \ {x.slots[i]}
  <2>1. i \in Occupied(x) BY <1>4 DEF Occupied
  <2>2. \A j \in Occupied(y) : x.slots[j] # x.slots[i]
    BY <1>1, <1>2, <2>1 DEF Uniq
  <2>3. ASSUME NEW p \in Held(y) PROVE p \in Held(x) \ {x.slots[i]}
    BY <1>2, <2>2, <2>3 DEF Held
  <2>4. ASSUME NEW p \in Held(x) \ {x.slots[i]} PROVE p \in Held(y)
    <3>1. PICK j \in Occupied(x) : p = x.slots[j] BY <2>4 DEF Held
    <3>2. j \in Occupied(y) BY <1>1, <2>4, <3>1
    <3>3. QED BY <1>2, <3>1, <3>2 DEF Held
  <2>5. QED BY <2>3, <2>4
<1>5. ASSUME x.slots[i] = NULL
      PROVE  Held(y) = Held(x)
  <2>1. Occupied(y) = Occupied(x) BY <1>1, <1>5 DEF Occupied
  <2>2. QED BY <1>2, <2>1 DEF Held
<1>6. QED BY <1>1, <1>3, <1>4, <1>5

\* Iter_Add puts the value above everything and stands on it.
LEMMA AddReel ==
  ASSUME NEW x \in ReelType(Cell), NEW v \in Cell, x.max_idx + 1 \in Indices
  PROVE  LET y == Iter_Add(x, v)
             i == x.max_idx + 1
         IN  /\ y \in ReelType(Cell)
             /\ \A j \in Indices : y.slots[j] = IF j = i THEN v ELSE x.slots[j]
             /\ y.max_idx = i /\ y.idx = i /\ y.value = v
             /\ y.nvalues = IF x.slots[i] = NULL THEN x.nvalues + 1 ELSE x.nvalues
             /\ y.processing = x.processing /\ ~y.end
             /\ Made(y, i)
             /\ \A j \in Indices : Made(x, j) => Made(y, j)
<1> DEFINE i == x.max_idx + 1
           z == Store(x, i, v)
<1>1. /\ z \in ReelType(Cell) /\ z.slots = [x.slots EXCEPT ![i] = v]
      /\ z.max_idx = IF x.max_idx > i THEN x.max_idx ELSE i
      /\ z.nvalues = IF x.slots[i] = NULL THEN x.nvalues + 1 ELSE x.nvalues
      /\ z.processing = x.processing
      /\ Made(z, i) /\ \A j \in Indices : Made(x, j) => Made(z, j)
  BY StoreType
<1>2. z.idx = i /\ z.value = v
  BY DEF Store, ReelType
<1>3. x.max_idx \in Int /\ x.slots \in [Indices -> Cell]
  BY Bounds DEF ReelType
<1>4. z.max_idx = i
  BY <1>1, <1>3
<1>5. \A j \in Indices : z.slots[j] = IF j = i THEN v ELSE x.slots[j]
  BY <1>1, <1>3
<1>6. Iter_Add(x, v) = [z EXCEPT !.end = FALSE]
  BY DEF Iter_Add
<1> HIDE DEF z, i
<1>7. /\ Iter_Add(x, v) \in ReelType(Cell)
      /\ Iter_Add(x, v).slots = z.slots /\ Iter_Add(x, v).max_idx = z.max_idx
      /\ Iter_Add(x, v).idx = z.idx /\ Iter_Add(x, v).value = z.value
      /\ Iter_Add(x, v).nvalues = z.nvalues /\ Iter_Add(x, v).processing = z.processing
      /\ ~Iter_Add(x, v).end
      /\ Iter_Add(x, v).leaves = z.leaves /\ Iter_Add(x, v).dims = z.dims
  BY <1>1, <1>6 DEF ReelType
<1>8. \A j : Made(z, j) => Made(Iter_Add(x, v), j)
  BY <1>7 DEF Made
<1>9. QED BY <1>1, <1>2, <1>4, <1>5, <1>7, <1>8, Bounds DEF i

LEMMA AddLoose ==
  ASSUME NEW x, Loose(x), NEW v \in 0 .. PAGE_MAX, v \notin Held(x),
         x.max_idx + 1 \in Indices
  PROVE  /\ Loose(Iter_Add(x, v))
         /\ Held(Iter_Add(x, v)) = Held(x) \union {v}
         /\ Stack(x) => Stack(Iter_Add(x, v))
<1> DEFINE i == x.max_idx + 1
           y == Iter_Add(x, v)
<1>1. x \in ReelType(Cell) /\ v \in Cell /\ v # NULL
  BY Bounds DEF Loose, Cell
<1>2. x.max_idx \in Int /\ x.nvalues \in Int /\ x.max_idx >= -1
  BY <1>1, Bounds DEF ReelType
<1>3. /\ y \in ReelType(Cell)
      /\ \A j \in Indices : y.slots[j] = IF j = i THEN v ELSE x.slots[j]
      /\ y.max_idx = i /\ y.idx = i /\ y.value = v
      /\ y.nvalues = IF x.slots[i] = NULL THEN x.nvalues + 1 ELSE x.nvalues
      /\ y.processing = x.processing /\ ~y.end
      /\ Made(y, i)
      /\ \A j \in Indices : Made(x, j) => Made(y, j)
  BY <1>1, AddReel
<1> HIDE DEF y
<1>4. \A j \in Occupied(x) : j \in Indices /\ j <= x.max_idx /\ Made(x, j)
  BY DEF Loose, Occupied
<1>5. x.slots[i] = NULL
  <2>1. i \notin Occupied(x) BY <1>2, <1>4
  <2>2. QED BY <2>1 DEF Occupied
<1>6. Uniq(x) BY DEF Loose
<1>7. /\ Occupied(y) = Occupied(x) \union {i}
      /\ Held(y) = Held(x) \union {v}
      /\ Uniq(y)
  BY <1>1, <1>3, <1>5, <1>6, HeldAdd
<1>8. \A j \in Occupied(y) : j <= y.max_idx /\ Made(y, j)
  <2>1. ASSUME NEW j \in Occupied(x) PROVE j <= y.max_idx /\ Made(y, j)
    BY <1>2, <1>3, <1>4, Bounds
  <2>2. i <= y.max_idx /\ Made(y, i)
    BY <1>2, <1>3
  <2>3. QED BY <1>7, <2>1, <2>2
<1>9. i # -1 /\ y.value = y.slots[y.idx] /\ y.idx \in Indices
  BY <1>2, <1>3
<1>10. ~y.processing => y.nvalues = y.max_idx + 1
  BY <1>2, <1>3, <1>5 DEF Loose
<1>11. Loose(y)
  BY <1>3, <1>7, <1>8, <1>9, <1>10 DEF Loose
<1>12. ASSUME Stack(x) PROVE Stack(y)
  <2>1. Occupied(y) = (0 .. x.max_idx) \union {x.max_idx + 1}
    BY <1>7, <1>12 DEF Stack
  <2>2. Occupied(y) = 0 .. y.max_idx
    BY <1>2, <1>3, <2>1
  <2>3. y.nvalues = y.max_idx + 1
    BY <1>2, <1>3, <1>5, <1>12 DEF Stack
  <2>4. QED BY <1>3, <1>11, <2>2, <2>3 DEF Stack
<1>13. QED BY <1>7, <1>11, <1>12 DEF y

\* Iter_Remove empties the slot the Iter stands on.
LEMMA RemoveHere ==
  ASSUME NEW x, Loose(x), x.idx \in Indices
  PROVE  LET y == Iter_Remove(x)
         IN  /\ y \in ReelType(Cell)
             /\ \A j \in Indices : y.slots[j] = IF j = x.idx THEN NULL ELSE x.slots[j]
             /\ y.idx = x.idx /\ y.value = NULL
             /\ y.processing = x.processing /\ y.end = x.end
             /\ y.leaves = x.leaves /\ y.dims = x.dims
             /\ x.slots[x.idx] # NULL =>
                  /\ y.nvalues = x.nvalues - 1
                  /\ y.max_idx = IF x.max_idx = x.idx THEN x.max_idx - 1 ELSE x.max_idx
             /\ \A j \in Occupied(x) : j # x.idx => j <= y.max_idx
<1>1. x \in ReelType(Cell) /\ x.slots \in [Indices -> Cell] /\ x.nvalues \in Int
      /\ x.max_idx \in -1 .. Limit - 1
  BY DEF Loose, ReelType
<1>2. NULL \in Cell /\ Limit \in Nat /\ \A i \in Indices : i \in Int /\ 0 <= i
  BY Bounds
<1>3. \A j \in Occupied(x) : j \in Indices /\ j <= x.max_idx
  BY DEF Loose, Occupied
<1>4. CASE Made(x, x.idx)
  <2> DEFINE top == IF x.max_idx = x.idx THEN x.max_idx - 1 ELSE x.max_idx
             new == [x.slots EXCEPT ![x.idx] = NULL]
             less == x.nvalues - 1
  <2>1. Iter_Remove(x) = [x EXCEPT !.value = NULL, !.slots = new, !.nvalues = less,
                                   !.max_idx = top]
    BY <1>4 DEF Iter_Remove
  <2>2. /\ new \in [Indices -> Cell] /\ top \in -1 .. Limit - 1 /\ less \in Int
        /\ \A j \in Indices : new[j] = IF j = x.idx THEN NULL ELSE x.slots[j]
    BY <1>1, <1>2
  <2>3. \A j \in Occupied(x) : j # x.idx => j <= top
    BY <1>1, <1>2, <1>3
  <2> HIDE DEF top, new, less
  <2>4. /\ Iter_Remove(x) \in ReelType(Cell) /\ Iter_Remove(x).slots = new
        /\ Iter_Remove(x).idx = x.idx /\ Iter_Remove(x).value = NULL
        /\ Iter_Remove(x).processing = x.processing /\ Iter_Remove(x).end = x.end
        /\ Iter_Remove(x).leaves = x.leaves /\ Iter_Remove(x).dims = x.dims
        /\ Iter_Remove(x).nvalues = less /\ Iter_Remove(x).max_idx = top
    BY <1>1, <1>2, <2>1, <2>2 DEF ReelType
  <2>5. QED BY <2>2, <2>3, <2>4 DEF less, top
<1>5. CASE ~Made(x, x.idx)
  <2>1. Iter_Remove(x) = [x EXCEPT !.value = NULL]
    BY <1>5 DEF Iter_Remove
  <2>2. x.slots[x.idx] = NULL
    BY <1>5 DEF Loose, Occupied
  <2>3. /\ Iter_Remove(x) \in ReelType(Cell) /\ Iter_Remove(x).slots = x.slots
        /\ Iter_Remove(x).idx = x.idx /\ Iter_Remove(x).value = NULL
        /\ Iter_Remove(x).processing = x.processing /\ Iter_Remove(x).end = x.end
        /\ Iter_Remove(x).leaves = x.leaves /\ Iter_Remove(x).dims = x.dims
        /\ Iter_Remove(x).max_idx = x.max_idx
    BY <1>1, <1>2, <2>1 DEF ReelType
  <2>4. \A j \in Indices : x.slots[j] = IF j = x.idx THEN NULL ELSE x.slots[j]
    BY <2>2
  <2>5. QED BY <1>3, <2>2, <2>3, <2>4
<1>6. QED BY <1>4, <1>5

\* A removal during a pass, or of the top of a stack.
LEMMA RemoveLoose ==
  ASSUME NEW x, Loose(x), x.idx \in Indices,
         x.processing \/ (x.slots[x.idx] # NULL /\ x.idx = x.max_idx)
  PROVE  LET y == Iter_Remove(x)
         IN  /\ Loose(y)
             /\ x.slots[x.idx] # NULL => Held(y) = Held(x) \ {x.slots[x.idx]}
             /\ x.slots[x.idx] = NULL => Held(y) = Held(x)
             /\ Occupied(y) = Occupied(x) \ {x.idx}
<1> DEFINE y == Iter_Remove(x)
<1>1. /\ y \in ReelType(Cell)
      /\ \A j \in Indices : y.slots[j] = IF j = x.idx THEN NULL ELSE x.slots[j]
      /\ y.idx = x.idx /\ y.value = NULL
      /\ y.processing = x.processing
      /\ y.leaves = x.leaves /\ y.dims = x.dims
      /\ x.slots[x.idx] # NULL =>
           /\ y.nvalues = x.nvalues - 1
           /\ y.max_idx = IF x.max_idx = x.idx THEN x.max_idx - 1 ELSE x.max_idx
      /\ \A j \in Occupied(x) : j # x.idx => j <= y.max_idx
  BY RemoveHere
<1> HIDE DEF y
<1>2. /\ Uniq(x) /\ x.idx \in Indices
      /\ \A j \in Indices : y.slots[j] = IF j = x.idx THEN NULL ELSE x.slots[j]
  BY <1>1 DEF Loose
<1>3. /\ Occupied(y) = Occupied(x) \ {x.idx}
      /\ x.slots[x.idx] # NULL => Held(y) = Held(x) \ {x.slots[x.idx]}
      /\ x.slots[x.idx] = NULL => Held(y) = Held(x)
      /\ Uniq(y)
  BY ONLY <1>2, HeldDel
<1>4. \A j \in Occupied(y) : j <= y.max_idx /\ Made(y, j)
  BY <1>1, <1>3 DEF Loose, Made
<1>5. y.idx # -1 /\ y.value = y.slots[y.idx] /\ y.idx \in Indices
  BY <1>1, Bounds
<1>6. ~y.processing => y.nvalues = y.max_idx + 1
  <2>1. x.nvalues \in Int /\ x.max_idx \in Int
    BY Bounds DEF Loose, ReelType
  <2>2. QED BY <1>1, <2>1 DEF Loose
<1>7. Loose(y)
  BY <1>1, <1>3, <1>4, <1>5, <1>6 DEF Loose
<1>8. QED BY <1>3, <1>7 DEF y

\* Iter_Prev changes nothing but where the Iter stands.
LEMMA PrevReel ==
  ASSUME NEW x, Loose(x)
  PROVE  LET y == Iter_Prev(x)
         IN  /\ Loose(y)
             /\ y.slots = x.slots /\ y.max_idx = x.max_idx /\ y.nvalues = x.nvalues
             /\ ~y.end => y.idx \in Indices /\ y.processing
             /\ x.nvalues = x.max_idx + 1 /\ x.nvalues > 0 /\ ~x.processing
                  => y.idx = x.max_idx
             /\ Occupied(x) = 0 .. x.idx - 1 /\ x.nvalues = x.idx /\ x.idx > 0 /\ x.processing
                  => y.idx = x.idx - 1
<1> DEFINE y == Iter_Prev(x)
<1>1. /\ x \in ReelType(Cell) /\ x.slots \in [Indices -> Cell] /\ x.nvalues \in Int
      /\ x.max_idx \in -1 .. Limit - 1 /\ x.idx \in Int /\ NULL \in Cell
      /\ x.processing \in BOOLEAN
  BY Bounds DEF Loose, ReelType
<1>2. Limit \in Nat /\ -1 \notin Indices
      /\ \A i : i \in Indices <=> i \in Int /\ 0 <= i /\ i < Limit
  BY Bounds
<1>3. ASSUME NEW z, z \in ReelType(Cell), z.slots = x.slots, z.max_idx = x.max_idx,
             z.nvalues = x.nvalues, z.leaves = x.leaves, z.dims = x.dims,
             z.idx \in Indices \union {-1},
             z.idx = -1 => z.end /\ z.nvalues = 0,
             z.idx # -1 => z.value = z.slots[z.idx],
             ~z.processing => z.nvalues = z.max_idx + 1
      PROVE  Loose(z)
  <2>1. Occupied(z) = Occupied(x) BY <1>3 DEF Occupied
  <2>2. \A i \in Occupied(z) : i <= z.max_idx /\ Made(z, i)
    BY <1>3, <2>1 DEF Loose, Made
  <2>3. Uniq(z)
    BY <1>3, <2>1 DEF Loose, Uniq
  <2>4. QED BY <1>3, <2>2, <2>3 DEF Loose
<1>4. CASE x.idx = 0 /\ x.processing
  <2>1. y = [x EXCEPT !.end = TRUE]
    BY <1>1, <1>4 DEF Iter_Prev
  <2>2. /\ y \in ReelType(Cell) /\ y.slots = x.slots /\ y.max_idx = x.max_idx
        /\ y.nvalues = x.nvalues /\ y.leaves = x.leaves /\ y.dims = x.dims
        /\ y.idx = x.idx /\ y.value = x.value /\ y.processing = x.processing /\ y.end
    BY <1>1, <2>1 DEF ReelType
  <2> HIDE DEF y
  <2>3. Loose(y)
    BY <1>3, <1>4, <2>2 DEF Loose
  <2>4. QED BY <1>4, <2>2, <2>3 DEF y
<1>5. CASE ~(x.idx = 0 /\ x.processing) /\ x.nvalues = 0
  <2>1. y = [x EXCEPT !.idx = -1, !.value = NULL, !.end = TRUE]
    BY <1>1, <1>5 DEF Iter_Prev
  <2> DEFINE w == [x EXCEPT !.idx = -1]
             z == [w EXCEPT !.value = NULL]
  <2>2. y = [z EXCEPT !.end = TRUE]
    BY <2>1
  <2> HIDE DEF y
  <2>3. /\ w \in ReelType(Cell) /\ w.slots = x.slots /\ w.max_idx = x.max_idx
        /\ w.nvalues = x.nvalues /\ w.leaves = x.leaves /\ w.dims = x.dims
        /\ w.idx = -1 /\ w.processing = x.processing
    BY <1>1 DEF ReelType
  <2> HIDE DEF w
  <2>4. /\ z \in ReelType(Cell) /\ z.slots = x.slots /\ z.max_idx = x.max_idx
        /\ z.nvalues = x.nvalues /\ z.leaves = x.leaves /\ z.dims = x.dims
        /\ z.idx = -1 /\ z.processing = x.processing
    BY <1>1, <2>3 DEF ReelType
  <2> HIDE DEF z
  <2>5. /\ y \in ReelType(Cell) /\ y.slots = x.slots /\ y.max_idx = x.max_idx
        /\ y.nvalues = x.nvalues /\ y.leaves = x.leaves /\ y.dims = x.dims
        /\ y.idx = -1 /\ y.processing = x.processing /\ y.end
    BY <2>2, <2>4 DEF ReelType
  <2>6. Loose(y)
    BY <1>3, <1>5, <2>5 DEF Loose
  <2>7. QED BY <1>1, <1>5, <2>5, <2>6 DEF y
<1>6. CASE x.nvalues # 0 /\ ~x.processing
  <2> DEFINE w == [x EXCEPT !.value = NULL]
             z == Fetch(w, x.max_idx)
  <2>1. y = [z EXCEPT !.processing = TRUE, !.end = FALSE]
    BY <1>1, <1>6 DEF Iter_Prev
  <2>2. /\ w \in ReelType(Cell) /\ w.slots = x.slots /\ w.max_idx = x.max_idx
        /\ w.nvalues = x.nvalues /\ w.leaves = x.leaves /\ w.dims = x.dims
        /\ w.value = NULL
    BY <1>1 DEF ReelType
  <2>3. x.max_idx \in Indices
    <3>1. x.nvalues = x.max_idx + 1 BY <1>6 DEF Loose
    <3>2. QED BY <1>1, <1>2, <1>6, <3>1
  <2> HIDE DEF w
  <2> DEFINE val == IF Made(w, x.max_idx) THEN w.slots[x.max_idx] ELSE w.value
  <2>4. val = x.slots[x.max_idx]
    <3>1. Made(w, x.max_idx) <=> Made(x, x.max_idx) BY <2>2 DEF Made
    <3>2. ~Made(x, x.max_idx) => x.slots[x.max_idx] = NULL
      BY <2>3 DEF Loose, Occupied
    <3>3. QED BY <2>2, <3>1, <3>2
  <2> DEFINE v == [w EXCEPT !.idx = x.max_idx]
  <2>5. z = [v EXCEPT !.value = val]
    BY DEF Fetch
  <2>6. val \in Cell
    BY <1>1, <2>3, <2>4
  <2>a. /\ v \in ReelType(Cell) /\ v.slots = x.slots /\ v.max_idx = x.max_idx
        /\ v.nvalues = x.nvalues /\ v.leaves = x.leaves /\ v.dims = x.dims
        /\ v.idx = x.max_idx
    BY <1>1, <2>2 DEF ReelType
  <2> HIDE DEF v, val
  <2>7. /\ z \in ReelType(Cell) /\ z.slots = x.slots /\ z.max_idx = x.max_idx
        /\ z.nvalues = x.nvalues /\ z.leaves = x.leaves /\ z.dims = x.dims
        /\ z.idx = x.max_idx /\ z.value = val
    BY <1>1, <2>5, <2>6, <2>a DEF ReelType
  <2> HIDE DEF z
  <2>8. /\ y \in ReelType(Cell) /\ y.slots = x.slots /\ y.max_idx = x.max_idx
        /\ y.nvalues = x.nvalues /\ y.leaves = x.leaves /\ y.dims = x.dims
        /\ y.idx = x.max_idx /\ y.value = val /\ y.processing /\ ~y.end
    BY <2>1, <2>7 DEF ReelType
  <2> HIDE DEF y
  <2>9. Loose(y)
    BY <1>2, <1>3, <2>3, <2>4, <2>8
  <2>10. QED BY <1>6, <2>3, <2>8, <2>9 DEF y
<1>7. CASE x.nvalues # 0 /\ x.processing /\ x.idx # 0
  <2>1. y = [StepDown(x) EXCEPT !.end = FALSE]
    BY <1>1, <1>7 DEF Iter_Prev
  <2>2. x.idx \in Indices /\ x.idx > 0
    BY <1>2, <1>7 DEF Loose
  <2>3. \E i \in Indices :
          /\ StepDown(x) = [x EXCEPT !.idx = i, !.value = x.slots[i]]
          /\ Occupied(x) = 0 .. x.idx - 1 => i = x.idx - 1
    <3>1. CASE x.dims = 0
      <4>1. x.idx - 1 \in Indices BY <1>2, <2>2
      <4>2. StepDown(x) = [x EXCEPT !.idx = x.idx - 1, !.value = x.slots[x.idx - 1]]
        BY <3>1 DEF StepDown
      <4>3. QED BY <4>1, <4>2
    <3>2. CASE x.dims # 0
      <4> DEFINE below == {i \in Occupied(x) : i < x.idx}
      <4>1. CASE below = {}
        <5>1. StepDown(x) = [x EXCEPT !.idx = 0, !.value = NULL]
          BY <3>2, <4>1 DEF StepDown
        <5>2. 0 \in Indices BY <1>2, <2>2
        <5>3. 0 \notin Occupied(x)
          <6>1. 0 \notin below BY <4>1
          <6>2. QED BY <2>2, <6>1
        <5>4. x.slots[0] = NULL BY <5>2, <5>3 DEF Occupied
        <5>5. Occupied(x) # 0 .. x.idx - 1
          BY <1>1, <2>2, <5>3
        <5>6. QED BY <5>1, <5>2, <5>4, <5>5
      <4>2. CASE below # {}
        <5> DEFINE top == CHOOSE i \in below : \A j \in below : j <= i
        <5>1. StepDown(x) = [x EXCEPT !.idx = top, !.value = x.slots[top]]
          BY <3>2, <4>2 DEF StepDown
        <5>2. below \subseteq Nat /\ x.idx \in Nat /\ \A i \in below : i <= x.idx
          BY <1>2, <2>2 DEF Occupied
        <5>3. \E i \in below : \A j \in below : j <= i
          BY ONLY <4>2, <5>2, GreatestExists
        <5>4. top \in below /\ \A j \in below : j <= top
          BY <5>3
        <5> HIDE DEF top
        <5>5. top \in Indices BY <5>4 DEF Occupied
        <5>6. ASSUME Occupied(x) = 0 .. x.idx - 1 PROVE top = x.idx - 1
          <6>1. x.idx - 1 \in below BY <2>2, <5>2, <5>6
          <6>2. QED BY <1>1, <5>2, <5>4, <6>1
        <5>7. QED BY <5>1, <5>5, <5>6
      <4>3. QED BY <4>1, <4>2
    <3>3. QED BY <3>1, <3>2
  <2>4. PICK i \in Indices :
          /\ StepDown(x) = [x EXCEPT !.idx = i, !.value = x.slots[i]]
          /\ Occupied(x) = 0 .. x.idx - 1 => i = x.idx - 1
    BY <2>3
  <2> DEFINE z == StepDown(x)
  <2>5. x.slots[i] \in Cell /\ i \in Int
    BY <1>1, <1>2
  <2>6. /\ z \in ReelType(Cell) /\ z.slots = x.slots /\ z.max_idx = x.max_idx
        /\ z.nvalues = x.nvalues /\ z.leaves = x.leaves /\ z.dims = x.dims
        /\ z.idx = i /\ z.value = x.slots[i] /\ z.processing = x.processing
    BY <1>1, <2>4, <2>5 DEF ReelType
  <2> HIDE DEF z
  <2>7. y = [z EXCEPT !.end = FALSE]
    BY <2>1 DEF z
  <2>8. /\ y \in ReelType(Cell) /\ y.slots = x.slots /\ y.max_idx = x.max_idx
        /\ y.nvalues = x.nvalues /\ y.leaves = x.leaves /\ y.dims = x.dims
        /\ y.idx = i /\ y.value = x.slots[i] /\ y.processing /\ ~y.end
    BY <1>7, <2>6, <2>7 DEF ReelType
  <2> HIDE DEF y
  <2>9. Loose(y)
    BY <1>2, <1>3, <2>8
  <2>10. QED BY <1>7, <2>4, <2>8, <2>9 DEF y
<1>8. QED BY <1>1, <1>4, <1>5, <1>6, <1>7

\* Iter_Remove and Iter_Prev as GetPage calls them take the top off a stack.
LEMMA PopStack ==
  ASSUME NEW x, Stack(x), x.nvalues > 0
  PROVE  LET y == Iter_Prev(Iter_Remove(x))
         IN  /\ Stack(y)
             /\ x.value \in Held(x) /\ x.value # NULL
             /\ Held(y) = Held(x) \ {x.value}
<1> DEFINE w == Iter_Remove(x)
           y == Iter_Prev(w)
<1>1. /\ Loose(x) /\ x.idx = x.max_idx /\ x.nvalues = x.max_idx + 1
      /\ Occupied(x) = 0 .. x.max_idx
  BY DEF Stack
<1>2. x.max_idx \in Int /\ x.max_idx >= 0 /\ x.nvalues \in Int /\ x.processing \in BOOLEAN
  <2>1. x.max_idx \in Int /\ x.processing \in BOOLEAN /\ x.nvalues \in Int
    BY Bounds DEF Stack, Loose, ReelType
  <2>2. QED BY <1>1, <2>1
<1>3. x.idx \in Occupied(x) /\ x.idx \in Indices /\ x.slots[x.idx] # NULL
  <2>1. x.idx \in Occupied(x) BY <1>1, <1>2
  <2>2. QED BY <2>1 DEF Occupied
<1>4. x.value = x.slots[x.idx]
  BY <1>1, <1>2 DEF Loose
<1>5. x.value \in Held(x)
  BY <1>3, <1>4 DEF Held
<1>6. /\ w.idx = x.idx /\ w.processing = x.processing
      /\ w.nvalues = x.nvalues - 1
      /\ w.max_idx = IF x.max_idx = x.idx THEN x.max_idx - 1 ELSE x.max_idx
  BY <1>1, <1>3, RemoveHere
<1>7. /\ Loose(w) /\ Occupied(w) = Occupied(x) \ {x.idx}
      /\ Held(w) = Held(x) \ {x.value}
  BY <1>1, <1>3, <1>4, RemoveLoose
<1> HIDE DEF w
<1>8. /\ Loose(y)
      /\ y.slots = w.slots /\ y.max_idx = w.max_idx /\ y.nvalues = w.nvalues
      /\ w.nvalues = w.max_idx + 1 /\ w.nvalues > 0 /\ ~w.processing
           => y.idx = w.max_idx
      /\ Occupied(w) = 0 .. w.idx - 1 /\ w.nvalues = w.idx /\ w.idx > 0 /\ w.processing
           => y.idx = w.idx - 1
  BY <1>7, PrevReel
<1> HIDE DEF y
<1>9. Occupied(w) = 0 .. w.idx - 1
  BY <1>1, <1>2, <1>6, <1>7
<1>10. Occupied(y) = Occupied(w) /\ Held(y) = Held(w)
  BY <1>8 DEF Occupied, Held
<1>11. y.nvalues = y.max_idx + 1 /\ Occupied(y) = 0 .. y.max_idx
  BY <1>1, <1>2, <1>6, <1>8, <1>9, <1>10
<1>12. y.nvalues > 0 => y.idx = y.max_idx
  BY <1>1, <1>2, <1>6, <1>8, <1>9
<1>13. Stack(y)
  BY <1>8, <1>11, <1>12 DEF Stack
<1>14. QED BY <1>3, <1>4, <1>5, <1>7, <1>10, <1>13 DEF w, y
-----------------------------------------------------------------------------
(* "retired" between two wipes: the pages added to it follow one another up *)
(* to max_idx, and it counts all of them or all but one.  When none was    *)
(* added since the last wipe, at most one waits there, on top, and the     *)
(* Iter stands where the wipe ended.                                       *)
Filled(x) ==
  /\ x.nvalues >= 0
  /\ \E lo \in 0 .. x.max_idx + 1 :
       /\ Occupied(x) = lo .. x.max_idx
       /\ x.nvalues \in {x.max_idx - lo, x.max_idx - lo + 1}
       /\ x.processing \/ lo = 0
       /\ x.idx = x.max_idx \/ (x.idx \in {-1, 0} /\ x.max_idx <= lo)

Settled(x) == Filled(x) /\ Occupied(x) \subseteq {x.max_idx}

(* ... and during one.  The first wipe removes the top at every pass; the   *)
(* others begin below the top, which stays, and what is left to remove     *)
(* ends where the Iter stands.                                             *)
FromTop(x) ==
  x.idx = x.max_idx /\ Occupied(x) = 0 .. x.max_idx /\ x.nvalues = x.max_idx + 1

BelowTop(x) ==
  /\ x.idx < x.max_idx
  /\ \E lo \in 0 .. x.max_idx :
       /\ Occupied(x) = (lo .. x.idx) \union {x.max_idx}
       /\ x.nvalues \in {Higher(x.idx - lo + 1, 0), Higher(x.idx - lo + 1, 0) + 1}

Draining(x) ==
  x.processing /\ x.idx \in Indices /\ x.nvalues > 0 /\ (FromTop(x) \/ BelowTop(x))

\* Where Iter_Prev goes.
LEMMA PrevStands ==
  ASSUME NEW x, Loose(x)
  PROVE  LET y == Iter_Prev(x)
         IN  /\ x.idx = 0 /\ x.processing => y.end /\ y.idx = 0 /\ y.processing
             /\ ~(x.idx = 0 /\ x.processing) /\ x.nvalues = 0
                  => y.end /\ y.idx = -1 /\ y.processing = x.processing
             /\ x.nvalues # 0 /\ ~x.processing => ~y.end /\ y.processing /\ y.idx = x.max_idx
             /\ x.nvalues # 0 /\ x.processing /\ x.idx # 0 =>
                  /\ ~y.end /\ y.processing /\ y.idx \in 0 .. x.idx - 1
                  /\ y.idx = x.idx - 1 \/ ((\A i \in Occupied(x) : i < x.idx => i <= y.idx)
                                             /\ (y.idx = 0 \/ y.idx \in Occupied(x)))
<1> DEFINE y == Iter_Prev(x)
<1>1. /\ x \in ReelType(Cell) /\ x.nvalues \in Int /\ x.max_idx \in -1 .. Limit - 1
      /\ x.idx \in Indices \union {-1} /\ x.processing \in BOOLEAN
      /\ x.idx = -1 => x.nvalues = 0
  BY DEF Loose, ReelType
<1>2. \A i : i \in Indices <=> i \in Int /\ 0 <= i /\ i < Limit
  BY Bounds
<1>3. CASE x.idx = 0 /\ x.processing
  <2>1. y = [x EXCEPT !.end = TRUE] BY <1>1, <1>3 DEF Iter_Prev
  <2>2. y.end /\ y.idx = x.idx /\ y.processing = x.processing BY <1>1, <2>1 DEF ReelType
  <2>3. QED BY <1>3, <2>2
<1>4. CASE ~(x.idx = 0 /\ x.processing) /\ x.nvalues = 0
  <2>1. y = [x EXCEPT !.idx = -1, !.value = NULL, !.end = TRUE]
    BY <1>1, <1>4 DEF Iter_Prev
  <2>2. y.end /\ y.idx = -1 /\ y.processing = x.processing BY <1>1, <2>1 DEF ReelType
  <2>3. QED BY <1>4, <2>2
<1>5. CASE x.nvalues # 0 /\ ~x.processing
  <2> DEFINE w == [x EXCEPT !.value = NULL]
             val == IF Made(w, x.max_idx) THEN w.slots[x.max_idx] ELSE w.value
  <2>1. y = [Fetch(w, x.max_idx) EXCEPT !.processing = TRUE, !.end = FALSE]
    BY <1>1, <1>5 DEF Iter_Prev
  <2>2. Fetch(w, x.max_idx) = [w EXCEPT !.idx = x.max_idx, !.value = val]
    BY DEF Fetch
  <2> HIDE DEF val
  <2>3. y = [x EXCEPT !.value = val, !.idx = x.max_idx, !.processing = TRUE, !.end = FALSE]
    BY <1>1, <2>1, <2>2 DEF ReelType
  <2> HIDE DEF y
  <2>4. ~y.end /\ y.processing /\ y.idx = x.max_idx BY <1>1, <2>3 DEF ReelType
  <2>5. QED BY <1>5, <2>4 DEF y
<1>6. CASE x.nvalues # 0 /\ x.processing /\ x.idx # 0
  <2>1. y = [StepDown(x) EXCEPT !.end = FALSE] BY <1>1, <1>6 DEF Iter_Prev
  <2>2. x.idx \in Int /\ x.idx > 0 BY <1>1, <1>2, <1>6
  <2>3. \E i \in 0 .. x.idx - 1 : \E v :
          /\ StepDown(x) = [x EXCEPT !.idx = i, !.value = v]
          /\ i = x.idx - 1 \/ ((\A k \in Occupied(x) : k < x.idx => k <= i)
                                 /\ (i = 0 \/ i \in Occupied(x)))
    <3>1. CASE x.dims = 0
      <4>1. StepDown(x) = [x EXCEPT !.idx = x.idx - 1, !.value = x.slots[x.idx - 1]]
        BY <3>1 DEF StepDown
      <4>2. x.idx - 1 \in 0 .. x.idx - 1 BY <2>2
      <4>3. QED BY <4>1, <4>2
    <3>2. CASE x.dims # 0
      <4> DEFINE below == {k \in Occupied(x) : k < x.idx}
      <4>1. CASE below = {}
        <5>1. StepDown(x) = [x EXCEPT !.idx = 0, !.value = NULL]
          BY <3>2, <4>1 DEF StepDown
        <5>2. 0 \in 0 .. x.idx - 1 BY <2>2
        <5>3. QED BY <4>1, <5>1, <5>2
      <4>2. CASE below # {}
        <5> DEFINE top == CHOOSE k \in below : \A j \in below : j <= k
        <5>1. StepDown(x) = [x EXCEPT !.idx = top, !.value = x.slots[top]]
          BY <3>2, <4>2 DEF StepDown
        <5>2. below \subseteq Nat /\ x.idx \in Nat /\ \A k \in below : k <= x.idx
          BY <1>2, <2>2 DEF Occupied
        <5>a. \E k \in below : \A j \in below : j <= k
          BY ONLY <4>2, <5>2, GreatestExists
        <5>3. top \in below /\ \A j \in below : j <= top
          BY <5>a
        <5> HIDE DEF top
        <5>4. top \in 0 .. x.idx - 1 BY <2>2, <5>2, <5>3
        <5>5. QED BY <5>1, <5>3, <5>4
      <4>3. QED BY <4>1, <4>2
    <3>3. QED BY <3>1, <3>2
  <2>4. PICK i, v :
          /\ i \in 0 .. x.idx - 1
          /\ StepDown(x) = [x EXCEPT !.idx = i, !.value = v]
          /\ i = x.idx - 1 \/ ((\A k \in Occupied(x) : k < x.idx => k <= i)
                                 /\ (i = 0 \/ i \in Occupied(x)))
    BY <2>3
  <2> HIDE DEF y
  <2>5. ~y.end /\ y.processing = x.processing /\ y.idx = i
    BY <1>1, <2>1, <2>4 DEF ReelType
  <2>6. QED BY <1>6, <2>4, <2>5 DEF y
<1>7. QED BY <1>3, <1>4, <1>5, <1>6

\* What Iter_Remove does to the counts when it may stand on an empty slot.
LEMMA RemoveCounts ==
  ASSUME NEW x, Loose(x), x.idx \in Indices, x.processing
  PROVE  LET u == Iter_Remove(x)
         IN  /\ Loose(u) /\ Occupied(u) = Occupied(x) \ {x.idx}
             /\ u.idx = x.idx /\ u.processing
             /\ u.nvalues \in {x.nvalues, x.nvalues - 1}
             /\ x.idx \in Occupied(x) => u.nvalues = x.nvalues - 1
             /\ x.idx # x.max_idx => u.max_idx = x.max_idx
             /\ x.idx \in Occupied(x) /\ x.idx = x.max_idx => u.max_idx = x.max_idx - 1
<1> DEFINE u == Iter_Remove(x)
<1>1. /\ u.idx = x.idx /\ u.processing = x.processing
      /\ x.slots[x.idx] # NULL =>
           /\ u.nvalues = x.nvalues - 1
           /\ u.max_idx = IF x.max_idx = x.idx THEN x.max_idx - 1 ELSE x.max_idx
  BY RemoveHere
<1>2. Loose(u) /\ Occupied(u) = Occupied(x) \ {x.idx}
  <2>1. Loose(x) /\ x.idx \in Indices
        /\ (x.processing \/ (x.slots[x.idx] # NULL /\ x.idx = x.max_idx))
    OBVIOUS
  <2>2. QED BY ONLY <2>1, RemoveLoose
<1>3. x \in ReelType(Cell) BY DEF Loose
<1>4. u.nvalues \in {x.nvalues, x.nvalues - 1} /\ (x.idx # x.max_idx => u.max_idx = x.max_idx)
  <2>1. CASE Made(x, x.idx)
    <3> DEFINE top == IF x.max_idx = x.idx THEN x.max_idx - 1 ELSE x.max_idx
               new == [x.slots EXCEPT ![x.idx] = NULL]
               less == x.nvalues - 1
    <3>1. u = [x EXCEPT !.value = NULL, !.slots = new, !.nvalues = less, !.max_idx = top]
      BY <2>1 DEF Iter_Remove
    <3> HIDE DEF new, less, top, u
    <3>2. u.nvalues = less /\ u.max_idx = top BY <1>3, <3>1 DEF ReelType
    <3>3. QED BY <3>2 DEF less, top
  <2>2. CASE ~Made(x, x.idx)
    <3>1. u = [x EXCEPT !.value = NULL] BY <2>2 DEF Iter_Remove
    <3> HIDE DEF u
    <3>2. u.nvalues = x.nvalues /\ u.max_idx = x.max_idx BY <1>3, <3>1 DEF ReelType
    <3>3. QED BY <3>2
  <2>3. QED BY <2>1, <2>2
<1>5. x.idx \in Occupied(x) => x.slots[x.idx] # NULL BY DEF Occupied
<1> HIDE DEF u
<1>6. QED BY <1>1, <1>2, <1>4, <1>5 DEF u

\* A page added follows the others.
LEMMA AddFilled ==
  ASSUME NEW x, Loose(x), Filled(x), NEW v \in 0 .. PAGE_MAX, v \notin Held(x),
         x.max_idx + 1 \in Indices
  PROVE  Filled(Iter_Add(x, v))
<1> DEFINE i == x.max_idx + 1
           y == Iter_Add(x, v)
<1>1. x \in ReelType(Cell) /\ v \in Cell /\ v # NULL
  BY Bounds DEF Loose, Cell
<1>2. x.max_idx \in Int /\ x.nvalues \in Int /\ x.max_idx >= -1
  BY <1>1, Bounds DEF ReelType
<1>3. /\ \A j \in Indices : y.slots[j] = IF j = i THEN v ELSE x.slots[j]
      /\ y.max_idx = i /\ y.idx = i
      /\ y.nvalues = IF x.slots[i] = NULL THEN x.nvalues + 1 ELSE x.nvalues
      /\ y.processing = x.processing
  BY <1>1, AddReel
<1> HIDE DEF y
<1>4. PICK lo \in 0 .. x.max_idx + 1 :
        /\ Occupied(x) = lo .. x.max_idx
        /\ x.nvalues \in {x.max_idx - lo, x.max_idx - lo + 1}
        /\ x.processing \/ lo = 0
  BY DEF Filled
<1>5. i \notin Occupied(x) /\ i \in Indices BY <1>2, <1>4
<1>6. x.slots[i] = NULL BY <1>5 DEF Occupied
<1>7. Occupied(y) = Occupied(x) \union {i}
  BY <1>1, <1>3, <1>5 DEF Occupied
<1>8. Occupied(y) = lo .. i BY <1>2, <1>4, <1>7
<1>9. lo \in 0 .. i + 1 /\ y.nvalues \in {i - lo, i - lo + 1} /\ y.nvalues >= 0
  <2>1. y.nvalues = x.nvalues + 1 BY <1>3, <1>6
  <2>2. x.nvalues >= 0 BY DEF Filled
  <2>3. lo \in Int /\ lo >= 0 /\ lo <= i BY <1>2, <1>4
  <2>4. QED BY <1>2, <1>4, <2>1, <2>2, <2>3
<1>10. QED BY <1>3, <1>4, <1>8, <1>9 DEF Filled, y

\* The Iter_Prev before the first pass ...
LEMMA PrevFilled ==
  ASSUME NEW x, Loose(x), Filled(x)
  PROVE  LET y == Iter_Prev(x)
         IN  /\ y.end => Settled(y)
             /\ ~y.end => Draining(y)
<1> DEFINE y == Iter_Prev(x)
<1>1. Loose(y) /\ y.slots = x.slots /\ y.max_idx = x.max_idx /\ y.nvalues = x.nvalues
  BY PrevReel
<1>2. /\ x.idx = 0 /\ x.processing => y.end /\ y.idx = 0 /\ y.processing
      /\ ~(x.idx = 0 /\ x.processing) /\ x.nvalues = 0
           => y.end /\ y.idx = -1 /\ y.processing = x.processing
      /\ x.nvalues # 0 /\ ~x.processing => ~y.end /\ y.processing /\ y.idx = x.max_idx
      /\ x.nvalues # 0 /\ x.processing /\ x.idx # 0 =>
           /\ ~y.end /\ y.processing /\ y.idx \in 0 .. x.idx - 1
           /\ y.idx = x.idx - 1 \/ ((\A i \in Occupied(x) : i < x.idx => i <= y.idx)
                                      /\ (y.idx = 0 \/ y.idx \in Occupied(x)))
  BY PrevStands
<1> HIDE DEF y
<1>3. Occupied(y) = Occupied(x) BY <1>1 DEF Occupied
<1>4. /\ x.max_idx \in -1 .. Limit - 1 /\ x.nvalues \in Int /\ Limit \in Nat
      /\ x.idx \in Int /\ x.processing \in BOOLEAN
  BY Bounds DEF Loose, ReelType
<1>5. PICK lo \in 0 .. x.max_idx + 1 :
        /\ Occupied(x) = lo .. x.max_idx
        /\ x.nvalues \in {x.max_idx - lo, x.max_idx - lo + 1}
        /\ x.processing \/ lo = 0
        /\ x.idx = x.max_idx \/ (x.idx \in {-1, 0} /\ x.max_idx <= lo)
  BY DEF Filled
<1>6. x.nvalues >= 0 BY DEF Filled
<1>7. ASSUME x.max_idx <= lo, y.idx \in {-1, 0}, y.processing = x.processing
      PROVE  Settled(y)
  <2>1. Occupied(y) \subseteq {y.max_idx} BY <1>1, <1>3, <1>4, <1>5, <1>7
  <2>2. Filled(y) BY <1>1, <1>3, <1>5, <1>6, <1>7 DEF Filled
  <2>3. QED BY <2>1, <2>2 DEF Settled
<1>8. CASE x.idx = 0 /\ x.processing
  <2>1. x.max_idx <= lo BY <1>4, <1>5, <1>8
  <2>2. QED BY <1>2, <1>7, <1>8, <2>1 DEF y
<1>9. CASE ~(x.idx = 0 /\ x.processing) /\ x.nvalues = 0
  <2>1. x.max_idx <= lo BY <1>4, <1>5, <1>9
  <2>2. QED BY <1>2, <1>7, <1>9, <2>1 DEF y
<1>10. CASE x.nvalues # 0 /\ ~x.processing
  <2>1. lo = 0 /\ ~y.end /\ y.processing /\ y.idx = x.max_idx BY <1>2, <1>5, <1>10
  <2>2. x.nvalues = x.max_idx + 1 BY <1>10 DEF Loose
  <2>3. FromTop(y) BY <1>1, <1>3, <1>5, <2>1, <2>2 DEF FromTop
  <2>4. y.idx \in Indices BY <1>4, <1>6, <1>10, <2>1, <2>2, Bounds
  <2>5. y.nvalues > 0 BY <1>1, <1>4, <1>6, <1>10
  <2>6. QED BY <2>1, <2>3, <2>4, <2>5 DEF Draining, y
<1>11. CASE x.nvalues # 0 /\ x.processing /\ x.idx # 0
  <2>1. /\ ~y.end /\ y.processing /\ y.idx \in 0 .. x.idx - 1
        /\ y.idx = x.idx - 1 \/ ((\A i \in Occupied(x) : i < x.idx => i <= y.idx)
                                   /\ (y.idx = 0 \/ y.idx \in Occupied(x)))
    BY <1>2, <1>11
  <2>2. x.idx = x.max_idx /\ x.max_idx > 0
    <3>1. x.idx = -1 => x.nvalues = 0 BY DEF Loose
    <3>2. QED BY <1>4, <1>5, <1>11, <3>1
  <2>3. y.idx < y.max_idx /\ y.idx \in Indices /\ y.idx \in Int
    BY <1>1, <1>4, <2>1, <2>2, Bounds
  <2>4. lo <= x.max_idx BY <1>4, <1>5, <1>6, <1>11
  <2>5. CASE lo = x.max_idx
    <3>1. Occupied(y) = (x.max_idx .. y.idx) \union {y.max_idx}
      BY <1>1, <1>3, <1>4, <1>5, <2>3, <2>5
    <3>2. x.max_idx \in 0 .. y.max_idx /\ Higher(y.idx - x.max_idx + 1, 0) = 0
      BY <1>1, <1>4, <2>2, <2>3 DEF Higher
    <3>3. y.nvalues \in {0, 1} BY <1>1, <1>4, <1>5, <2>5
    <3>4. BelowTop(y) BY <2>3, <3>1, <3>2, <3>3 DEF BelowTop
    <3>5. QED BY <1>1, <1>4, <1>6, <1>11, <2>1, <2>3, <3>4 DEF Draining, y
  <2>6. CASE lo < x.max_idx
    <3>1. y.idx = x.max_idx - 1
      <4>1. x.max_idx - 1 \in Occupied(x) BY <1>4, <1>5, <2>6
      <4>2. QED BY <1>4, <2>1, <2>2, <4>1
    <3>2. Occupied(y) = (lo .. y.idx) \union {y.max_idx}
      BY <1>1, <1>3, <1>4, <1>5, <2>6, <3>1
    <3>3. Higher(y.idx - lo + 1, 0) = x.max_idx - lo
      BY <1>4, <2>6, <3>1 DEF Higher
    <3>4. BelowTop(y) BY <1>1, <1>5, <2>3, <2>4, <3>2, <3>3 DEF BelowTop
    <3>5. QED BY <1>1, <1>4, <1>6, <1>11, <2>1, <2>3, <3>4 DEF Draining, y
  <2>7. QED BY <1>4, <2>4, <2>5, <2>6
<1>12. QED BY <1>8, <1>9, <1>10, <1>11

\* ... and what each pass leaves, one place lower than the one before.
LEMMA PassDrains ==
  ASSUME NEW x, Loose(x), Draining(x)
  PROVE  LET y == Iter_Prev(Iter_Remove(x))
         IN  /\ y.end => Settled(y)
             /\ ~y.end => Draining(y) /\ y.idx < x.idx
<1> DEFINE u == Iter_Remove(x)
           y == Iter_Prev(u)
<1>1. x.idx \in Indices /\ x.processing BY DEF Draining
<1>2. /\ Loose(u) /\ Occupied(u) = Occupied(x) \ {x.idx}
      /\ u.idx = x.idx /\ u.processing
      /\ u.nvalues \in {x.nvalues, x.nvalues - 1}
      /\ x.idx \in Occupied(x) => u.nvalues = x.nvalues - 1
      /\ x.idx # x.max_idx => u.max_idx = x.max_idx
      /\ x.idx \in Occupied(x) /\ x.idx = x.max_idx => u.max_idx = x.max_idx - 1
  BY <1>1, RemoveCounts
<1> HIDE DEF u
<1>3. y.slots = u.slots /\ y.max_idx = u.max_idx /\ y.nvalues = u.nvalues
  BY <1>2, PrevReel
<1>4. /\ u.idx = 0 => y.end /\ y.idx = 0 /\ y.processing
      /\ u.idx # 0 /\ u.nvalues = 0 => y.end /\ y.idx = -1 /\ y.processing
      /\ u.nvalues # 0 /\ u.idx # 0 =>
           /\ ~y.end /\ y.processing /\ y.idx \in 0 .. u.idx - 1
           /\ y.idx = u.idx - 1 \/ ((\A i \in Occupied(u) : i < u.idx => i <= y.idx)
                                      /\ (y.idx = 0 \/ y.idx \in Occupied(u)))
  BY <1>2, PrevStands
<1> HIDE DEF y
<1>5. Occupied(y) = Occupied(u) BY <1>3 DEF Occupied
<1>6. /\ x.max_idx \in -1 .. Limit - 1 /\ x.nvalues \in Int /\ Limit \in Nat
      /\ x.idx \in Int /\ x.idx >= 0 /\ x.idx < Limit
  BY <1>1, Bounds DEF Loose, ReelType
<1>7. x.nvalues > 0 BY DEF Draining
<1>8. y.idx \in 0 .. x.idx - 1 => y.idx \in Indices /\ y.idx < x.idx
  BY <1>6, Bounds
<1>9. CASE FromTop(x)
  <2>1. x.idx = x.max_idx /\ Occupied(x) = 0 .. x.max_idx /\ x.nvalues = x.max_idx + 1
    BY <1>9 DEF FromTop
  <2>2. x.idx \in Occupied(x) BY <1>6, <2>1
  <2>3. u.nvalues = x.max_idx /\ u.max_idx = x.max_idx - 1 BY <1>2, <1>6, <2>1, <2>2
  <2>4. Occupied(y) = 0 .. y.max_idx BY <1>2, <1>3, <1>5, <1>6, <2>1, <2>3
  <2>5. CASE u.idx = 0
    <3>1. y.max_idx = -1 /\ y.nvalues = 0 BY <1>2, <1>3, <2>1, <2>3, <2>5
    <3>2. Occupied(y) = {} BY <2>4, <3>1
    <3>3. y.end /\ y.idx = 0 /\ y.processing BY <1>4, <2>5
    <3>4. 0 \in 0 .. y.max_idx + 1 /\ Occupied(y) = 0 .. y.max_idx
          /\ y.nvalues \in {y.max_idx - 0, y.max_idx - 0 + 1}
          /\ y.max_idx <= 0 /\ y.nvalues >= 0
      BY <2>4, <3>1
    <3>5. Filled(y) BY <3>3, <3>4 DEF Filled
    <3>6. QED BY <3>2, <3>3, <3>5 DEF Settled, u, y
  <2>6. CASE u.idx # 0
    <3>1. u.nvalues # 0 /\ u.nvalues > 0 BY <1>2, <1>6, <2>1, <2>3, <2>6
    <3>2. /\ ~y.end /\ y.processing /\ y.idx \in 0 .. u.idx - 1
          /\ y.idx = u.idx - 1 \/ ((\A i \in Occupied(u) : i < u.idx => i <= y.idx)
                                     /\ (y.idx = 0 \/ y.idx \in Occupied(u)))
      BY <1>4, <2>6, <3>1
    <3>3. x.max_idx - 1 \in Occupied(u) BY <1>2, <1>6, <2>1, <2>6
    <3>4. y.idx = x.max_idx - 1
      <4>1. x.max_idx - 1 < u.idx /\ u.idx = x.max_idx BY <1>2, <1>6, <2>1
      <4>2. y.idx = u.idx - 1 \/ x.max_idx - 1 <= y.idx BY <3>2, <3>3, <4>1
      <4>3. QED BY <1>6, <3>2, <4>1, <4>2
    <3>5. FromTop(y) BY <1>3, <1>6, <2>3, <2>4, <3>4 DEF FromTop
    <3>6. y.idx \in Indices /\ y.idx < x.idx
      <4>1. y.idx \in 0 .. x.idx - 1 BY <1>2, <3>2
      <4>2. QED BY <1>8, <4>1
    <3>7. Draining(y) BY <1>3, <3>1, <3>2, <3>5, <3>6 DEF Draining
    <3>8. QED BY <3>2, <3>6, <3>7 DEF u, y
  <2>7. QED BY <2>5, <2>6
<1>10. CASE BelowTop(x)
  <2>1. x.idx < x.max_idx BY <1>10 DEF BelowTop
  <2>2. PICK lo \in 0 .. x.max_idx :
          /\ Occupied(x) = (lo .. x.idx) \union {x.max_idx}
          /\ x.nvalues \in {Higher(x.idx - lo + 1, 0), Higher(x.idx - lo + 1, 0) + 1}
    BY <1>10 DEF BelowTop
  <2>3. lo \in Int /\ lo >= 0 /\ lo <= x.max_idx /\ x.max_idx \in Int BY <1>6
  <2>4. y.max_idx = x.max_idx /\ u.max_idx = x.max_idx BY <1>2, <1>3, <1>6, <2>1
  <2>5. Occupied(y) = (lo .. x.idx - 1) \union {x.max_idx}
    <3>1. (lo .. x.idx) \ {x.idx} = lo .. x.idx - 1 BY <1>6, <2>3
    <3>2. QED BY <1>2, <1>5, <1>6, <2>1, <2>2, <3>1
  <2>6. y.nvalues \in {Higher(x.idx - lo, 0), Higher(x.idx - lo, 0) + 1}
    <3>1. CASE lo <= x.idx
      <4>1. x.idx \in Occupied(x) BY <1>6, <2>2, <2>3, <3>1
      <4>2. y.nvalues = x.nvalues - 1 BY <1>2, <1>3, <4>1
      <4>3. x.nvalues \in {x.idx - lo + 1, x.idx - lo + 2}
        BY <1>6, <2>2, <2>3, <3>1 DEF Higher
      <4>4. Higher(x.idx - lo, 0) = x.idx - lo BY <1>6, <2>3, <3>1 DEF Higher
      <4>5. QED BY <1>6, <2>3, <4>2, <4>3, <4>4
    <3>2. CASE lo > x.idx
      <4>1. x.nvalues = 1 BY <1>6, <1>7, <2>2, <2>3, <3>2 DEF Higher
      <4>2. Higher(x.idx - lo, 0) = 0 BY <1>6, <2>3, <3>2 DEF Higher
      <4>3. QED BY <1>2, <1>3, <4>1, <4>2
    <3>3. QED BY <1>6, <2>3, <3>1, <3>2
  <2>7. y.nvalues \in Int /\ y.nvalues >= 0
    <3>1. Higher(x.idx - lo, 0) \in Int /\ Higher(x.idx - lo, 0) >= 0
      BY <1>6, <2>3 DEF Higher
    <3>2. QED BY <2>6, <3>1
  <2>8. ASSUME x.idx = 0 \/ y.nvalues = 0, y.idx \in {-1, 0}, y.processing
        PROVE  Settled(y)
    <3>1. x.idx - 1 < lo
      <4>1. CASE x.idx = 0 BY <2>3, <4>1
      <4>2. CASE y.nvalues = 0
        <5>1. Higher(x.idx - lo, 0) <= 0
          <6>1. Higher(x.idx - lo, 0) \in Int BY <1>6, <2>3 DEF Higher
          <6>2. QED BY <2>6, <4>2, <6>1
        <5>2. QED BY <1>6, <2>3, <5>1 DEF Higher
      <4>3. QED BY <2>8, <4>1, <4>2
    <3>2. Occupied(y) = {x.max_idx}
      <4>1. lo .. x.idx - 1 = {} BY <1>6, <2>3, <3>1
      <4>2. QED BY <2>5, <4>1
    <3>3. {x.max_idx} = x.max_idx .. y.max_idx BY <2>3, <2>4
    <3>4. y.nvalues \in {0, 1}
      <4>1. Higher(x.idx - lo, 0) = 0 BY <1>6, <2>3, <3>1 DEF Higher
      <4>2. QED BY <2>6, <4>1
    <3>5. x.max_idx \in 0 .. y.max_idx + 1
          /\ y.nvalues \in {y.max_idx - x.max_idx, y.max_idx - x.max_idx + 1}
      BY <2>3, <2>4, <3>4
    <3>6. y.max_idx <= x.max_idx BY <2>3, <2>4
    <3>7. Filled(y) BY <2>7, <2>8, <3>2, <3>3, <3>5, <3>6 DEF Filled
    <3>8. QED BY <2>4, <3>2, <3>7 DEF Settled
  <2>9. CASE u.idx = 0
    BY <1>2, <1>4, <2>8, <2>9 DEF u, y
  <2>10. CASE u.idx # 0 /\ u.nvalues = 0
    BY <1>3, <1>4, <2>8, <2>10 DEF u, y
  <2>11. CASE u.idx # 0 /\ u.nvalues # 0
    <3>1. /\ ~y.end /\ y.processing /\ y.idx \in 0 .. x.idx - 1
          /\ y.idx = x.idx - 1 \/ ((\A i \in Occupied(y) : i < x.idx => i <= y.idx)
                                     /\ (y.idx = 0 \/ y.idx \in Occupied(y)))
      BY <1>2, <1>4, <1>5, <2>11
    <3>2. y.nvalues > 0 BY <1>3, <2>7, <2>11
    <3>3. y.idx \in Indices /\ y.idx < x.idx /\ y.idx \in Int /\ y.idx >= 0
      BY <1>6, <1>8, <3>1
    <3>4. y.idx < y.max_idx BY <1>6, <2>1, <2>3, <2>4, <3>3
    <3>5. /\ Occupied(y) = (lo .. y.idx) \union {x.max_idx}
          /\ Higher(x.idx - lo, 0) = Higher(y.idx - lo + 1, 0)
      <4>1. CASE y.idx = x.idx - 1
        <5>1. y.idx - lo + 1 = x.idx - lo BY <1>6, <2>3, <4>1
        <5>2. QED BY <2>5, <4>1, <5>1
      <4>2. CASE y.idx # x.idx - 1
        <5>1. lo > x.idx - 1
          <6>1. SUFFICES ASSUME lo <= x.idx - 1 PROVE FALSE BY <1>6, <2>3
          <6>2. x.idx - 1 \in Occupied(y) BY <1>6, <2>3, <2>5, <6>1
          <6>3. x.idx - 1 <= y.idx BY <1>6, <3>1, <4>2, <6>2
          <6>4. QED BY <1>6, <3>3, <4>2, <6>3
        <5>2. y.idx < lo BY <1>6, <2>3, <3>3, <5>1
        <5>3. lo .. y.idx = {} /\ lo .. x.idx - 1 = {} BY <1>6, <2>3, <3>3, <5>1, <5>2
        <5>4. Higher(x.idx - lo, 0) = 0 /\ Higher(y.idx - lo + 1, 0) = 0
          BY <1>6, <2>3, <3>3, <5>1, <5>2 DEF Higher
        <5>5. QED BY <2>5, <5>3, <5>4
      <4>3. QED BY <4>1, <4>2
    <3>6. lo \in 0 .. y.max_idx BY <2>3, <2>4
    <3>7. BelowTop(y) BY <2>4, <2>6, <3>4, <3>5, <3>6 DEF BelowTop
    <3>8. Draining(y) BY <3>1, <3>2, <3>3, <3>7 DEF Draining
    <3>9. QED BY <3>1, <3>3, <3>8 DEF u, y
  <2>12. QED BY <2>9, <2>10, <2>11
<1>11. QED BY <1>9, <1>10 DEF Draining
-----------------------------------------------------------------------------
Shape(b) ==
  /\ b = [idx |-> b.idx, retired |-> b.retired, recycled |-> b.recycled, m |-> b.m,
          room |-> b.room, dirty |-> b.dirty, fatal |-> b.fatal, misled |-> b.misled]
  /\ b.fatal \in BOOLEAN /\ b.misled \in BOOLEAN

\* Every page taken so far is in exactly one of the four sets.
Split(A, B, C, D, n) ==
  /\ A \union B \union C \union D = 0 .. n
  /\ A \intersect B = {} /\ A \intersect C = {} /\ A \intersect D = {}
  /\ B \intersect C = {} /\ B \intersect D = {} /\ C \intersect D = {}

(* What every step of an operation leaves true of a book whose Iter was not *)
(* misled, "out" being the pages that chapters have or that are about to be *)
(* freed.                                                                   *)
Good(b, out) ==
  /\ b.idx \in 0 .. PAGE_MAX /\ b.room \in Nat
  /\ Loose(b.retired) /\ Stack(b.recycled) /\ Stack(b.m)
  /\ 0 \in Held(b.m)
  /\ Split(Held(b.m), Held(b.retired), Held(b.recycled), out, b.idx)
  /\ b.dirty \intersect Held(b.recycled) = {} /\ b.dirty \subseteq 0 .. b.idx

Fine(b, out) == Shape(b) /\ (Intact(b) => Good(b, out))

\* A Span of different pages that lacks one has room for it.
LEMMA RoomForOne ==
  ASSUME NEW x, Stack(x), NEW p \in 0 .. PAGE_MAX, p \notin Held(x),
         Held(x) \subseteq 0 .. PAGE_MAX
  PROVE  x.max_idx + 1 \in Indices
<1> DEFINE S == 0 .. x.max_idx
           T == (0 .. PAGE_MAX) \ {p}
           f == [i \in S |-> x.slots[i]]
<1>1. x.max_idx \in Int /\ x.max_idx >= -1
  BY Bounds DEF Stack, Loose, ReelType
<1>2. Occupied(x) = S /\ Uniq(x)
  BY DEF Stack, Loose
<1>3. \A i \in S : x.slots[i] \in T
  BY <1>2 DEF Held
<1>4. \A i, j \in S : x.slots[i] = x.slots[j] => i = j
  BY <1>2 DEF Uniq
<1>5. f \in Injection(S, T)
  BY <1>3, <1>4 DEF Injection, IsInjective
<1>6. 0 \in Int /\ PAGE_MAX \in Int /\ PAGE_MAX >= 0
  BY Bounds
<1>7. /\ IsFiniteSet(0 .. PAGE_MAX)
      /\ Cardinality(0 .. PAGE_MAX) = IF 0 > PAGE_MAX THEN 0 ELSE PAGE_MAX - 0 + 1
  BY ONLY <1>6, FS_Interval
<1>8. IsFiniteSet(T) /\ Cardinality(T) = PAGE_MAX
  <2>1. /\ IsFiniteSet(T)
        /\ Cardinality(T) = IF p \in 0 .. PAGE_MAX THEN Cardinality(0 .. PAGE_MAX) - 1
                            ELSE Cardinality(0 .. PAGE_MAX)
    BY <1>7, FS_RemoveElement
  <2>2. QED BY <1>6, <1>7, <2>1
<1>9. 0 \in Int /\ x.max_idx \in Int
  BY <1>1
<1>10. Cardinality(S) = IF 0 > x.max_idx THEN 0 ELSE x.max_idx - 0 + 1
  BY ONLY <1>9, FS_Interval
<1> HIDE DEF f, S, T
<1>11. Cardinality(S) <= Cardinality(T)
  BY ONLY <1>5, <1>8, FS_Injection
<1>12. x.max_idx + 1 <= PAGE_MAX /\ x.max_idx + 1 >= 0
  BY <1>1, <1>6, <1>8, <1>10, <1>11
<1>13. QED BY <1>1, <1>12, Bounds

\* What GetPage does to a book in which nothing went wrong.
LEMMA GetPageGood ==
  ASSUME NEW b, NEW out, Shape(b), Intact(b), Good(b, out)
  PROVE  LET g == GetPage(b).book
             p == GetPage(b).page
         IN  /\ Shape(g) /\ g.room = b.room /\ g.retired = b.retired
             /\ Intact(g) => /\ p \in 1 .. PAGE_MAX /\ p \notin out /\ p \notin b.dirty
                             /\ Good(g, out \union {p})
<1> DEFINE g == GetPage(b).book
           p == GetPage(b).page
           x == b.recycled
<1>1. Stack(x) /\ x.nvalues \in Int /\ b.idx \in 0 .. PAGE_MAX /\ PAGE_MAX \in Nat
  BY Bounds DEF Good, Stack, Loose, ReelType
<1>2. CASE x.nvalues > 0
  <2> DEFINE y == Iter_Prev(Iter_Remove(x))
             v == x.value
             d == b.dirty \union {x.value}
  <2>1. Stack(y) /\ v \in Held(x) /\ v # NULL /\ Held(y) = Held(x) \ {v}
    BY <1>1, <1>2, PopStack
  <2>2. /\ p = v
        /\ g = [b EXCEPT !.recycled = y, !.dirty = d, !.fatal = @ \/ v = NULL]
    BY <1>2 DEF GetPage
  <2> HIDE DEF y, p, g, d
  <2>3. /\ Shape(g) /\ g.room = b.room /\ g.retired = b.retired
        /\ g.idx = b.idx /\ g.m = b.m /\ g.recycled = y /\ g.dirty = d
    BY <2>2 DEF Shape
  <2>4. v \in 0 .. b.idx /\ v \notin out /\ v \notin b.dirty /\ v # 0
    BY <2>1 DEF Good, Split
  <2>5. Split(Held(g.m), Held(g.retired), Held(g.recycled), out \union {p}, g.idx)
    BY <2>1, <2>2, <2>3 DEF Good, Split
  <2>6. d \subseteq 0 .. b.idx /\ d \intersect Held(y) = {}
    BY <2>1, <2>4 DEF Good, d
  <2>7. Good(g, out \union {p})
    BY <2>1, <2>3, <2>5, <2>6 DEF Good
  <2>8. p \in 1 .. PAGE_MAX /\ p \notin out /\ p \notin b.dirty
    BY <1>1, <2>2, <2>4
  <2>9. QED BY <2>3, <2>7, <2>8 DEF p, g
<1>3. CASE ~(x.nvalues > 0)
  <2> DEFINE v == b.idx + 1
             d == b.dirty \union {b.idx + 1}
  <2>1. /\ p = v
        /\ g = [b EXCEPT !.idx = v, !.dirty = d, !.fatal = @ \/ v > PAGE_MAX]
    BY <1>3 DEF GetPage
  <2>2. v \in Int /\ v >= 1 /\ v \notin 0 .. b.idx /\ (0 .. b.idx) \union {v} = 0 .. v
    BY <1>1
  <2> HIDE DEF p, g, v, d
  <2>3. /\ Shape(g) /\ g.room = b.room /\ g.retired = b.retired
        /\ g.idx = v /\ g.m = b.m /\ g.recycled = b.recycled /\ g.dirty = d
        /\ g.fatal = (b.fatal \/ v > PAGE_MAX)
    BY <2>1 DEF Shape
  <2>4. v \notin out /\ v \notin b.dirty /\ v \notin Held(b.recycled)
        /\ v \notin Held(b.m) /\ v \notin Held(b.retired)
    BY <2>2 DEF Good, Split
  <2>5. Split(Held(g.m), Held(g.retired), Held(g.recycled), out \union {p}, g.idx)
    <3>1. Held(g.m) \union Held(g.retired) \union Held(g.recycled) \union (out \union {p}) = 0 .. v
      BY <2>1, <2>2, <2>3 DEF Good, Split
    <3>2. QED BY <2>1, <2>3, <2>4, <3>1 DEF Good, Split
  <2>6. d \subseteq 0 .. v /\ d \intersect Held(b.recycled) = {}
    BY <2>2, <2>4 DEF Good, d, v
  <2>7. ASSUME Intact(g) PROVE v <= PAGE_MAX
    <3>1. ~g.fatal BY <2>7 DEF Intact
    <3>2. ~(v > PAGE_MAX) BY ONLY <2>3, <3>1, Zenon
    <3>3. QED BY <1>1, <2>2, <3>2
  <2>8. ASSUME Intact(g) PROVE Good(g, out \union {p})
    BY <1>1, <2>2, <2>3, <2>5, <2>6, <2>7, <2>8 DEF Good
  <2>9. QED BY <1>1, <2>1, <2>2, <2>3, <2>4, <2>7, <2>8 DEF p, g
<1>4. QED BY <1>2, <1>3

\* A book that is broken stays broken.
LEMMA GetPageBroken ==
  ASSUME NEW b, Shape(b), ~Intact(b)
  PROVE  LET g == GetPage(b).book
         IN  Shape(g) /\ ~Intact(g)
<1> DEFINE y == Iter_Prev(Iter_Remove(b.recycled))
           g == GetPage(b).book
<1>1. \/ g = [b EXCEPT !.recycled = y, !.dirty = b.dirty \union {b.recycled.value},
                       !.fatal = b.fatal \/ b.recycled.value = NULL]
      \/ g = [b EXCEPT !.idx = b.idx + 1, !.dirty = b.dirty \union {b.idx + 1},
                       !.fatal = b.fatal \/ b.idx + 1 > PAGE_MAX]
  BY DEF GetPage
<1> HIDE DEF y, g
<1>2. QED BY <1>1 DEF Shape, Intact, g

\* Slabs taken from the room there is.
LEMMA SpendGood ==
  ASSUME NEW b, NEW out, Shape(b), Good(b, out), NEW n \in 0 .. b.room
  PROVE  LET a == [b EXCEPT !.room = @ - n]
         IN  /\ Shape(a) /\ Good(a, out) /\ a.fatal = b.fatal /\ a.misled = b.misled
             /\ a.retired = b.retired /\ a.recycled = b.recycled /\ a.dirty = b.dirty
             /\ a.idx = b.idx
<1> DEFINE k == b.room - n
           a == [b EXCEPT !.room = k]
<1>1. k \in Nat
  BY DEF Good
<1> HIDE DEF k
<1>2. /\ Shape(a) /\ a.fatal = b.fatal /\ a.misled = b.misled
      /\ a.retired = b.retired /\ a.recycled = b.recycled /\ a.dirty = b.dirty
      /\ a.idx = b.idx /\ a.m = b.m /\ a.room = k
  BY DEF Shape
<1> HIDE DEF a
<1>3. Good(a, out)
  BY <1>1, <1>2 DEF Good
<1>4. QED BY <1>2, <1>3 DEF a, k

\* A page attached to the book itself leaves the pages outside, and brings
\* room enough for what any Span may ask.
LEMMA AttachGood ==
  ASSUME NEW b, NEW out, Shape(b), Good(b, out), NEW p \in out
  PROVE  LET a == AttachToBook(b, p)
         IN  /\ Shape(a) /\ Good(a, out \ {p}) /\ a.room >= 2 * MAX_DIMS
             /\ a.fatal = b.fatal /\ a.misled = b.misled /\ a.dirty = b.dirty
             /\ a.retired = b.retired /\ a.recycled = b.recycled /\ a.idx = b.idx
<1> DEFINE x == b.m
           y == Iter_Add(x, p)
           c == SlabCost(x, x.max_idx + 1)
           r == b.room + PAGE_SLABS - c
           a == AttachToBook(b, p)
<1>1. Stack(x) /\ Loose(x) /\ b.idx \in 0 .. PAGE_MAX /\ b.room \in Nat
  BY DEF Good, Stack
<1>2. Held(x) \subseteq 0 .. b.idx /\ p \in 0 .. b.idx /\ p \notin Held(x)
      /\ p \notin Held(b.retired) /\ p \notin Held(b.recycled)
  BY DEF Good, Split
<1>3. p \in 0 .. PAGE_MAX /\ Held(x) \subseteq 0 .. PAGE_MAX
  BY <1>1, <1>2, Bounds
<1>4. x.max_idx + 1 \in Indices
  BY <1>1, <1>2, <1>3, RoomForOne
<1>5. Stack(y) /\ Held(y) = Held(x) \union {p}
  BY <1>1, <1>2, <1>3, <1>4, AddLoose
<1>6. x.dims \in 0 .. MAX_DIMS
  BY <1>1 DEF Loose, ReelType
<1>7. c \in 0 .. 2 * MAX_DIMS
  BY <1>4, <1>6, CostBounds
<1> HIDE DEF c
<1>8. r \in Nat /\ r >= 2 * MAX_DIMS
  BY <1>1, <1>7, BookAssumption, TablesAssumption
<1>9. a = [b EXCEPT !.m = y, !.room = r]
  BY DEF AttachToBook, c
<1> HIDE DEF y, r, a
<1>10. /\ Shape(a) /\ a.fatal = b.fatal /\ a.misled = b.misled
       /\ a.retired = b.retired /\ a.recycled = b.recycled /\ a.dirty = b.dirty
       /\ a.idx = b.idx /\ a.m = y /\ a.room = r
  BY <1>9 DEF Shape
<1>11. Split(Held(a.m), Held(a.retired), Held(a.recycled), out \ {p}, a.idx)
  BY <1>2, <1>5, <1>10 DEF Good, Split
<1>12. Good(a, out \ {p})
  BY <1>5, <1>8, <1>10, <1>11 DEF Good
<1>13. QED BY <1>8, <1>10, <1>12 DEF a

LEMMA AttachBroken ==
  ASSUME NEW b, Shape(b), ~Intact(b), NEW p
  PROVE  Shape(AttachToBook(b, p)) /\ ~Intact(AttachToBook(b, p))
<1> DEFINE y == Iter_Add(b.m, p)
           r == b.room + PAGE_SLABS - SlabCost(b.m, b.m.max_idx + 1)
           a == AttachToBook(b, p)
<1>1. a = [b EXCEPT !.m = y, !.room = r]
  BY DEF AttachToBook
<1> HIDE DEF y, r, a
<1>2. QED BY <1>1 DEF Shape, Intact, a

LEMMA AllocBroken ==
  ASSUME NEW b, Shape(b), ~Intact(b), NEW n
  PROVE  Shape(AllocSlabs(b, n)) /\ ~Intact(AllocSlabs(b, n))
<1> DEFINE a == AllocSlabs(b, n)
           g == GetPage(b).book
           p == GetPage(b).page
           t == AttachToBook(g, p)
<1>1. Shape(g) /\ ~Intact(g) BY GetPageBroken
<1>2. a = [b EXCEPT !.room = b.room - n] \/ a = [t EXCEPT !.room = t.room - n]
  BY DEF AllocSlabs
<1> HIDE DEF a, g, p
<1>3. Shape(t) /\ ~Intact(t) BY <1>1, AttachBroken
<1> DEFINE k == b.room - n
           l == t.room - n
<1>4. a = [b EXCEPT !.room = k] \/ a = [t EXCEPT !.room = l]
  BY <1>2
<1> HIDE DEF t, k, l
<1>5. QED BY <1>3, <1>4 DEF Shape, Intact, a

\* Room for the slabs of a Span, from a page of the pool when there is none.
LEMMA AllocFine ==
  ASSUME NEW b, NEW out, Fine(b, out), NEW n \in 0 .. 2 * MAX_DIMS
  PROVE  LET a == AllocSlabs(b, n)
         IN  Fine(a, out) /\ (Intact(a) => Intact(b) /\ a.retired = b.retired)
<1> DEFINE a == AllocSlabs(b, n)
           g == GetPage(b).book
           p == GetPage(b).page
           t == AttachToBook(g, p)
<1>1. Shape(b) BY DEF Fine
<1>2. MAX_DIMS \in Nat BY TablesAssumption
<1>3. CASE n <= b.room
  <2>1. a = [b EXCEPT !.room = @ - n]
    BY <1>3 DEF AllocSlabs
  <2>2. CASE Intact(b)
    <3>1. Good(b, out) BY <2>2 DEF Fine
    <3>2. n \in 0 .. b.room BY <1>2, <1>3, <3>1 DEF Good
    <3>3. /\ Shape(a) /\ Good(a, out) /\ a.fatal = b.fatal /\ a.misled = b.misled
          /\ a.retired = b.retired
      BY <1>1, <2>1, <3>1, <3>2, SpendGood
    <3>4. QED BY <2>2, <3>3 DEF Fine
  <2>3. CASE ~Intact(b)
    BY <1>1, <2>3, AllocBroken DEF Fine
  <2>4. QED BY <2>2, <2>3
<1>4. CASE ~(n <= b.room)
  <2>1. a = [t EXCEPT !.room = @ - n]
    BY <1>4 DEF AllocSlabs
  <2>2. ASSUME Shape(t), ~Intact(t)
        PROVE  Shape(a) /\ ~Intact(a)
    <3> DEFINE k == t.room - n
    <3>1. a = [t EXCEPT !.room = k] BY <2>1
    <3> HIDE DEF k, a, t
    <3>2. QED BY <2>2, <3>1 DEF Shape, Intact
  <2>3. CASE ~Intact(b)
    BY <1>1, <2>3, AllocBroken DEF Fine
  <2>4. CASE Intact(b)
    <3>1. Good(b, out) BY <2>4 DEF Fine
    <3>2. /\ Shape(g) /\ g.room = b.room /\ g.retired = b.retired
          /\ Intact(g) => /\ p \in 1 .. PAGE_MAX /\ p \notin out /\ p \notin b.dirty
                          /\ Good(g, out \union {p})
      BY <1>1, <2>4, <3>1, GetPageGood
    <3> HIDE DEF g, p
    <3>3. CASE ~Intact(g)
      <4>1. Shape(t) /\ ~Intact(t) BY <3>2, <3>3, AttachBroken
      <4>2. QED BY <2>2, <4>1 DEF Fine
    <3>4. CASE Intact(g)
      <4> DEFINE all == out \union {p}
      <4>1. /\ Shape(t) /\ Good(t, all \ {p}) /\ t.room >= 2 * MAX_DIMS
            /\ t.fatal = g.fatal /\ t.misled = g.misled /\ t.retired = g.retired
        <5>1. Shape(g) /\ Good(g, all) /\ p \in all BY <3>2, <3>4
        <5>2. QED BY ONLY <5>1, AttachGood
      <4>2. all \ {p} = out BY <3>2, <3>4
      <4> HIDE DEF t, all
      <4>3. Shape(t) /\ Good(t, out) BY <4>1, <4>2
      <4>4. n \in 0 .. t.room
        BY <1>2, <4>1, <4>3 DEF Good
      <4>5. /\ Shape(a) /\ Good(a, out) /\ a.fatal = t.fatal /\ a.misled = t.misled
            /\ a.retired = t.retired
        BY <2>1, <4>3, <4>4, SpendGood
      <4>6. QED BY <2>4, <3>2, <4>1, <4>5 DEF Fine
    <3>5. QED BY <3>3, <3>4
  <2>5. QED BY <2>3, <2>4
<1>5. QED BY <1>3, <1>4

\* MemBook_FreePage takes a page from those outside to "retired".
LEMMA FreePageFine ==
  ASSUME NEW b, NEW out, Fine(b, out), NEW p \in out
  PROVE  LET f == MemBook_FreePage(b, p)
         IN  /\ Fine(f, out \ {p})
             /\ Intact(f) => Intact(b) /\ (Filled(b.retired) => Filled(f.retired))
<1> DEFINE i == b.retired.max_idx + 1
           n == SlabCost(b.retired, i)
           a == AllocSlabs(b, n)
           f == MemBook_FreePage(b, p)
<1>1. Shape(b) BY DEF Fine
<1>2. CASE b.fatal \/ i >= Limit
  <2>1. f = [b EXCEPT !.fatal = TRUE] BY <1>2 DEF MemBook_FreePage
  <2> HIDE DEF f
  <2>2. Shape(f) /\ ~Intact(f) BY <1>1, <2>1 DEF Shape, Intact
  <2>3. QED BY <2>2 DEF Fine, f
<1>3. CASE ~b.fatal /\ ~(i >= Limit)
  <2> DEFINE y == Iter_Add(a.retired, p)
  <2>1. f = [a EXCEPT !.retired = y]
    BY <1>3 DEF MemBook_FreePage
  <2>2. ASSUME Shape(a), ~Intact(a) PROVE Fine(f, out \ {p}) /\ ~Intact(f)
    <3> HIDE DEF a, y, f
    <3>1. Shape(f) /\ ~Intact(f) BY <2>1, <2>2 DEF Shape, Intact
    <3>2. QED BY <3>1 DEF Fine
  <2>3. CASE ~Intact(b)
    <3>1. Shape(a) /\ ~Intact(a) BY <1>1, <2>3, AllocBroken
    <3>2. QED BY <2>2, <3>1
  <2>4. CASE Intact(b)
    <3>1. Good(b, out) BY <2>4 DEF Fine
    <3>2. Loose(b.retired) BY <3>1 DEF Good
    <3>3. i \in Indices
      <4>1. b.retired.max_idx \in -1 .. Limit - 1
        BY <3>2 DEF Loose, ReelType
      <4>2. QED BY <1>3, <4>1, Bounds
    <3>4. b.retired.dims \in 0 .. MAX_DIMS
      BY <3>2 DEF Loose, ReelType
    <3>5. n \in 0 .. 2 * MAX_DIMS
      BY <3>3, <3>4, CostBounds
    <3> HIDE DEF n
    <3>6. Fine(a, out) /\ (Intact(a) => Intact(b) /\ a.retired = b.retired)
      BY <3>5, AllocFine
    <3> HIDE DEF a
    <3>7. CASE ~Intact(a)
      BY <2>2, <3>6, <3>7 DEF Fine
    <3>8. CASE Intact(a)
      <4>1. Shape(a) /\ Good(a, out) /\ a.retired = b.retired
        BY <3>6, <3>8 DEF Fine
      <4>2. p \in 0 .. PAGE_MAX /\ p \notin Held(a.retired) /\ a.idx \in 0 .. PAGE_MAX
        <5>1. p \in 0 .. a.idx /\ p \notin Held(a.retired) /\ a.idx \in 0 .. PAGE_MAX
          BY <4>1 DEF Good, Split
        <5>2. QED BY <5>1, Bounds
      <4>3. a.retired.max_idx + 1 \in Indices BY <3>3, <4>1
      <4>4. Loose(y) /\ Held(y) = Held(a.retired) \union {p}
        BY <3>2, <4>1, <4>2, <4>3, AddLoose
      <4>a. Filled(b.retired) => Filled(y)
        BY <3>2, <4>1, <4>2, <4>3, AddFilled
      <4> HIDE DEF y, f
      <4>5. /\ Shape(f) /\ f.idx = a.idx /\ f.room = a.room /\ f.m = a.m
            /\ f.recycled = a.recycled /\ f.dirty = a.dirty /\ f.retired = y
        BY <2>1, <4>1 DEF Shape
      <4>6. Split(Held(f.m), Held(f.retired), Held(f.recycled), out \ {p}, f.idx)
        BY <4>1, <4>4, <4>5 DEF Good, Split
      <4>7. Good(f, out \ {p})
        BY <4>1, <4>4, <4>5, <4>6 DEF Good
      <4>8. QED BY <2>4, <4>5, <4>7, <4>a DEF Fine, f
    <3>9. QED BY <3>7, <3>8
  <2>5. QED BY <2>3, <2>4
<1>4. QED BY <1>2, <1>3

\* The Iter_Add that grew the tree and became a GET of the top.
LEMMA GrowStack ==
  ASSUME NEW x, Stack(x), x.max_idx >= 0, NEW d \in 0 .. MAX_DIMS, d >= x.dims
  PROVE  LET y == [x EXCEPT !.dims = d, !.leaves = x.leaves, !.idx = x.max_idx,
                            !.value = x.slots[x.max_idx],
                            !.processing = TRUE, !.end = FALSE]
         IN  Stack(y) /\ Held(y) = Held(x)
<1> DEFINE v == x.slots[x.max_idx]
           u == [x EXCEPT !.dims = d]
           w == [u EXCEPT !.idx = x.max_idx]
           z == [w EXCEPT !.value = v]
           y == [z EXCEPT !.processing = TRUE, !.end = FALSE]
<1>1. x \in ReelType(Cell) /\ x.dims \in 0 .. MAX_DIMS /\ x.max_idx \in -1 .. Limit - 1
  BY DEF Stack, Loose, ReelType
<1>2. x.max_idx \in Int /\ x.max_idx \in Indices /\ MAX_DIMS \in Nat
  BY <1>1, Bounds, TablesAssumption
<1>3. v \in Cell
  BY <1>1, <1>2 DEF ReelType
<1>4. [x EXCEPT !.dims = d, !.leaves = x.leaves, !.idx = x.max_idx,
                !.value = x.slots[x.max_idx], !.processing = TRUE, !.end = FALSE] = y
  <2>1. [x EXCEPT !.dims = d, !.leaves = x.leaves] = u
    BY <1>1 DEF ReelType
  <2>2. QED BY <2>1
<1> HIDE DEF v
<1>5. /\ u \in ReelType(Cell) /\ u.slots = x.slots /\ u.max_idx = x.max_idx
      /\ u.nvalues = x.nvalues /\ u.leaves = x.leaves /\ u.dims = d
  BY <1>1 DEF ReelType
<1> HIDE DEF u
<1>6. /\ w \in ReelType(Cell) /\ w.slots = x.slots /\ w.max_idx = x.max_idx
      /\ w.nvalues = x.nvalues /\ w.leaves = x.leaves /\ w.dims = d
      /\ w.idx = x.max_idx
  BY <1>2, <1>5 DEF ReelType
<1> HIDE DEF w
<1>7. /\ z \in ReelType(Cell) /\ z.slots = x.slots /\ z.max_idx = x.max_idx
      /\ z.nvalues = x.nvalues /\ z.leaves = x.leaves /\ z.dims = d
      /\ z.idx = x.max_idx /\ z.value = v
  BY <1>3, <1>6 DEF ReelType
<1> HIDE DEF z
<1>8. /\ y \in ReelType(Cell) /\ y.slots = x.slots /\ y.max_idx = x.max_idx
      /\ y.nvalues = x.nvalues /\ y.leaves = x.leaves /\ y.dims = d
      /\ y.idx = x.max_idx /\ y.value = v /\ y.processing
  BY <1>7 DEF ReelType
<1> HIDE DEF y
<1>9. Occupied(y) = Occupied(x) /\ Held(y) = Held(x)
  BY <1>8 DEF Occupied, Held
<1>10. ASSUME NEW i \in Occupied(y) PROVE i <= y.max_idx /\ Made(y, i)
  <2>1. i <= x.max_idx /\ Made(x, i) BY <1>9, <1>10 DEF Stack, Loose
  <2>2. i \in Int /\ i < Capacity(x.dims) /\ i >= 0 /\ i \div STRIDE \in x.leaves
    BY <1>10, <2>1, Bounds DEF Made, Occupied
  <2>3. Capacity(x.dims) <= Capacity(d) /\ Capacity(x.dims) \in Nat /\ Capacity(d) \in Nat
    BY <1>1, CapacityBounds, TablesAssumption
  <2>4. i < Capacity(d) BY <2>2, <2>3
  <2>5. QED BY <1>8, <2>1, <2>2, <2>4 DEF Made
<1>11. Uniq(y)
  BY <1>8, <1>9 DEF Stack, Loose, Uniq
<1>12. y.idx # -1 /\ y.value = y.slots[y.idx] /\ y.idx \in Indices
  BY <1>2, <1>8, Bounds DEF v
<1>13. Loose(y)
  BY <1>8, <1>10, <1>11, <1>12 DEF Loose
<1>14. Stack(y)
  BY <1>8, <1>9, <1>13 DEF Stack
<1>15. QED BY <1>4, <1>9, <1>14

(* Adding a page to "recycled": it goes there, or to the book itself.      *)
LEMMA AddRecycledParts ==
  ASSUME NEW b, Shape(b), Intact(b), b.room \in Nat,
         Stack(b.recycled), Stack(b.m), NEW p \in 0 .. PAGE_MAX,
         p \notin Held(b.recycled), p \notin Held(b.m),
         Held(b.recycled) \subseteq 0 .. PAGE_MAX, Held(b.m) \subseteq 0 .. PAGE_MAX
  PROVE  LET a == AddRecycled(b, p)
         IN  /\ Shape(a) /\ a.idx = b.idx /\ a.retired = b.retired
             /\ Intact(a) =>
                  /\ a.room \in Nat /\ Stack(a.recycled) /\ Stack(a.m)
                  /\ \/ /\ Held(a.recycled) = Held(b.recycled) \union {p}
                        /\ Held(a.m) = Held(b.m) /\ a.dirty = b.dirty
                     \/ /\ Held(a.recycled) = Held(b.recycled)
                        /\ Held(a.m) = Held(b.m) \union {p}
                        /\ a.dirty = b.dirty \union {p}
<1> DEFINE a == AddRecycled(b, p)
           x == b.recycled
           i == x.max_idx + 1
           cost == SlabCost(x, i)
           growth == GrowthSlabs(x, i)
           j == b.m.max_idx + 1
           mcost == SlabCost(b.m, j)
<1>1. Loose(x) /\ Loose(b.m) BY DEF Stack
<1>2. x.dims \in 0 .. MAX_DIMS /\ b.m.dims \in 0 .. MAX_DIMS /\ x.max_idx \in -1 .. Limit - 1
  BY <1>1 DEF Loose, ReelType
<1>3. i \in Indices /\ j \in Indices
  BY RoomForOne
<1>4. /\ growth \in 0 .. MAX_DIMS /\ cost \in 0 .. 2 * MAX_DIMS /\ growth <= cost
      /\ growth > 0 => DimsNeeded(i) > x.dims
  BY <1>2, <1>3, CostBounds
<1>5. mcost \in 0 .. 2 * MAX_DIMS
  BY <1>2, <1>3, CostBounds
<1>6. MAX_DIMS \in Nat /\ PAGE_SLABS \in Nat /\ PAGE_SLABS >= 4 * MAX_DIMS
  BY BookAssumption, TablesAssumption
<1>7. CASE cost <= b.room
  <2> DEFINE y == Iter_Add(x, p)
             k == b.room - cost
  <2>1. a = [b EXCEPT !.recycled = y, !.room = k]
    BY <1>7 DEF AddRecycled
  <2>2. Stack(y) /\ Held(y) = Held(x) \union {p}
    BY <1>1, <1>3, AddLoose
  <2>3. k \in Nat BY <1>4, <1>6, <1>7
  <2> HIDE DEF y, k, a
  <2>4. /\ Shape(a) /\ a.idx = b.idx /\ a.retired = b.retired /\ a.room = k
        /\ a.recycled = y /\ a.m = b.m /\ a.dirty = b.dirty
    BY <2>1 DEF Shape
  <2>5. QED BY <2>2, <2>3, <2>4 DEF a
<1>8. CASE ~(cost <= b.room)
  <2> DEFINE grows == b.room < growth
             spent == IF grows THEN growth ELSE cost
             d == b.dirty \union {p}
             y == Iter_Add(b.m, p)
             z == [x EXCEPT
                     !.dims = DimsNeeded(i),
                     !.leaves = IF grows THEN x.leaves ELSE x.leaves \union {i \div STRIDE},
                     !.idx = x.max_idx,
                     !.value = x.slots[IF grows THEN x.max_idx
                                       ELSE (x.max_idx \div STRIDE) * STRIDE],
                     !.processing = TRUE, !.end = FALSE]
             t == AttachToBook([b EXCEPT !.dirty = d], p)
  <2>1. a = [t EXCEPT !.room = t.room - spent, !.misled = t.misled \/ ~grows,
                      !.recycled = z]
    BY <1>8 DEF AddRecycled
  <2> DEFINE b1 == [b EXCEPT !.dirty = d]
  <2>2. /\ Shape(b1) /\ b1.idx = b.idx /\ b1.retired = b.retired /\ b1.m = b.m
        /\ b1.recycled = x /\ b1.dirty = d /\ b1.room = b.room
        /\ b1.fatal = b.fatal /\ b1.misled = b.misled
    <3> HIDE DEF d
    <3>1. QED BY DEF Shape
  <2> HIDE DEF b1
  <2> DEFINE rm == b.room + PAGE_SLABS - mcost
  <2>3. t = [b1 EXCEPT !.m = y, !.room = rm]
    BY <2>2 DEF AttachToBook, b1
  <2> HIDE DEF y, d, t, rm, mcost
  <2>4. /\ Shape(t) /\ t.idx = b.idx /\ t.retired = b.retired /\ t.m = y
        /\ t.recycled = x /\ t.dirty = d /\ t.room = rm
        /\ t.fatal = b.fatal /\ t.misled = b.misled
    BY <2>2, <2>3 DEF Shape
  <2> DEFINE r == rm - spent
  <2>5. a = [t EXCEPT !.room = r, !.misled = t.misled \/ ~grows, !.recycled = z]
    <3> HIDE DEF a, z, spent
    <3>1. QED BY <2>1, <2>4
  <2> DEFINE far == t.misled \/ ~grows
  <2>6. far \in BOOLEAN OBVIOUS
  <2>7. r \in Nat
    <3>1. r = rm - growth \/ r = rm - cost OBVIOUS
    <3>2. rm = b.room + PAGE_SLABS - mcost BY DEF rm
    <3>3. QED BY <1>4, <1>5, <1>6, <3>1, <3>2
  <2>8. grows => Stack(z) /\ Held(z) = Held(x)
    <3> SUFFICES ASSUME grows PROVE Stack(z) /\ Held(z) = Held(x)
      OBVIOUS
    <3>1. growth > 0 BY <1>4, <1>6
    <3>2. DimsNeeded(i) \in 0 .. MAX_DIMS /\ DimsNeeded(i) > x.dims
      BY <1>3, <1>4, <3>1, DimsFit
    <3>3. x.max_idx >= 0
      <4>1. SUFFICES ASSUME x.max_idx = -1 PROVE FALSE
        BY <1>2, Bounds
      <4>2. i = 0 BY <4>1
      <4>3. DimsNeeded(0) = 0
        <5>1. \A e \in 0 .. MAX_DIMS : INCREMENTS[e] \in Nat \ {0}
          BY <1>6, TablesAssumption
        <5>2. \E e \in 0 .. MAX_DIMS : Fits(0, e) BY <1>3, <4>2, TablesAssumption
        <5>3. \A e \in 0 .. MAX_DIMS : Fits(0, e) => e = 0
          BY <5>1 DEF Fits
        <5>4. QED BY <5>2, <5>3 DEF DimsNeeded
      <4>4. QED BY <1>2, <3>2, <4>2, <4>3
    <3>4. z = [x EXCEPT !.dims = DimsNeeded(i), !.leaves = x.leaves, !.idx = x.max_idx,
                        !.value = x.slots[x.max_idx], !.processing = TRUE, !.end = FALSE]
      OBVIOUS
    <3>5. DimsNeeded(i) >= x.dims BY <1>2, <1>6, <3>2
    <3> DEFINE e == DimsNeeded(i)
    <3>6. Stack(x) /\ x.max_idx >= 0 /\ e \in 0 .. MAX_DIMS /\ e >= x.dims
      BY <3>2, <3>3, <3>5
    <3>7. z = [x EXCEPT !.dims = e, !.leaves = x.leaves, !.idx = x.max_idx,
                        !.value = x.slots[x.max_idx], !.processing = TRUE, !.end = FALSE]
      BY <3>4
    <3> HIDE DEF z, e
    <3>8. QED BY ONLY <3>6, <3>7, GrowStack
  <2>9. Stack(y) /\ Held(y) = Held(b.m) \union {p}
    BY <1>1, <1>3, AddLoose DEF y
  <2> HIDE DEF z, r, far, a
  <2>10. a = [t EXCEPT !.room = r, !.misled = far, !.recycled = z]
    BY <2>5 DEF far
  <2>11. /\ Shape(a) /\ a.idx = b.idx /\ a.retired = b.retired /\ a.room = r
         /\ a.recycled = z /\ a.m = y /\ a.dirty = d /\ a.misled = far
    BY <2>4, <2>6, <2>10 DEF Shape
  <2>12. Intact(a) => grows
    <3>1. Intact(a) => ~far BY <2>11 DEF Intact
    <3>2. ~far => grows BY DEF far
    <3>3. QED BY <3>1, <3>2
  <2> HIDE DEF grows
  <2>13. QED BY <2>7, <2>8, <2>9, <2>11, <2>12 DEF a, d
<1>9. QED BY <1>7, <1>8

LEMMA AddRecycledBroken ==
  ASSUME NEW b, Shape(b), ~Intact(b), NEW p
  PROVE  Shape(AddRecycled(b, p)) /\ ~Intact(AddRecycled(b, p))
<1> DEFINE x == b.recycled
           i == x.max_idx + 1
           grows == b.room < GrowthSlabs(x, i)
           b1 == [b EXCEPT !.dirty = b.dirty \union {p}]
           t == AttachToBook(b1, p)
           y == Iter_Add(x, p)
           k == b.room - SlabCost(x, i)
           r == t.room - (IF grows THEN GrowthSlabs(x, i) ELSE SlabCost(x, i))
           z == [x EXCEPT
                   !.dims = DimsNeeded(i),
                   !.leaves = IF grows THEN x.leaves ELSE x.leaves \union {i \div STRIDE},
                   !.idx = x.max_idx,
                   !.value = x.slots[IF grows THEN x.max_idx
                                     ELSE (x.max_idx \div STRIDE) * STRIDE],
                   !.processing = TRUE, !.end = FALSE]
           a == AddRecycled(b, p)
<1>1. \/ a = [b EXCEPT !.recycled = y, !.room = k]
      \/ a = [t EXCEPT !.room = r, !.misled = t.misled \/ ~grows, !.recycled = z]
  BY DEF AddRecycled
<1> HIDE DEF a, z, r, k, y, i, t
<1>2. Shape(b1) /\ ~Intact(b1)
  BY DEF Shape, Intact
<1> HIDE DEF b1
<1>3. Shape(t) /\ ~Intact(t)
  BY <1>2, AttachBroken DEF t
<1>4. (t.misled \/ ~grows) \in BOOLEAN /\ (t.misled => t.misled \/ ~grows)
  OBVIOUS
<1> DEFINE far == t.misled \/ ~grows
<1> HIDE DEF far
<1>5. \/ a = [b EXCEPT !.recycled = y, !.room = k]
      \/ a = [t EXCEPT !.room = r, !.misled = far, !.recycled = z]
  BY <1>1 DEF far
<1>6. far \in BOOLEAN /\ (t.misled => far)
  BY <1>4 DEF far
<1>7. CASE a = [b EXCEPT !.recycled = y, !.room = k]
  BY <1>7 DEF Shape, Intact, a
<1>8. CASE a = [t EXCEPT !.room = r, !.misled = far, !.recycled = z]
  <2>1. Shape(a) /\ a.fatal = t.fatal /\ a.misled = far
    BY <1>3, <1>6, <1>8 DEF Shape
  <2>2. QED BY <1>3, <1>6, <2>1 DEF Intact, a
<1>9. QED BY <1>5, <1>7, <1>8

LEMMA AddRecycledKeeps ==
  ASSUME NEW b, Shape(b), NEW p
  PROVE  Shape(AddRecycled(b, p)) /\ AddRecycled(b, p).retired = b.retired
<1> DEFINE x == b.recycled
           i == x.max_idx + 1
           grows == b.room < GrowthSlabs(x, i)
           d == b.dirty \union {p}
           b1 == [b EXCEPT !.dirty = d]
           t == AttachToBook(b1, p)
           y == Iter_Add(x, p)
           k == b.room - SlabCost(x, i)
           r == t.room - (IF grows THEN GrowthSlabs(x, i) ELSE SlabCost(x, i))
           far == t.misled \/ ~grows
           z == [x EXCEPT
                   !.dims = DimsNeeded(i),
                   !.leaves = IF grows THEN x.leaves ELSE x.leaves \union {i \div STRIDE},
                   !.idx = x.max_idx,
                   !.value = x.slots[IF grows THEN x.max_idx
                                     ELSE (x.max_idx \div STRIDE) * STRIDE],
                   !.processing = TRUE, !.end = FALSE]
           a == AddRecycled(b, p)
<1>1. \/ a = [b EXCEPT !.recycled = y, !.room = k]
      \/ a = [t EXCEPT !.room = r, !.misled = far, !.recycled = z]
  BY DEF AddRecycled
<1>2. far \in BOOLEAN OBVIOUS
<1> HIDE DEF a, z, r, k, y, i, far, t, d
<1>3. Shape(b1) /\ b1.retired = b.retired BY DEF Shape
<1> HIDE DEF b1
<1>4. Shape(t) /\ t.retired = b.retired
  <2> DEFINE n == Iter_Add(b1.m, p)
             q == b1.room + PAGE_SLABS - SlabCost(b1.m, b1.m.max_idx + 1)
  <2>1. t = [b1 EXCEPT !.m = n, !.room = q] BY DEF t, AttachToBook
  <2> HIDE DEF n, q
  <2>2. QED BY <1>3, <2>1 DEF Shape
<1>5. CASE a = [b EXCEPT !.recycled = y, !.room = k]
  BY <1>5 DEF Shape, a
<1>6. CASE a = [t EXCEPT !.room = r, !.misled = far, !.recycled = z]
  <2>1. Shape(a) /\ a.retired = t.retired BY <1>2, <1>4, <1>6 DEF Shape
  <2>2. QED BY <1>4, <2>1 DEF a
<1>7. QED BY <1>1, <1>5, <1>6

\* Where the loop of MemBook_WipePages goes on.
Wiping(x) == ~x.end => x.idx \in Indices /\ x.processing

LEMMA PrevFine ==
  ASSUME NEW b, NEW out, Fine(b, out)
  PROVE  LET a == [b EXCEPT !.retired = Iter_Prev(@)]
         IN  Fine(a, out) /\ (Intact(a) => Intact(b) /\ Wiping(a.retired))
<1> DEFINE y == Iter_Prev(b.retired)
           a == [b EXCEPT !.retired = y]
<1>1. Intact(b) => Loose(y) /\ y.slots = b.retired.slots /\ Wiping(y)
  BY PrevReel DEF Fine, Good, Wiping
<1> HIDE DEF y
<1>2. /\ Shape(a) /\ a.idx = b.idx /\ a.room = b.room /\ a.m = b.m
      /\ a.recycled = b.recycled /\ a.dirty = b.dirty /\ a.retired = y
      /\ a.fatal = b.fatal /\ a.misled = b.misled
  BY DEF Fine, Shape
<1> HIDE DEF a
<1>3. ASSUME Intact(a) PROVE Good(a, out) /\ Intact(b) /\ Wiping(a.retired)
  <2>1. Intact(b) BY <1>2, <1>3 DEF Intact
  <2>2. Held(a.retired) = Held(b.retired)
    BY <1>1, <1>2, <2>1 DEF Held, Occupied
  <2>3. QED BY <1>1, <1>2, <2>1, <2>2 DEF Fine, Good
<1>4. QED BY <1>2, <1>3 DEF Fine, a, y

\* A pass steps down in "retired", wherever the page it takes goes.
LEMMA WipeSteps ==
  ASSUME NEW b, Shape(b)
  PROVE  WipeOne(b).retired = Iter_Prev(Iter_Remove(b.retired))
<1> DEFINE p == b.retired.value
           w == [b EXCEPT !.dirty = b.dirty \ {p}]
           t == IF p = NULL THEN b ELSE AddRecycled(w, p)
           y == Iter_Prev(Iter_Remove(t.retired))
<1>1. WipeOne(b) = [t EXCEPT !.retired = y] BY DEF WipeOne
<1>2. Shape(w) /\ w.retired = b.retired
  <2> DEFINE d == b.dirty \ {p}
  <2>1. w = [b EXCEPT !.dirty = d] OBVIOUS
  <2> HIDE DEF w, d
  <2>2. QED BY <2>1 DEF Shape
<1> HIDE DEF w, p, y
<1>3. Shape(AddRecycled(w, p)) /\ AddRecycled(w, p).retired = w.retired
  BY <1>2, AddRecycledKeeps
<1>4. Shape(t) /\ t.retired = b.retired BY <1>2, <1>3
<1> HIDE DEF t
<1>5. WipeOne(b).retired = y BY <1>1, <1>4 DEF Shape
<1>6. QED BY <1>4, <1>5 DEF y

\* One pass of the loop moves a page from "retired" to "recycled", or to the book.
LEMMA WipeOneFine ==
  ASSUME NEW b, NEW out, Fine(b, out), ~b.retired.end,
         Intact(b) => Wiping(b.retired)
  PROVE  LET a == WipeOne(b)
         IN  Fine(a, out) /\ (Intact(a) => Intact(b) /\ Wiping(a.retired))
<1> DEFINE p == b.retired.value
           w == [b EXCEPT !.dirty = b.dirty \ {p}]
           t == IF p = NULL THEN b ELSE AddRecycled(w, p)
           y == Iter_Prev(Iter_Remove(t.retired))
           a == WipeOne(b)
<1>1. a = [t EXCEPT !.retired = y]
  BY DEF WipeOne
<1>2. Shape(b) BY DEF Fine
<1> DEFINE d == b.dirty \ {p}
<1>3. /\ Shape(w) /\ w.fatal = b.fatal /\ w.misled = b.misled
      /\ w.idx = b.idx /\ w.room = b.room /\ w.m = b.m /\ w.retired = b.retired
      /\ w.recycled = b.recycled /\ w.dirty = d
  <2>1. w = [b EXCEPT !.dirty = d] OBVIOUS
  <2> HIDE DEF w, d
  <2>2. QED BY <1>2, <2>1 DEF Shape
<1>4. ASSUME Shape(t), ~Intact(t) PROVE Fine(a, out) /\ ~Intact(a)
  <2> HIDE DEF a, y, t
  <2>1. Shape(a) /\ ~Intact(a) BY <1>1, <1>4 DEF Shape, Intact
  <2>2. QED BY <2>1 DEF Fine
<1>5. CASE ~Intact(b)
  <2>1. ~Intact(w) BY <1>3, <1>5 DEF Intact
  <2> HIDE DEF w, p
  <2>2. Shape(AddRecycled(w, p)) /\ ~Intact(AddRecycled(w, p))
    BY <1>3, <2>1, AddRecycledBroken
  <2>3. Shape(t) /\ ~Intact(t) BY <1>2, <1>5, <2>2
  <2>4. QED BY <1>4, <2>3
<1>6. CASE Intact(b)
  <2> DEFINE x == b.retired
             u == Iter_Remove(x)
             v == Iter_Prev(u)
  <2>1. /\ Good(b, out) /\ Loose(x) /\ x.idx \in Indices /\ x.processing
        /\ x.value = x.slots[x.idx]
    BY <1>6, Bounds DEF Fine, Good, Wiping, Loose
  <2>2. /\ Loose(u)
        /\ x.slots[x.idx] # NULL => Held(u) = Held(x) \ {x.slots[x.idx]}
        /\ x.slots[x.idx] = NULL => Held(u) = Held(x)
    <3>1. /\ Loose(x) /\ x.idx \in Indices
          /\ x.processing \/ (x.slots[x.idx] # NULL /\ x.idx = x.max_idx)
      BY <2>1
    <3> HIDE DEF x
    <3>2. QED BY ONLY <3>1, RemoveLoose
  <2> HIDE DEF u
  <2>3. Loose(v) /\ v.slots = u.slots /\ Wiping(v)
    BY <2>2, PrevReel DEF Wiping
  <2> HIDE DEF v
  <2>4. /\ p # NULL => Held(v) = Held(x) \ {p}
        /\ p = NULL => Held(v) = Held(x)
    <3>1. Held(v) = Held(u) BY <2>3 DEF Held, Occupied
    <3>2. p = x.slots[x.idx] BY <2>1
    <3>3. QED BY ONLY <2>2, <3>1, <3>2
  <2>5. p # NULL => p \in Held(x)
    BY <2>1 DEF Held, Occupied
  <2>6. CASE p = NULL
    <3>1. a = [b EXCEPT !.retired = v] BY <1>1, <2>6 DEF u, v
    <3> HIDE DEF a, x, p
    <3>2. /\ Shape(a) /\ a.idx = b.idx /\ a.room = b.room /\ a.m = b.m
          /\ a.recycled = b.recycled /\ a.dirty = b.dirty /\ a.retired = v
      BY <1>2, <3>1 DEF Shape
    <3>3. Good(a, out)
      BY <2>1, <2>3, <2>4, <2>6, <3>2 DEF Good, x
    <3>4. QED BY <1>6, <2>3, <3>2, <3>3 DEF Fine, a
  <2>7. CASE p # NULL
    <3>1. t = AddRecycled(w, p) BY <2>7
    <3>2. /\ Stack(b.recycled) /\ Stack(b.m) /\ b.room \in Nat /\ b.idx \in 0 .. PAGE_MAX
          /\ Split(Held(b.m), Held(x), Held(b.recycled), out, b.idx)
          /\ b.dirty \intersect Held(b.recycled) = {} /\ b.dirty \subseteq 0 .. b.idx
          /\ 0 \in Held(b.m)
      BY <2>1 DEF Good
    <3> HIDE DEF x, p, w, t, a
    <3>3. /\ p \in 0 .. b.idx /\ p \notin Held(b.recycled) /\ p \notin Held(b.m) /\ p \notin out
          /\ Held(b.recycled) \subseteq 0 .. b.idx /\ Held(b.m) \subseteq 0 .. b.idx
      BY <2>5, <2>7, <3>2 DEF Split
    <3>4. /\ p \in 0 .. PAGE_MAX
          /\ Held(b.recycled) \subseteq 0 .. PAGE_MAX /\ Held(b.m) \subseteq 0 .. PAGE_MAX
      BY <3>2, <3>3, Bounds
    <3>5. /\ Shape(w) /\ Intact(w) /\ w.room \in Nat /\ Stack(w.recycled) /\ Stack(w.m)
          /\ p \in 0 .. PAGE_MAX /\ p \notin Held(w.recycled) /\ p \notin Held(w.m)
          /\ Held(w.recycled) \subseteq 0 .. PAGE_MAX /\ Held(w.m) \subseteq 0 .. PAGE_MAX
      BY <1>3, <1>6, <3>2, <3>3, <3>4 DEF Intact
    <3>6. /\ Shape(t) /\ t.idx = w.idx /\ t.retired = w.retired
          /\ Intact(t) =>
               /\ t.room \in Nat /\ Stack(t.recycled) /\ Stack(t.m)
               /\ \/ /\ Held(t.recycled) = Held(w.recycled) \union {p}
                     /\ Held(t.m) = Held(w.m) /\ t.dirty = w.dirty
                  \/ /\ Held(t.recycled) = Held(w.recycled)
                     /\ Held(t.m) = Held(w.m) \union {p}
                     /\ t.dirty = w.dirty \union {p}
      <4>1. t = AddRecycled(w, p) BY <3>1
      <4>2. QED BY ONLY <3>5, <4>1, AddRecycledParts
    <3>7. CASE ~Intact(t)
      BY <1>4, <3>6, <3>7 DEF a, t, w, p
    <3>8. CASE Intact(t)
      <4>1. y = v BY <1>3, <3>6 DEF u, v, x
      <4>2. /\ Shape(a) /\ a.idx = t.idx /\ a.room = t.room /\ a.m = t.m
            /\ a.recycled = t.recycled /\ a.dirty = t.dirty /\ a.retired = v
            /\ a.fatal = t.fatal /\ a.misled = t.misled
        <5>1. a = [t EXCEPT !.retired = v] BY <1>1, <4>1
        <5>2. QED BY <3>6, <5>1 DEF Shape
      <4>3. Split(Held(a.m), Held(a.retired), Held(a.recycled), out, a.idx)
        <5> HIDE DEF y, d
        <5>1. Split(Held(b.m), Held(x), Held(b.recycled), out, b.idx) /\ p \in Held(x)
              /\ Held(v) = Held(x) \ {p}
          BY <2>4, <2>5, <2>7, <3>2
        <5>2. \/ Held(a.recycled) = Held(b.recycled) \union {p} /\ Held(a.m) = Held(b.m)
              \/ Held(a.recycled) = Held(b.recycled) /\ Held(a.m) = Held(b.m) \union {p}
          BY <1>3, <3>6, <3>8, <4>2
        <5>3. a.idx = b.idx /\ a.retired = v
          BY <1>3, <3>6, <4>2
        <5>4. QED BY ONLY <5>1, <5>2, <5>3 DEF Split
      <4>4. a.dirty \intersect Held(a.recycled) = {} /\ a.dirty \subseteq 0 .. a.idx
        <5>1. \/ Held(t.recycled) = Held(b.recycled) \union {p} /\ t.dirty = b.dirty \ {p}
              \/ Held(t.recycled) = Held(b.recycled) /\ t.dirty = (b.dirty \ {p}) \union {p}
          BY <1>3, <3>6, <3>8 DEF d, p
        <5>2. a.idx = b.idx BY <1>3, <3>6, <4>2
        <5>3. QED BY <3>2, <3>3, <4>2, <5>1, <5>2
      <4>5. 0 \in Held(a.m)
        BY <1>3, <3>2, <3>6, <3>8, <4>2
      <4>6. a.idx \in 0 .. PAGE_MAX /\ a.room \in Nat
        BY <1>3, <3>2, <3>6, <3>8, <4>2
      <4>7. Good(a, out)
        BY <2>3, <3>6, <3>8, <4>2, <4>3, <4>4, <4>5, <4>6 DEF Good
      <4>8. QED BY <1>6, <2>3, <4>2, <4>7 DEF Fine, a, t, w, p
    <3>9. QED BY <3>7, <3>8
  <2>8. QED BY <2>6, <2>7
<1>7. QED BY <1>5, <1>6

\* The first N passes of the loop of MemBook_WipePages, as its function defines them.
Wiped(a) == IF a.retired.end THEN a ELSE WipeOne(a)

Passes(f, b, N) ==
  f = [n \in 0 .. N |-> IF n = 0 THEN [b EXCEPT !.retired = Iter_Prev(@)]
                        ELSE Wiped(f[n - 1])]

\* There is such a function for every N.
LEMMA WipePasses ==
  ASSUME NEW b
  PROVE  \A N \in Nat : \E f : Passes(f, b, N)
<1> DEFINE base == [b EXCEPT !.retired = Iter_Prev(@)]
           Is(f, N) == f = [n \in 0 .. N |-> IF n = 0 THEN base ELSE Wiped(f[n - 1])]
           S == {N \in Nat : \E f : Is(f, N)}
<1> HIDE DEF base
<1>1. 0 \in S
  <2> DEFINE f == [n \in 0 .. 0 |-> base]
  <2>1. f = [n \in 0 .. 0 |-> IF n = 0 THEN base ELSE Wiped(f[n - 1])]
    OBVIOUS
  <2> HIDE DEF f
  <2>2. Is(f, 0) BY <2>1
  <2>3. QED BY <2>2
<1>2. ASSUME NEW N \in Nat, N \in S PROVE N + 1 \in S
  <2>1. PICK f : Is(f, N) BY <1>2
  <2> DEFINE g == [n \in 0 .. N + 1 |-> IF n <= N THEN f[n] ELSE Wiped(f[N])]
  <2>2. \A n \in 0 .. N : f[n] = IF n = 0 THEN base ELSE Wiped(f[n - 1])
    <3>1. f = [n \in 0 .. N |-> IF n = 0 THEN base ELSE Wiped(f[n - 1])]
      BY <2>1
    <3> HIDE DEF Is
    <3>2. QED BY <3>1
  <2>3. ASSUME NEW n \in 0 .. N + 1
        PROVE  g[n] = IF n = 0 THEN base ELSE Wiped(g[n - 1])
    <3>1. CASE n <= N
      <4>1. n \in 0 .. N /\ g[n] = f[n] BY <3>1
      <4>2. n # 0 => g[n - 1] = f[n - 1] BY <3>1
      <4>3. QED BY <2>2, <4>1, <4>2
    <3>2. CASE ~(n <= N)
      <4>1. n = N + 1 /\ g[n] = Wiped(f[N]) /\ n - 1 = N BY <3>2
      <4>2. g[N] = f[N] OBVIOUS
      <4>3. QED BY <4>1, <4>2
    <3>3. QED BY <3>1, <3>2
  <2>4. g = [n \in 0 .. N + 1 |-> g[n]] OBVIOUS
  <2> HIDE DEF g
  <2>5. Is(g, N + 1) BY <2>3, <2>4
  <2>6. QED BY <2>5
<1>3. \A N \in Nat : N \in S => N + 1 \in S
  BY <1>2
<1> HIDE DEF S
<1>4. Nat \subseteq S
  BY ONLY <1>1, <1>3, SetInduction
<1>5. \A N \in Nat : \E f : Is(f, N)
  BY <1>4 DEF S
<1>6. QED BY <1>5 DEF base, Passes

\* The whole of MemBook_WipePages: it ends, and at most one page still waits.
LEMMA WipePagesFine ==
  ASSUME NEW b, NEW out, Fine(b, out)
  PROVE  LET a == MemBook_WipePages(b)
         IN  /\ Fine(a, out)
             /\ Intact(a) => Intact(b) /\ (Filled(b.retired) => Settled(a.retired))
<1> DEFINE base == [b EXCEPT !.retired = Iter_Prev(@)]
           T == Limit + 1
           Is(f) == f = [n \in 0 .. T |-> IF n = 0 THEN base ELSE Wiped(f[n - 1])]
           pass == CHOOSE f : Is(f)
<1>1. MemBook_WipePages(b) = IF b.fatal THEN b ELSE pass[T]
  BY DEF MemBook_WipePages, Wiped
<1>2. T \in Nat /\ T \in 0 .. T /\ Limit \in Nat BY Bounds
<1> DEFINE Holds(a) == Fine(a, out) /\ (Intact(a) => Intact(b) /\ Wiping(a.retired))
           Low(a, n) == Intact(a) /\ Filled(b.retired) =>
             /\ a.retired.end => Settled(a.retired)
             /\ ~a.retired.end => Draining(a.retired) /\ a.retired.idx < Limit - n
<1>3. Holds(base)
  BY PrevFine
<1>a. Low(base, 0)
  <2> SUFFICES ASSUME Intact(base), Filled(b.retired)
               PROVE  /\ base.retired.end => Settled(base.retired)
                      /\ ~base.retired.end => Draining(base.retired) /\ base.retired.idx < Limit - 0
    OBVIOUS
  <2> DEFINE y == Iter_Prev(b.retired)
  <2>1. Intact(b) BY <1>3
  <2>2. Loose(b.retired) BY <2>1 DEF Fine, Good
  <2>3. (y.end => Settled(y)) /\ (~y.end => Draining(y))
    BY <2>2, PrevFilled
  <2> HIDE DEF y
  <2>4. base.retired = y BY DEF Fine, Shape, y
  <2>5. Draining(y) => y.idx < Limit - 0 BY Bounds DEF Draining
  <2>6. QED BY <2>3, <2>4, <2>5
<1>4. ASSUME NEW a, Holds(a) PROVE Holds(Wiped(a))
  <2>1. CASE a.retired.end BY <1>4, <2>1 DEF Wiped
  <2>2. CASE ~a.retired.end BY <1>4, <2>2, WipeOneFine DEF Wiped
  <2>3. QED BY <2>1, <2>2
<1>b. ASSUME NEW a, NEW n \in Nat, Holds(a), Low(a, n) PROVE Low(Wiped(a), n + 1)
  <2>1. CASE a.retired.end BY <1>b, <2>1 DEF Wiped
  <2>2. CASE ~a.retired.end
    <3> DEFINE x == a.retired
               y == Iter_Prev(Iter_Remove(x))
               c == WipeOne(a)
    <3>1. Wiped(a) = c BY <2>2 DEF Wiped
    <3> SUFFICES ASSUME Intact(c), Filled(b.retired)
                 PROVE  /\ c.retired.end => Settled(c.retired)
                        /\ ~c.retired.end => Draining(c.retired) /\ c.retired.idx < Limit - (n + 1)
      BY <3>1
    <3>2. Intact(a)
      <4>1. Fine(a, out) /\ ~a.retired.end /\ (Intact(a) => Wiping(a.retired)) BY <1>b, <2>2
      <4>2. Intact(c) => Intact(a) BY ONLY <4>1, WipeOneFine
      <4>3. QED BY <4>2
    <3>3. Loose(x) /\ Draining(x) /\ x.idx < Limit - n BY <1>b, <2>2, <3>2 DEF Fine, Good
    <3>4. (y.end => Settled(y)) /\ (~y.end => Draining(y) /\ y.idx < x.idx)
      BY <3>3, PassDrains
    <3>5. c.retired = y BY <1>b, WipeSteps DEF Fine
    <3>6. x.idx \in Int BY <3>3, Bounds DEF Draining
    <3> HIDE DEF x, y, c
    <3>7. Draining(y) /\ y.idx < x.idx => y.idx < Limit - (n + 1)
      BY <1>2, <3>3, <3>6, Bounds DEF Draining
    <3>8. QED BY <3>4, <3>5, <3>7
  <2>3. QED BY <2>1, <2>2
<1>5. \E f : Is(f)
  <2>1. \E f : Passes(f, b, T) BY <1>2, WipePasses
  <2>2. QED BY <2>1 DEF Passes
<1> HIDE DEF T, base, Holds, Low
<1>6. Is(pass)
  BY <1>5
<1> HIDE DEF pass
<1>7. \A n \in 0 .. T : pass[n] = IF n = 0 THEN base ELSE Wiped(pass[n - 1])
  <2>1. pass = [n \in 0 .. T |-> IF n = 0 THEN base ELSE Wiped(pass[n - 1])]
    BY <1>6
  <2> HIDE DEF Is
  <2>2. QED BY <2>1
<1> DEFINE S == {n \in Nat : n \in 0 .. T => Holds(pass[n]) /\ Low(pass[n], n)}
<1>8. 0 \in S
  BY <1>2, <1>3, <1>7, <1>a
<1>9. ASSUME NEW n \in Nat, n \in S PROVE n + 1 \in S
  <2>1. SUFFICES ASSUME n + 1 \in 0 .. T PROVE Holds(pass[n + 1]) /\ Low(pass[n + 1], n + 1)
    OBVIOUS
  <2>2. n \in 0 .. T /\ n + 1 # 0 /\ (n + 1) - 1 = n BY <1>2, <2>1
  <2>3. Holds(pass[n]) /\ Low(pass[n], n) BY <1>9, <2>2
  <2>4. pass[n + 1] = Wiped(pass[n]) BY <1>7, <2>1, <2>2
  <2>5. QED BY <1>4, <1>b, <2>3, <2>4
<1>10. \A n \in Nat : n \in S => n + 1 \in S
  BY <1>9
<1> HIDE DEF S
<1>11. Nat \subseteq S
  BY ONLY <1>8, <1>10, SetInduction
<1>12. Holds(pass[T]) /\ Low(pass[T], T)
  BY <1>2, <1>11 DEF S
<1> DEFINE last == pass[T]
<1>13. Intact(last) /\ Filled(b.retired) => Settled(last.retired)
  <2> SUFFICES ASSUME Intact(last), Filled(b.retired) PROVE Settled(last.retired)
    OBVIOUS
  <2>1. ~last.retired.end => Draining(last.retired) /\ last.retired.idx < Limit - T
    BY <1>12 DEF Low
  <2>2. last.retired.end BY <1>2, <2>1, Bounds DEF Draining, T
  <2>3. QED BY <1>12, <2>2 DEF Low
<1>14. CASE b.fatal
  <2>1. ~Intact(b) BY <1>14 DEF Intact
  <2>2. QED BY <1>1, <1>14, <2>1
<1>15. CASE ~b.fatal
  BY <1>1, <1>12, <1>13, <1>15 DEF Holds
<1>16. QED BY <1>14, <1>15

\* Freeing pages that are not outside the book leaves a broken book broken.
LEMMA FreePageBroken ==
  ASSUME NEW b, Shape(b), ~Intact(b), NEW p
  PROVE  Shape(MemBook_FreePage(b, p)) /\ ~Intact(MemBook_FreePage(b, p))
<1>1. Fine(b, {p}) /\ p \in {p}
  BY DEF Fine
<1>2. LET f == MemBook_FreePage(b, p)
      IN  Fine(f, {p} \ {p}) /\ (Intact(f) => Intact(b))
  BY ONLY <1>1, FreePageFine
<1>3. QED BY <1>2 DEF Fine

\* The first N steps of FreeEach, as its function defines them.
Steps(f, b, pages, N) ==
  f = [n \in 0 .. N |-> IF n = 0 THEN b ELSE MemBook_FreePage(f[n - 1], pages[n])]

LEMMA FreeSteps ==
  ASSUME NEW b, NEW pages
  PROVE  \A N \in Nat : \E f : Steps(f, b, pages, N)
<1> DEFINE Step(a, n) == MemBook_FreePage(a, pages[n])
           Is(f, N) == f = [n \in 0 .. N |-> IF n = 0 THEN b ELSE Step(f[n - 1], n)]
           S == {N \in Nat : \E f : Is(f, N)}
<1> HIDE DEF Step
<1>1. 0 \in S
  <2> DEFINE f == [n \in 0 .. 0 |-> b]
  <2>1. f = [n \in 0 .. 0 |-> IF n = 0 THEN b ELSE Step(f[n - 1], n)]
    OBVIOUS
  <2> HIDE DEF f
  <2>2. Is(f, 0) BY <2>1
  <2>3. QED BY <2>2
<1>2. ASSUME NEW N \in Nat, N \in S PROVE N + 1 \in S
  <2>1. PICK f : Is(f, N) BY <1>2
  <2> DEFINE g == [n \in 0 .. N + 1 |-> IF n <= N THEN f[n] ELSE Step(f[N], n)]
  <2>2. \A n \in 0 .. N : f[n] = IF n = 0 THEN b ELSE Step(f[n - 1], n)
    <3>1. f = [n \in 0 .. N |-> IF n = 0 THEN b ELSE Step(f[n - 1], n)]
      BY <2>1
    <3> HIDE DEF Is
    <3>2. QED BY <3>1
  <2>3. ASSUME NEW n \in 0 .. N + 1
        PROVE  g[n] = IF n = 0 THEN b ELSE Step(g[n - 1], n)
    <3>1. CASE n <= N
      <4>1. n \in 0 .. N /\ g[n] = f[n] BY <3>1
      <4>2. n # 0 => g[n - 1] = f[n - 1] BY <3>1
      <4>3. QED BY <2>2, <4>1, <4>2
    <3>2. CASE ~(n <= N)
      <4>1. n = N + 1 /\ g[n] = Step(f[N], n) /\ n - 1 = N BY <3>2
      <4>2. g[N] = f[N] OBVIOUS
      <4>3. QED BY <4>1, <4>2
    <3>3. QED BY <3>1, <3>2
  <2>4. g = [n \in 0 .. N + 1 |-> g[n]] OBVIOUS
  <2> HIDE DEF g
  <2>5. Is(g, N + 1) BY <2>3, <2>4
  <2>6. QED BY <2>5
<1>3. \A N \in Nat : N \in S => N + 1 \in S
  BY <1>2
<1> HIDE DEF S
<1>4. Nat \subseteq S
  BY ONLY <1>1, <1>3, SetInduction
<1>5. \A N \in Nat : \E f : Is(f, N)
  BY <1>4 DEF S
<1>6. QED BY <1>5 DEF Step, Steps

\* Freeing one page after the other frees them all.
LEMMA FreeEachFine ==
  ASSUME NEW b, NEW out, Fine(b, out), NEW pages, Len(pages) \in Nat,
         Intact(b) =>
           /\ \A k \in 1 .. Len(pages) : pages[k] \in out
           /\ \A k, l \in 1 .. Len(pages) : pages[k] = pages[l] => k = l
  PROVE  LET a == FreeEach(b, pages)
         IN  /\ Fine(a, out \ {pages[k] : k \in 1 .. Len(pages)})
             /\ Intact(a) => Intact(b) /\ (Filled(b.retired) => Filled(a.retired))
<1> DEFINE T == Len(pages)
           Left(n) == out \ {pages[k] : k \in 1 .. n}
           freed == CHOOSE f : f = [n \in 0 .. T |->
                      IF n = 0 THEN b ELSE MemBook_FreePage(f[n - 1], pages[n])]
           Kept(a) == Intact(a) => Intact(b) /\ (Filled(b.retired) => Filled(a.retired))
           Holds(n) == Fine(freed[n], Left(n)) /\ Kept(freed[n])
           S == {n \in Nat : n \in 0 .. T => Holds(n)}
<1>1. FreeEach(b, pages) = freed[T]
  BY DEF FreeEach
<1>2. freed = [n \in 0 .. T |->
                 IF n = 0 THEN b ELSE MemBook_FreePage(freed[n - 1], pages[n])]
  <2>1. \E f : Steps(f, b, pages, T) BY FreeSteps
  <2>2. QED BY <2>1 DEF Steps
<1> HIDE DEF freed
<1>3. \A n \in 0 .. T :
        freed[n] = IF n = 0 THEN b ELSE MemBook_FreePage(freed[n - 1], pages[n])
  BY <1>2
<1>4. 0 \in S
  <2>1. freed[0] = b /\ Left(0) = out BY <1>3
  <2>2. QED BY <2>1
<1>5. ASSUME NEW n \in Nat, n \in S PROVE n + 1 \in S
  <2>1. SUFFICES ASSUME n + 1 \in 0 .. T PROVE Holds(n + 1)
    OBVIOUS
  <2> DEFINE a == freed[n]
             p == pages[n + 1]
  <2>2. Fine(a, Left(n)) /\ Kept(a) BY <1>5, <2>1
  <2>3. freed[n + 1] = MemBook_FreePage(a, p) BY <1>3, <2>1
  <2>4. CASE ~Intact(a)
    <3>1. Shape(a) BY <2>2 DEF Fine
    <3> HIDE DEF a
    <3>2. Shape(freed[n + 1]) /\ ~Intact(freed[n + 1])
      BY <2>3, <2>4, <3>1, FreePageBroken
    <3>3. QED BY <3>2 DEF Fine
  <2>5. CASE Intact(a)
    <3>1. p \in Left(n) BY <2>1, <2>2, <2>5
    <3>2. Left(n + 1) = Left(n) \ {p}
      <4>1. 1 .. n + 1 = (1 .. n) \union {n + 1} OBVIOUS
      <4>2. QED BY <4>1
    <3> HIDE DEF a, p, Left
    <3>3. /\ Fine(freed[n + 1], Left(n) \ {p})
          /\ Intact(freed[n + 1]) =>
               Intact(a) /\ (Filled(a.retired) => Filled(freed[n + 1].retired))
      BY <2>2, <2>3, <3>1, FreePageFine
    <3>4. QED BY <2>2, <3>2, <3>3 DEF a
  <2>6. QED BY <2>4, <2>5
<1>6. \A n \in Nat : n \in S => n + 1 \in S
  BY <1>5
<1> HIDE DEF S
<1>7. Nat \subseteq S
  BY ONLY <1>4, <1>6, SetInduction
<1> HIDE DEF Holds
<1>8. Holds(T)
  <2>1. T \in S /\ T \in 0 .. T BY <1>7
  <2>2. QED BY <2>1 DEF S
<1>9. QED BY <1>1, <1>8 DEF Holds

\* MemCh_Free and MemCh_FreeTemp give the pages back, whatever becomes of them.
LEMMA FreePagesFine ==
  ASSUME NEW b, NEW out, Fine(b, out), NEW pages, Len(pages) \in Nat,
         Intact(b) =>
           /\ \A k \in 1 .. Len(pages) : pages[k] \in out
           /\ \A k, l \in 1 .. Len(pages) : pages[k] = pages[l] => k = l
  PROVE  LET a == FreePages(b, pages)
         IN  /\ Fine(a, out \ {pages[k] : k \in 1 .. Len(pages)})
             /\ Intact(a) => Intact(b) /\ (Filled(b.retired) => Settled(a.retired))
<1> DEFINE a == FreeEach(b, pages)
           left == out \ {pages[k] : k \in 1 .. Len(pages)}
<1>1. Fine(a, left) /\ (Intact(a) => Intact(b) /\ (Filled(b.retired) => Filled(a.retired)))
  BY FreeEachFine
<1> HIDE DEF a, left
<1>2. /\ Fine(MemBook_WipePages(a), left)
      /\ Intact(MemBook_WipePages(a)) =>
           Intact(a) /\ (Filled(a.retired) => Settled(MemBook_WipePages(a).retired))
  BY <1>1, WipePagesFine
<1>3. QED BY <1>1, <1>2 DEF FreePages, a, left
-----------------------------------------------------------------------------
(* Picked numbers the places of S in order: each number from 1 up belongs  *)
(* to one place.                                                           *)
LEMMA PickedPlaces ==
  ASSUME NEW L \in Nat, NEW S \in SUBSET (1 .. L)
  PROVE  LET R(i) == Cardinality({j \in S : j <= i})
         IN  /\ Cardinality(S) \in Nat
             /\ \A i \in S : R(i) \in 1 .. Cardinality(S)
             /\ \A i, j \in S : R(i) = R(j) => i = j
             /\ \A k \in 1 .. Cardinality(S) : \E i \in S : R(i) = k
<1> DEFINE Below(i) == {j \in S : j <= i}
           R(i) == Cardinality(Below(i))
           n == Cardinality(S)
<1>1. 1 \in Int /\ L \in Int OBVIOUS
<1>2. IsFiniteSet(1 .. L) BY ONLY <1>1, FS_Interval
<1>3. IsFiniteSet(S) BY <1>2, FS_Subset
<1>4. n \in Nat BY <1>3, FS_CardinalityType
<1>5. \A i : Below(i) \in SUBSET S OBVIOUS
<1>6. ASSUME NEW i PROVE IsFiniteSet(Below(i)) /\ R(i) \in Nat /\ R(i) <= n
  <2>1. Below(i) \in SUBSET S BY <1>5
  <2> HIDE DEF Below
  <2>2. IsFiniteSet(Below(i)) /\ Cardinality(Below(i)) <= Cardinality(S)
    BY ONLY <1>3, <2>1, FS_Subset
  <2>3. Cardinality(Below(i)) \in Nat BY ONLY <2>2, FS_CardinalityType
  <2>4. QED BY <2>2, <2>3
<1>7. ASSUME NEW i \in S PROVE R(i) >= 1
  <2>1. i \in Below(i) /\ i \in Int OBVIOUS
  <2> DEFINE B == Below(i)
  <2>2. IsFiniteSet(B) /\ R(i) = Cardinality(B) /\ B # {} /\ R(i) \in Nat
    BY <1>6, <2>1
  <2> HIDE DEF Below, B
  <2>3. Cardinality(B) # 0 BY ONLY <2>2, FS_EmptySet
  <2>4. QED BY <2>2, <2>3
<1>8. ASSUME NEW i \in S, NEW j \in S, i < j PROVE R(i) < R(j)
  <2> DEFINE B == Below(i)
             C == B \union {j}
  <2>a. i \in Int /\ j \in Int /\ \A k \in S : k \in Int OBVIOUS
  <2>b. j \notin B BY <1>8, <2>a
  <2>c. ASSUME NEW k \in B PROVE k \in Below(j)
    <3>1. k \in S /\ k <= i /\ k \in Int BY <2>a
    <3>2. k <= j BY <1>8, <2>a, <3>1
    <3>3. QED BY <3>1, <3>2
  <2>d. j \in Below(j) BY <2>a
  <2>1. j \notin B /\ C \in SUBSET Below(j)
    BY <2>b, <2>c, <2>d
  <2>2. IsFiniteSet(B) /\ R(i) = Cardinality(B) /\ R(i) \in Nat /\ R(j) \in Nat
    BY <1>6
  <2>3. IsFiniteSet(Below(j)) BY <1>6
  <2> HIDE DEF Below, B
  <2>4. Cardinality(C) = Cardinality(B) + 1
    BY ONLY <2>1, <2>2, FS_AddElement
  <2> HIDE DEF C
  <2>5. Cardinality(C) <= Cardinality(Below(j))
    BY ONLY <2>1, <2>3, FS_Subset
  <2>6. QED BY <2>2, <2>4, <2>5
<1> DEFINE f == [i \in S |-> R(i)]
           T == 1 .. n
<1> HIDE DEF Below, R
<1>9. \A i, j \in S : R(i) = R(j) => i = j
  <2> SUFFICES ASSUME NEW i \in S, NEW j \in S, R(i) = R(j) PROVE i = j
    OBVIOUS
  <2>1. i \in Int /\ j \in Int /\ R(i) \in Nat BY <1>6 DEF R
  <2>2. ~(i < j) BY <1>8, <2>1
  <2>3. ~(j < i) BY <1>8, <2>1
  <2>4. QED BY <2>1, <2>2, <2>3
<1>10. \A i \in S : R(i) \in T
  BY <1>4, <1>6, <1>7 DEF R
<1>11. f \in Injection(S, T)
  BY <1>9, <1>10 DEF Injection, IsInjective
<1>12. IsFiniteSet(T) /\ Cardinality(T) = n
  <2>1. 1 \in Int /\ n \in Int BY <1>4
  <2>2. IsFiniteSet(1 .. n) /\ Cardinality(1 .. n) = IF 1 > n THEN 0 ELSE n - 1 + 1
    BY ONLY <2>1, FS_Interval
  <2>3. QED BY <1>4, <2>2
<1> HIDE DEF f, T
<1>13. f \in Surjection(S, T)
  <2>1. Cardinality(S) = Cardinality(T) <=> f \in Surjection(S, T)
    BY ONLY <1>11, <1>12, FS_Injection
  <2>2. QED BY <1>12, <2>1
<1>14. \A k \in T : \E i \in S : f[i] = k
  BY <1>13 DEF Surjection
<1>15. \A k \in T : \E i \in S : R(i) = k
  BY <1>14 DEF f
<1>16. QED BY <1>4, <1>9, <1>10, <1>15 DEF R, Below, T

\* Picked has each of the chosen members once.
LEMMA PickedMembers ==
  ASSUME NEW L \in Nat, NEW S \in SUBSET (1 .. L), NEW s
  PROVE  LET t == Picked(s, S)
         IN  /\ Len(t) \in Nat /\ t \in Seq({s[i] : i \in S})
             /\ {t[k] : k \in 1 .. Len(t)} = {s[i] : i \in S}
             /\ (\A i, j \in S : s[i] = s[j] => i = j) =>
                  \A k, l \in 1 .. Len(t) : t[k] = t[l] => k = l
<1> DEFINE R(i) == Cardinality({j \in S : j <= i})
           n == Cardinality(S)
           At(k) == CHOOSE i \in S : R(i) = k
           t == Picked(s, S)
<1>1. /\ n \in Nat
      /\ \A i \in S : R(i) \in 1 .. n
      /\ \A i, j \in S : R(i) = R(j) => i = j
      /\ \A k \in 1 .. n : \E i \in S : R(i) = k
  BY PickedPlaces
<1>2. t = [k \in 1 .. n |-> s[At(k)]]
  BY DEF Picked
<1> HIDE DEF R, n
<1>3. \A k \in 1 .. n : At(k) \in S /\ R(At(k)) = k
  BY <1>1
<1>4. \A i \in S : At(R(i)) = i
  BY <1>1, <1>3
<1> HIDE DEF At
<1> HIDE DEF t
<1>5. t \in Seq({s[i] : i \in S}) /\ Len(t) = n
  BY <1>1, <1>2, <1>3
<1>6. {t[k] : k \in 1 .. n} = {s[i] : i \in S}
  <2>1. \A k \in 1 .. n : t[k] = s[At(k)] BY <1>2
  <2>2. \A k \in 1 .. n : t[k] \in {s[i] : i \in S} BY <1>3, <2>1
  <2>3. ASSUME NEW i \in S PROVE s[i] \in {t[k] : k \in 1 .. n}
    <3>1. R(i) \in 1 .. n /\ t[R(i)] = s[i] BY <1>1, <1>4, <2>1
    <3>2. QED BY <3>1
  <2>4. QED BY <2>2, <2>3
<1>7. ASSUME \A i, j \in S : s[i] = s[j] => i = j,
             NEW k \in 1 .. n, NEW l \in 1 .. n, t[k] = t[l]
      PROVE  k = l
  <2>1. s[At(k)] = s[At(l)] BY <1>2, <1>7
  <2>2. At(k) = At(l) BY <1>3, <1>7, <2>1
  <2>3. QED BY <1>3, <2>2
<1>8. /\ Len(t) \in Nat /\ t \in Seq({s[i] : i \in S})
      /\ {t[k] : k \in 1 .. Len(t)} = {s[i] : i \in S}
      /\ (\A i, j \in S : s[i] = s[j] => i = j) =>
           \A k, l \in 1 .. Len(t) : t[k] = t[l] => k = l
  <2>1. 1 .. Len(t) = 1 .. n BY <1>5
  <2>2. Len(t) \in Nat BY <1>1, <1>5
  <2>3. {t[k] : k \in 1 .. Len(t)} = {s[i] : i \in S}
    BY ONLY <1>6, <2>1
  <2>4. ASSUME \A i, j \in S : s[i] = s[j] => i = j
        PROVE  \A k, l \in 1 .. Len(t) : t[k] = t[l] => k = l
    BY ONLY <1>7, <2>1, <2>4
  <2>5. QED BY ONLY <1>5, <2>2, <2>3, <2>4
<1>9. QED BY ONLY <1>8 DEF t
-----------------------------------------------------------------------------
(* The chapters' pages: no page twice, none with two chapters.             *)
Owned(o) ==
  /\ o \in [Chapters -> Seq(Page)]
  /\ \A c \in Chapters : \A i, j \in 1 .. Len(o[c]) : o[c][i] = o[c][j] => i = j
  /\ \A c, d \in Chapters : c # d => Pages(o[c]) \intersect Pages(o[d]) = {}

Out(o) == UNION {Pages(o[c]) : c \in Chapters}

Listed(o) ==
  o = [c \in Chapters |-> o[c]] /\ \A c \in Chapters : \E S : o[c] \in Seq(S)

Sound(b, o) ==
  /\ Shape(b) /\ Listed(o)
  /\ Intact(b) => Good(b, Out(o)) /\ Owned(o) /\ Settled(b.retired)

(* The inductive invariant.                                                *)
BookInv == Sound(book, owns)

LEMMA OutUpdate ==
  ASSUME NEW o, Owned(o), NEW c \in Chapters, NEW s \in Seq(Page),
         \A i, j \in 1 .. Len(s) : s[i] = s[j] => i = j,
         \A d \in Chapters \ {c} : Pages(s) \intersect Pages(o[d]) = {}
  PROVE  /\ Owned([o EXCEPT ![c] = s])
         /\ Out([o EXCEPT ![c] = s]) = (Out(o) \ Pages(o[c])) \union Pages(s)
<1> DEFINE u == [o EXCEPT ![c] = s]
<1>1. o \in [Chapters -> Seq(Page)] BY DEF Owned
<1>2. u \in [Chapters -> Seq(Page)] /\ u[c] = s /\ \A d \in Chapters \ {c} : u[d] = o[d]
  BY <1>1
<1> HIDE DEF u
<1>3. \A d \in Chapters : \A i, j \in 1 .. Len(u[d]) : u[d][i] = u[d][j] => i = j
  BY <1>2 DEF Owned
<1>4. ASSUME NEW d \in Chapters, NEW e \in Chapters, d # e
      PROVE  Pages(u[d]) \intersect Pages(u[e]) = {}
  <2>1. CASE d = c
    <3>1. Pages(s) \intersect Pages(o[e]) = {} BY <1>4, <2>1
    <3>2. QED BY <1>2, <1>4, <2>1, <3>1
  <2>2. CASE e = c
    <3>1. Pages(s) \intersect Pages(o[d]) = {} BY <1>4, <2>2
    <3>2. QED BY <1>2, <1>4, <2>2, <3>1
  <2>3. CASE d # c /\ e # c
    <3>1. Pages(o[d]) \intersect Pages(o[e]) = {} BY <1>4 DEF Owned
    <3>2. QED BY <1>2, <2>3, <3>1
  <2>4. QED BY <2>1, <2>2, <2>3
<1>5. Owned(u) BY <1>2, <1>3, <1>4 DEF Owned
<1>6. Out(u) = (Out(o) \ Pages(o[c])) \union Pages(s)
  <2>1. ASSUME NEW p, p \in Out(u)
        PROVE  p \in (Out(o) \ Pages(o[c])) \union Pages(s)
    <3>1. PICK d \in Chapters : p \in Pages(u[d]) BY <2>1 DEF Out
    <3>2. CASE d = c BY <1>2, <3>1, <3>2
    <3>3. CASE d # c
      <4>1. p \in Pages(o[d]) BY <1>2, <3>1, <3>3
      <4>2. p \notin Pages(o[c]) BY <3>3, <4>1 DEF Owned
      <4>3. QED BY <4>1, <4>2 DEF Out
    <3>4. QED BY <3>2, <3>3
  <2>2. ASSUME NEW p, p \in (Out(o) \ Pages(o[c])) \union Pages(s)
        PROVE  p \in Out(u)
    <3>1. CASE p \in Pages(s) BY <1>2, <3>1 DEF Out
    <3>2. CASE p \in Out(o) \ Pages(o[c])
      <4>1. PICK d \in Chapters : p \in Pages(o[d]) BY <3>2 DEF Out
      <4>2. d # c BY <3>2, <4>1
      <4>3. p \in Pages(u[d]) BY <1>2, <4>1, <4>2
      <4>4. QED BY <4>3 DEF Out
    <3>3. QED BY <2>2, <3>1, <3>2
  <2>3. QED BY <2>1, <2>2
<1>7. QED BY <1>5, <1>6 DEF u

LEMMA ListedUpdate ==
  ASSUME NEW o, Listed(o), NEW c \in Chapters, NEW S, NEW s \in Seq(S)
  PROVE  Listed([o EXCEPT ![c] = s])
<1> DEFINE u == [o EXCEPT ![c] = s]
<1>1. \A d \in Chapters : u[d] = IF d = c THEN s ELSE o[d] BY DEF Listed
<1>2. u = [d \in Chapters |-> u[d]] BY DEF Listed
<1> HIDE DEF u
<1>3. \A d \in Chapters : \E T : u[d] \in Seq(T) BY <1>1 DEF Listed
<1>4. QED BY <1>2, <1>3 DEF Listed, u

\* A chapter takes a page.
LEMMA TakeSound ==
  ASSUME NEW b, NEW o, Sound(b, o), NEW c \in Chapters
  PROVE  LET g == GetPage(b).book
             p == GetPage(b).page
         IN  /\ Sound(g, [o EXCEPT ![c] = Append(o[c], p)])
             /\ Intact(g) => /\ p \in Page \ b.dirty
                             /\ Pages(Append(o[c], p)) = Pages(o[c]) \union {p}
                             /\ Intact(b)
<1> DEFINE g == GetPage(b).book
           p == GetPage(b).page
           s == Append(o[c], p)
<1>1. Shape(b) /\ Listed(o) BY DEF Sound
<1>2. Shape(g) /\ (Intact(g) => Intact(b) /\ Settled(g.retired))
  <2>1. CASE Intact(b)
    <3>1. Good(b, Out(o)) /\ Settled(b.retired) BY <2>1 DEF Sound
    <3>2. QED BY <1>1, <2>1, <3>1, GetPageGood
  <2>2. CASE ~Intact(b) BY <1>1, <2>2, GetPageBroken
  <2>3. QED BY <2>1, <2>2
<1>3. Intact(g) => /\ p \in 1 .. PAGE_MAX /\ p \notin Out(o) /\ p \notin b.dirty
                   /\ Good(g, Out(o) \union {p})
  <2> SUFFICES ASSUME Intact(g)
               PROVE  /\ p \in 1 .. PAGE_MAX /\ p \notin Out(o) /\ p \notin b.dirty
                      /\ Good(g, Out(o) \union {p})
    OBVIOUS
  <2>1. Intact(b) /\ Good(b, Out(o)) BY <1>2 DEF Sound
  <2>2. QED BY <1>1, <2>1, GetPageGood
<1> HIDE DEF g, p
<1>4. PICK S : o[c] \in Seq(S) BY <1>1 DEF Listed
<1>5. s \in Seq(S \union {p})
  <2>1. o[c] \in Seq(S \union {p}) BY <1>4
  <2>2. QED BY <2>1
<1>6. Listed([o EXCEPT ![c] = s]) BY <1>1, <1>5, ListedUpdate
<1>7. ASSUME Intact(g)
      PROVE  /\ Good(g, Out([o EXCEPT ![c] = s])) /\ Owned([o EXCEPT ![c] = s])
             /\ Pages(s) = Pages(o[c]) \union {p}
  <2>1. Owned(o) BY <1>2, <1>7 DEF Sound
  <2>2. /\ p \in Page /\ \A d \in Chapters : p \notin Pages(o[d])
    BY <1>3, <1>7 DEF Out, Page
  <2>3. o[c] \in Seq(Page) BY <2>1 DEF Owned
  <2>4. /\ s \in Seq(Page) /\ Len(s) = Len(o[c]) + 1 /\ Len(o[c]) \in Nat
        /\ s[Len(o[c]) + 1] = p /\ \A i \in 1 .. Len(o[c]) : s[i] = o[c][i]
        /\ DOMAIN s = 1 .. Len(s) /\ DOMAIN o[c] = 1 .. Len(o[c])
    BY <2>2, <2>3
  <2> HIDE DEF s
  <2>5. Pages(s) = Pages(o[c]) \union {p}
    BY <2>4 DEF Pages
  <2>6. \A i, j \in 1 .. Len(s) : s[i] = s[j] => i = j
    <3>1. \A i \in 1 .. Len(o[c]) : s[i] # p BY <2>2, <2>4 DEF Pages
    <3>2. \A i, j \in 1 .. Len(o[c]) : s[i] = s[j] => i = j
      BY <2>1, <2>4 DEF Owned
    <3>3. QED BY <2>4, <3>1, <3>2
  <2>7. \A d \in Chapters \ {c} : Pages(s) \intersect Pages(o[d]) = {}
    BY <2>1, <2>2, <2>5 DEF Owned
  <2>a. s \in Seq(Page) BY <2>4
  <2>8. /\ Owned([o EXCEPT ![c] = s])
        /\ Out([o EXCEPT ![c] = s]) = (Out(o) \ Pages(o[c])) \union Pages(s)
    BY ONLY <2>1, <2>a, <2>6, <2>7, c \in Chapters, OutUpdate
  <2>9. (Out(o) \ Pages(o[c])) \union Pages(s) = Out(o) \union {p}
    BY <2>5 DEF Out
  <2>10. QED BY <1>3, <1>7, <2>5, <2>8, <2>9
<1> HIDE DEF s
<1>8. Sound(g, [o EXCEPT ![c] = s])
  BY <1>2, <1>6, <1>7 DEF Sound
<1>9. QED BY <1>2, <1>3, <1>7, <1>8 DEF g, p, s, Page

(* A chapter frees the pages listed in s and keeps those of t.             *)
LEMMA GiveBack ==
  ASSUME NEW b, NEW o, Sound(b, o), NEW c \in Chapters,
         NEW s, Len(s) \in Nat, NEW S, NEW t \in Seq(S),
         Owned(o) =>
           /\ \A i, j \in 1 .. Len(s) : s[i] = s[j] => i = j
           /\ t \in Seq(Page) /\ \A i, j \in 1 .. Len(t) : t[i] = t[j] => i = j
           /\ {s[k] : k \in 1 .. Len(s)} = Pages(o[c]) \ Pages(t)
           /\ Pages(t) \subseteq Pages(o[c])
  PROVE  /\ Sound(FreePages(b, s), [o EXCEPT ![c] = t])
         /\ Intact(FreePages(b, s)) => Intact(b)
<1> DEFINE given == {s[k] : k \in 1 .. Len(s)}
           a == FreePages(b, s)
<1>1. Shape(b) /\ Listed(o) /\ Fine(b, Out(o)) BY DEF Sound, Fine
<1>2. Intact(b) =>
        /\ \A k \in 1 .. Len(s) : s[k] \in Out(o)
        /\ \A k, l \in 1 .. Len(s) : s[k] = s[l] => k = l
  <2> SUFFICES ASSUME Intact(b)
               PROVE  /\ \A k \in 1 .. Len(s) : s[k] \in Out(o)
                      /\ \A k, l \in 1 .. Len(s) : s[k] = s[l] => k = l
    OBVIOUS
  <2>1. Owned(o) BY DEF Sound
  <2>2. \A k \in 1 .. Len(s) : s[k] \in given OBVIOUS
  <2>3. given = Pages(o[c]) \ Pages(t) BY <2>1
  <2> HIDE DEF given
  <2>4. \A k \in 1 .. Len(s) : s[k] \in Out(o) BY <2>2, <2>3 DEF Out
  <2>5. QED BY <2>1, <2>4
<1>3. /\ Fine(a, Out(o) \ given)
      /\ Intact(a) => Intact(b) /\ (Filled(b.retired) => Settled(a.retired))
  BY <1>1, <1>2, FreePagesFine
<1>a. Intact(b) => Filled(b.retired) BY DEF Sound, Settled
<1>4. Listed([o EXCEPT ![c] = t]) BY <1>1, ListedUpdate
<1> HIDE DEF a
<1>5. ASSUME Intact(a)
      PROVE  Good(a, Out([o EXCEPT ![c] = t])) /\ Owned([o EXCEPT ![c] = t])
  <2>1. Owned(o) /\ Good(a, Out(o) \ given) BY <1>3, <1>5 DEF Sound, Fine
  <2>2. given = Pages(o[c]) \ Pages(t) /\ Pages(t) \subseteq Pages(o[c])
    BY <2>1
  <2> HIDE DEF given
  <2>3. \A d \in Chapters \ {c} : Pages(t) \intersect Pages(o[d]) = {}
    BY <2>1, <2>2 DEF Owned
  <2>4. /\ Owned([o EXCEPT ![c] = t])
        /\ Out([o EXCEPT ![c] = t]) = (Out(o) \ Pages(o[c])) \union Pages(t)
    BY <2>1, <2>3, OutUpdate
  <2>5. (Out(o) \ Pages(o[c])) \union Pages(t) = Out(o) \ given
    BY <2>2 DEF Out
  <2>6. QED BY <2>1, <2>4, <2>5
<1>6. Shape(a) BY <1>3 DEF Fine
<1>7. QED BY <1>3, <1>4, <1>5, <1>6, <1>a DEF Sound, a
LEMMA FreeTempSound ==
  ASSUME NEW b, NEW o, Sound(b, o), NEW c \in Chapters,
         NEW temp \in SUBSET (2 .. Len(o[c]))
  PROVE  LET f == FreePages(b, Picked(o[c], temp))
         IN  /\ Sound(f, [o EXCEPT ![c] = Picked(o[c], DOMAIN o[c] \ temp)])
             /\ Intact(f) => Intact(b)
             /\ Pages(Picked(o[c], DOMAIN o[c] \ temp)) \subseteq Pages(o[c])
<1> DEFINE q == o[c]
           rest == DOMAIN q \ temp
           s == Picked(q, temp)
           t == Picked(q, rest)
           S == {q[i] : i \in rest}
<1>1. PICK X : q \in Seq(X) BY DEF Sound, Listed
<1>2. Len(q) \in Nat /\ DOMAIN q = 1 .. Len(q) BY <1>1
<1>3. temp \in SUBSET (1 .. Len(q)) /\ rest \in SUBSET (1 .. Len(q))
  BY <1>2
<1>4. /\ Len(s) \in Nat
      /\ {s[k] : k \in 1 .. Len(s)} = {q[i] : i \in temp}
      /\ (\A i, j \in temp : q[i] = q[j] => i = j) =>
           \A k, l \in 1 .. Len(s) : s[k] = s[l] => k = l
  BY <1>2, <1>3, PickedMembers
<1>5. /\ Len(t) \in Nat /\ t \in Seq(S)
      /\ {t[k] : k \in 1 .. Len(t)} = S
      /\ (\A i, j \in rest : q[i] = q[j] => i = j) =>
           \A k, l \in 1 .. Len(t) : t[k] = t[l] => k = l
  BY <1>2, <1>3, PickedMembers
<1> HIDE DEF s, t
<1>6. ASSUME Owned(o)
      PROVE  /\ \A i, j \in 1 .. Len(s) : s[i] = s[j] => i = j
             /\ t \in Seq(Page) /\ \A i, j \in 1 .. Len(t) : t[i] = t[j] => i = j
             /\ {s[k] : k \in 1 .. Len(s)} = Pages(q) \ Pages(t)
             /\ Pages(t) \subseteq Pages(q)
  <2>1. q \in Seq(Page) /\ \A i, j \in 1 .. Len(q) : q[i] = q[j] => i = j
    BY <1>6 DEF Owned
  <2>2. Pages(q) = {q[i] : i \in 1 .. Len(q)} BY <1>2 DEF Pages
  <2>3. DOMAIN t = 1 .. Len(t) BY <1>5
  <2>4. Pages(t) = S BY <1>5, <2>3 DEF Pages
  <2>5. \A i, j \in temp : q[i] = q[j] => i = j BY <1>3, <2>1
  <2>6. \A i, j \in rest : q[i] = q[j] => i = j BY <1>3, <2>1
  <2>7. S \subseteq Page BY <1>3, <2>1
  <2>8. t \in Seq(Page)
    <3> HIDE DEF S
    <3>1. QED BY <1>5, <2>7
  <2>9. {q[i] : i \in temp} = Pages(q) \ S
    <3>1. \A i \in temp : q[i] \in Pages(q) /\ q[i] \notin S
      BY <1>2, <1>3, <2>1, <2>2
    <3>2. \A p \in Pages(q) : p \notin S => \E i \in temp : p = q[i]
      BY <1>2, <2>2
    <3>3. QED BY <3>1, <3>2
  <2>10. S \subseteq Pages(q) BY <1>3, <2>2
  <2>11. {s[k] : k \in 1 .. Len(s)} = Pages(q) \ Pages(t)
    BY ONLY <1>4, <2>4, <2>9
  <2>12. \A i, j \in 1 .. Len(s) : s[i] = s[j] => i = j
    BY ONLY <1>4, <2>5
  <2>13. \A i, j \in 1 .. Len(t) : t[i] = t[j] => i = j
    BY ONLY <1>5, <2>6
  <2> HIDE DEF S
  <2>14. QED BY ONLY <2>4, <2>8, <2>10, <2>11, <2>12, <2>13
<1>7. Len(s) \in Nat /\ t \in Seq(S) BY <1>4, <1>5
<1> HIDE DEF S
<1>8. /\ Sound(FreePages(b, s), [o EXCEPT ![c] = t])
      /\ Intact(FreePages(b, s)) => Intact(b)
  BY ONLY Sound(b, o), c \in Chapters, <1>6, <1>7, GiveBack DEF q
<1>9. Pages(t) \subseteq Pages(q)
  <2>1. DOMAIN t = 1 .. Len(t) BY <1>5
  <2>2. Pages(t) = S BY <1>5, <2>1 DEF Pages
  <2>3. S \subseteq Pages(q) BY <1>2, <1>3 DEF Pages, S
  <2>4. QED BY <2>2, <2>3
<1>10. QED BY <1>8, <1>9 DEF s, t

LEMMA FreeSound ==
  ASSUME NEW b, NEW o, Sound(b, o), NEW c \in Chapters
  PROVE  LET f == FreePages(b, o[c])
         IN  Sound(f, [o EXCEPT ![c] = <<>>]) /\ (Intact(f) => Intact(b))
<1> DEFINE s == o[c]
           t == <<>>
<1>1. PICK X : s \in Seq(X) BY DEF Sound, Listed
<1>2. Len(s) \in Nat /\ DOMAIN s = 1 .. Len(s) BY <1>1
<1>3. t \in Seq(X) /\ t \in Seq(Page) /\ Len(t) = 0 /\ DOMAIN t = {} OBVIOUS
<1> HIDE DEF t
<1>4. Pages(t) = {} BY <1>3 DEF Pages
<1>5. ASSUME Owned(o)
      PROVE  /\ \A i, j \in 1 .. Len(s) : s[i] = s[j] => i = j
             /\ t \in Seq(Page) /\ \A i, j \in 1 .. Len(t) : t[i] = t[j] => i = j
             /\ {s[k] : k \in 1 .. Len(s)} = Pages(s) \ Pages(t)
             /\ Pages(t) \subseteq Pages(s)
  <2>1. \A i, j \in 1 .. Len(s) : s[i] = s[j] => i = j BY <1>5 DEF Owned
  <2>2. \A i, j \in 1 .. Len(t) : t[i] = t[j] => i = j BY <1>3
  <2>3. Pages(s) = {s[k] : k \in 1 .. Len(s)} BY <1>2 DEF Pages
  <2>4. QED BY <1>3, <1>4, <2>1, <2>2, <2>3
<1>6. t \in Seq(X) BY <1>3
<1>7. /\ Sound(FreePages(b, s), [o EXCEPT ![c] = t])
      /\ Intact(FreePages(b, s)) => Intact(b)
  BY ONLY Sound(b, o), c \in Chapters, <1>2, <1>5, <1>6, GiveBack DEF s
<1>8. QED BY <1>7 DEF t

\* MemBook_Make's book: page 0 holds the slabs of book->m and nothing is freed.
LEMMA MadeSpans ==
  /\ Stack(Span_Make) /\ Held(Span_Make) = {}
  /\ Stack(Store(Span_Make, 0, 0)) /\ Held(Store(Span_Make, 0, 0)) = {0}
<1> DEFINE x == Span_Make
           y == Iter_Add(x, 0)
<1>1. Limit \in Nat /\ Limit > 0 /\ 0 \in Indices
  BY Bounds
<1>2. x \in ReelType(Cell)
  BY <1>1, Bounds, TablesAssumption DEF Span_Make, ReelType
<1>3. /\ \A i \in Indices : x.slots[i] = NULL
      /\ x.max_idx = -1 /\ x.nvalues = 0 /\ x.idx = 0 /\ x.value = NULL
      /\ x.processing = FALSE /\ x.end = FALSE
  BY DEF Span_Make
<1> HIDE DEF x
<1>4. Occupied(x) = {} BY <1>3 DEF Occupied
<1>5. Held(x) = {} BY <1>4 DEF Held
<1>6. Uniq(x) BY <1>4 DEF Uniq
<1>7. Loose(x) BY <1>1, <1>2, <1>3, <1>4, <1>6, Bounds DEF Loose
<1>8. 0 .. x.max_idx = {} BY <1>3
<1>9. Stack(x) BY <1>3, <1>4, <1>7, <1>8 DEF Stack
<1>10. 0 \in 0 .. PAGE_MAX /\ x.max_idx + 1 \in Indices BY <1>1, <1>3, Bounds
<1>11. Loose(y) /\ Held(y) = Held(x) \union {0} /\ (Stack(x) => Stack(y))
  BY <1>5, <1>7, <1>10, AddLoose
<1>12. y = Store(x, 0, 0)
  <2>1. y = [Store(x, 0, 0) EXCEPT !.end = FALSE] BY <1>3 DEF Iter_Add
  <2>a. 0 \in Cell BY <1>10 DEF Cell
  <2>b. Store(x, 0, 0).end = x.end BY <1>2 DEF Store, ReelType
  <2>2. Store(x, 0, 0).end = FALSE BY ONLY <1>3, <2>b
  <2>3. Store(x, 0, 0) \in ReelType(Cell)
    BY <1>1, <1>2, <1>10, StoreType DEF Cell
  <2> DEFINE z == Store(x, 0, 0)
  <2> HIDE DEF z, y
  <2>4. [z EXCEPT !.end = FALSE] = z BY <2>2, <2>3 DEF z, ReelType
  <2>5. QED BY <2>1, <2>4 DEF z
<1> HIDE DEF y
<1>13. QED BY <1>5, <1>9, <1>11, <1>12 DEF x
\* A sequence of different members has as many members as places.
LEMMA PagesCount ==
  ASSUME NEW s, NEW S, s \in Seq(S), \A i, j \in 1 .. Len(s) : s[i] = s[j] => i = j
  PROVE  Cardinality(Pages(s)) = Len(s)
<1> DEFINE T == 1 .. Len(s)
           P == Pages(s)
           f == [i \in T |-> s[i]]
<1>1. Len(s) \in Nat /\ DOMAIN s = T BY DEF T
<1>2. P = {s[i] : i \in T} BY <1>1 DEF Pages
<1>3. 1 \in Int /\ Len(s) \in Int BY <1>1
<1>4. /\ IsFiniteSet(T)
      /\ Cardinality(T) = IF 1 > Len(s) THEN 0 ELSE Len(s) - 1 + 1
  BY ONLY <1>3, FS_Interval
<1>5. Cardinality(T) = Len(s) BY <1>1, <1>4
<1>6. f \in Injection(T, P) BY <1>2 DEF Injection, IsInjective
<1>7. f \in Surjection(T, P) BY <1>2 DEF Surjection
<1> HIDE DEF T, P, f
<1>8. Cardinality(P) = Cardinality(T)
  BY ONLY <1>4, <1>6, <1>7, FS_Surjection
<1>9. QED BY <1>5, <1>8 DEF P

\* A Span of different pages holds as many as it has occupied slots.
LEMMA HeldCount ==
  ASSUME NEW x, Uniq(x)
  PROVE  Cardinality(Held(x)) = Cardinality(Occupied(x))
<1> DEFINE T == Occupied(x)
           P == Held(x)
           f == [i \in T |-> x.slots[i]]
<1>1. IsFiniteSet(T) BY FiniteOccupied
<1>2. f \in Injection(T, P) BY DEF Injection, IsInjective, Held, Uniq
<1>3. f \in Surjection(T, P) BY DEF Surjection, Held
<1> HIDE DEF T, P, f
<1>4. Cardinality(P) = Cardinality(T)
  BY ONLY <1>1, <1>2, <1>3, FS_Surjection
<1>5. QED BY <1>4 DEF T, P
-----------------------------------------------------------------------------
LEMMA MadeSettled == Settled(Span_Make)
<1> DEFINE x == Span_Make
<1>1. /\ \A i \in Indices : x.slots[i] = NULL
      /\ x.max_idx = -1 /\ x.nvalues = 0 /\ x.idx = 0 /\ x.processing = FALSE
  BY DEF Span_Make
<1> HIDE DEF x
<1>2. Occupied(x) = {} BY <1>1 DEF Occupied
<1>3. /\ x.nvalues >= 0 /\ 0 \in 0 .. x.max_idx + 1
      /\ x.nvalues \in {x.max_idx - 0, x.max_idx - 0 + 1}
      /\ x.idx \in {-1, 0} /\ x.max_idx <= 0
  BY <1>1
<1>4. 0 .. x.max_idx = {} BY <1>1
<1>5. Occupied(x) = 0 .. x.max_idx BY <1>2, <1>4
<1>6. Filled(x) BY ONLY <1>3, <1>5 DEF Filled
<1>7. QED BY <1>2, <1>6 DEF Settled, x

LEMMA BookInit == Init => BookInv
<1> SUFFICES ASSUME Init PROVE Sound(book, owns)
  BY DEF BookInv
<1>1. PICK base \in BASE_SLABS :
        book = [idx |-> 0, retired |-> Span_Make, recycled |-> Span_Make,
                m |-> Store(Span_Make, 0, 0), room |-> base,
                dirty |-> {0}, fatal |-> FALSE, misled |-> FALSE]
  BY DEF Init
<1>2. owns = [c \in Chapters |-> <<>>] BY DEF Init
<1>3. Shape(book) BY <1>1 DEF Shape
<1>4. /\ book.idx = 0 /\ book.retired = Span_Make /\ book.recycled = Span_Make
      /\ book.m = Store(Span_Make, 0, 0) /\ book.room = base /\ book.dirty = {0}
  BY <1>1
<1>5. base \in Nat /\ PAGE_MAX \in Nat BY BookAssumption
<1>6. Stack(book.retired) /\ Stack(book.recycled) /\ Stack(book.m)
      /\ Held(book.retired) = {} /\ Held(book.recycled) = {} /\ Held(book.m) = {0}
  BY <1>4, MadeSpans
<1>7. \A c \in Chapters : Len(owns[c]) = 0 /\ Pages(owns[c]) = {} /\ owns[c] \in Seq(Page)
  BY <1>2 DEF Pages
<1>8. owns \in [Chapters -> Seq(Page)] BY <1>2
<1>9. Out(owns) = {} BY <1>7 DEF Out
<1>10. Listed(owns) BY <1>7, <1>8 DEF Listed
<1>11. Owned(owns) BY <1>7, <1>8 DEF Owned
<1>12. 0 .. 0 = {0} OBVIOUS
<1>13. Loose(book.retired) BY <1>6 DEF Stack
<1>14. Split(Held(book.m), Held(book.retired), Held(book.recycled), Out(owns), book.idx)
  BY <1>4, <1>6, <1>9, <1>12 DEF Split
<1>15. book.dirty \intersect Held(book.recycled) = {} /\ book.dirty \subseteq 0 .. book.idx
  BY <1>4, <1>6, <1>12
<1>16. book.idx \in 0 .. PAGE_MAX /\ book.room \in Nat /\ 0 \in Held(book.m)
  BY <1>4, <1>5, <1>6
<1>17. Good(book, Out(owns)) BY <1>6, <1>13, <1>14, <1>15, <1>16 DEF Good
<1>18. Settled(book.retired) BY <1>4, MadeSettled
<1>19. QED BY <1>3, <1>10, <1>11, <1>17, <1>18 DEF Sound

(* What a step leaves true, and which pages it may hand to a chapter.      *)
LEMMA BookNext ==
  ASSUME BookInv, Next
  PROVE  /\ BookInv'
         /\ Intact(book') =>
              /\ Intact(book)
              /\ \A c \in Chapters :
                   Pages(owns'[c]) \subseteq Pages(owns[c]) \union (Page \ book.dirty)
<1>1. Sound(book, owns) BY DEF BookInv
<1>2. \A c \in Chapters : owns = [owns EXCEPT ![c] = owns[c]] /\ owns = [d \in Chapters |-> owns[d]]
  BY <1>1 DEF Sound, Listed
<1> DEFINE Clean == Intact(book') =>
              /\ Intact(book)
              /\ \A c \in Chapters :
                   Pages(owns'[c]) \subseteq Pages(owns[c]) \union (Page \ book.dirty)
<1>3. ASSUME NEW c \in Chapters, TakePage(c) PROVE BookInv' /\ Clean
  <2> DEFINE g == GetPage(book).book
             p == GetPage(book).page
             s == Append(owns[c], p)
  <2>1. book' = g /\ owns' = [owns EXCEPT ![c] = s] BY <1>3 DEF TakePage
  <2>2. /\ Sound(g, [owns EXCEPT ![c] = s])
        /\ Intact(g) => /\ p \in Page \ book.dirty
                        /\ Pages(s) = Pages(owns[c]) \union {p}
                        /\ Intact(book)
    BY <1>1, TakeSound
  <2> HIDE DEF g, p, s
  <2>3. Sound(book', owns') BY <2>1, <2>2
  <2>4. \A d \in Chapters : owns'[d] = IF d = c THEN s ELSE owns[d]
    BY <1>2, <2>1
  <2>5. Clean BY <2>1, <2>2, <2>4
  <2>6. QED BY <2>3, <2>5 DEF BookInv
<1>4. ASSUME NEW c \in Chapters, MemCh_FreeTemp(c) PROVE BookInv' /\ Clean
  <2>1. PICK temp \in SUBSET (2 .. Len(owns[c])) :
          /\ book' = FreePages(book, Picked(owns[c], temp))
          /\ owns' = [owns EXCEPT ![c] = Picked(@, DOMAIN @ \ temp)]
    BY <1>4 DEF MemCh_FreeTemp
  <2> DEFINE f == FreePages(book, Picked(owns[c], temp))
             t == Picked(owns[c], DOMAIN owns[c] \ temp)
  <2>2. /\ Sound(f, [owns EXCEPT ![c] = t]) /\ (Intact(f) => Intact(book))
        /\ Pages(t) \subseteq Pages(owns[c])
    BY <1>1, FreeTempSound
  <2>3. book' = f /\ owns' = [owns EXCEPT ![c] = t] BY <1>2, <2>1
  <2> HIDE DEF f, t
  <2>5. Sound(book', owns') BY <2>2, <2>3
  <2>6. \A d \in Chapters : owns'[d] = IF d = c THEN t ELSE owns[d]
    BY <1>2, <2>3
  <2>7. Clean BY <2>2, <2>3, <2>6
  <2>8. QED BY <2>5, <2>7 DEF BookInv
<1>5. ASSUME NEW c \in Chapters, MemCh_Free(c) PROVE BookInv' /\ Clean
  <2> DEFINE f == FreePages(book, owns[c])
             t == <<>>
  <2>1. book' = f /\ owns' = [owns EXCEPT ![c] = t] BY <1>5 DEF MemCh_Free
  <2>2. Sound(f, [owns EXCEPT ![c] = t]) /\ (Intact(f) => Intact(book))
    BY <1>1, FreeSound
  <2>3. Pages(t) = {} BY DEF Pages
  <2> HIDE DEF f, t
  <2>4. Sound(book', owns') BY <2>1, <2>2
  <2>5. \A d \in Chapters : owns'[d] = IF d = c THEN t ELSE owns[d]
    BY <1>2, <2>1
  <2>6. Clean BY <2>1, <2>2, <2>3, <2>5
  <2>7. QED BY <2>4, <2>6 DEF BookInv
<1>6. QED BY <1>3, <1>4, <1>5 DEF Next, MemCh_Make, MemCh_AddPage

(* The inductive invariant holds: the three Spans are sound, and the pages *)
(* taken from the book are shared out between them and the chapters.       *)
THEOREM MemBookInvariant == Spec => []BookInv
<1>1. Init => BookInv BY BookInit
<1>2. BookInv /\ [Next]_vars => BookInv'
  <2> SUFFICES ASSUME BookInv, [Next]_vars PROVE BookInv'
    OBVIOUS
  <2>1. CASE Next BY <2>1, BookNext
  <2>2. CASE UNCHANGED vars
    <3>1. book' = book /\ owns' = owns BY <2>2 DEF vars
    <3>2. Sound(book', owns') BY <3>1 DEF BookInv
    <3>3. QED BY <3>2 DEF BookInv
  <2>3. QED BY <2>1, <2>2
<1>3. QED BY <1>1, <1>2, PTL DEF Spec

(* The allocator's state has its type: every Span holds pages of the book. *)
THEOREM MemBookIsTyped == Spec => []TypeOK
<1>1. BookInv => TypeOK
  <2> SUFFICES ASSUME BookInv PROVE TypeOK OBVIOUS
  <2>1. book.fatal \in BOOLEAN /\ book.misled \in BOOLEAN BY DEF BookInv, Sound, Shape
  <2>2. ASSUME Intact(book)
        PROVE  /\ book.idx \in 0 .. PAGE_MAX /\ book.room \in Nat
               /\ owns \in [Chapters -> Seq(Page)]
               /\ Held(book.retired) \union Held(book.recycled) \subseteq Page
               /\ Held(book.m) \subseteq Page \union {0}
    <3>1. Good(book, Out(owns)) /\ Owned(owns) BY <2>2 DEF BookInv, Sound
    <3>2. 0 \in Held(book.m) /\ book.idx \in 0 .. PAGE_MAX /\ PAGE_MAX \in Nat
      BY <3>1, Bounds DEF Good
    <3>3. \A p \in 0 .. book.idx : p = 0 \/ p \in Page BY <3>2 DEF Page
    <3>4. 0 \notin Held(book.retired) /\ 0 \notin Held(book.recycled)
      BY <3>1, <3>2 DEF Good, Split
    <3>5. Held(book.m) \union Held(book.retired) \union Held(book.recycled) \subseteq 0 .. book.idx
      BY <3>1 DEF Good, Split
    <3>6. QED BY <3>1, <3>3, <3>4, <3>5 DEF Good, Owned
  <2>3. QED BY <2>1, <2>2 DEF TypeOK
<1>2. QED BY <1>1, MemBookInvariant, PTL

(* A page has one place and has it once: GetPage never hands out a page    *)
(* that a chapter, book->m or "retired" still has.                         *)
THEOREM MemBookPageExclusive == Spec => []PageExclusive
<1>1. BookInv => PageExclusive
  <2> SUFFICES ASSUME BookInv, Intact(book)
               PROVE  LET Once(x) == Cardinality(Held(x)) = Cardinality(Occupied(x))
                      IN  /\ \A c \in Chapters : Cardinality(Pages(owns[c])) = Len(owns[c])
                          /\ \A c, d \in Chapters : c # d => Pages(owns[c]) \intersect Pages(owns[d]) = {}
                          /\ \A c \in Chapters : Pages(owns[c]) \intersect
                                (Held(book.m) \union Held(book.retired) \union Held(book.recycled)) = {}
                          /\ Held(book.m) \intersect (Held(book.retired) \union Held(book.recycled)) = {}
                          /\ Held(book.retired) \intersect Held(book.recycled) = {}
                          /\ Once(book.m) /\ Once(book.retired) /\ Once(book.recycled)
    BY DEF PageExclusive
  <2>1. Good(book, Out(owns)) /\ Owned(owns) BY DEF BookInv, Sound
  <2>2. ASSUME NEW c \in Chapters PROVE Cardinality(Pages(owns[c])) = Len(owns[c])
    <3>1. owns[c] \in Seq(Page) /\ \A i, j \in 1 .. Len(owns[c]) : owns[c][i] = owns[c][j] => i = j
      BY <2>1 DEF Owned
    <3>2. QED BY ONLY <3>1, PagesCount
  <2>3. \A c, d \in Chapters : c # d => Pages(owns[c]) \intersect Pages(owns[d]) = {}
    BY <2>1 DEF Owned
  <2>4. \A c \in Chapters : Pages(owns[c]) \subseteq Out(owns) BY DEF Out
  <2>5. Split(Held(book.m), Held(book.retired), Held(book.recycled), Out(owns), book.idx)
    BY <2>1 DEF Good
  <2>6. /\ Held(book.m) \intersect (Held(book.retired) \union Held(book.recycled)) = {}
        /\ Held(book.retired) \intersect Held(book.recycled) = {}
        /\ Out(owns) \intersect
             (Held(book.m) \union Held(book.retired) \union Held(book.recycled)) = {}
    BY <2>5 DEF Split
  <2>7. \A c \in Chapters : Pages(owns[c]) \intersect
           (Held(book.m) \union Held(book.retired) \union Held(book.recycled)) = {}
    BY <2>4, <2>6
  <2>8. Uniq(book.m) /\ Uniq(book.retired) /\ Uniq(book.recycled)
    BY <2>1 DEF Good, Stack, Loose
  <2>9. /\ Cardinality(Held(book.m)) = Cardinality(Occupied(book.m))
        /\ Cardinality(Held(book.retired)) = Cardinality(Occupied(book.retired))
        /\ Cardinality(Held(book.recycled)) = Cardinality(Occupied(book.recycled))
    BY <2>8, HeldCount
  <2>10. QED BY <2>2, <2>3, <2>6, <2>7, <2>9
<1>2. QED BY <1>1, MemBookInvariant, PTL

\* No page taken from the book is forgotten by MemBook_FreePage and the wipe.
THEOREM MemBookNoPageLost == Spec => []NoPageLost
<1>1. BookInv => NoPageLost
  <2> SUFFICES ASSUME BookInv, Intact(book)
               PROVE  1 .. book.idx \subseteq
                        Held(book.m) \union Held(book.retired) \union Held(book.recycled)
                          \union UNION {Pages(owns[c]) : c \in Chapters}
    BY DEF NoPageLost
  <2>1. Good(book, Out(owns)) BY DEF BookInv, Sound
  <2>2. 1 .. book.idx \subseteq 0 .. book.idx BY <2>1 DEF Good
  <2>3. Held(book.m) \union Held(book.retired) \union Held(book.recycled) \union Out(owns)
          = 0 .. book.idx
    BY <2>1 DEF Good, Split
  <2>4. QED BY <2>2, <2>3 DEF Out
<1>2. QED BY <1>1, MemBookInvariant, PTL

(* The Iter of "recycled" stands on the top of a stack, the page GetPage    *)
(* returns before it removes the slot the Iter stands on.                  *)
THEOREM MemBookRecycledTop == Spec => []RecycledTop
<1>1. BookInv => RecycledTop
  <2> SUFFICES ASSUME BookInv, Intact(book)
               PROVE  LET x == book.recycled
                      IN  /\ Occupied(x) = 0 .. x.nvalues - 1
                          /\ x.max_idx = x.nvalues - 1
                          /\ x.nvalues > 0 => x.idx = x.max_idx /\ x.value = x.slots[x.max_idx]
    BY DEF RecycledTop
  <2> DEFINE x == book.recycled
  <2>1. Stack(x) BY DEF BookInv, Sound, Good
  <2> HIDE DEF x
  <2>2. x.max_idx \in Int /\ x.max_idx >= -1 BY <2>1, Bounds DEF Stack, Loose, ReelType
  <2>3. Occupied(x) = 0 .. x.max_idx /\ x.nvalues = x.max_idx + 1
        /\ (x.nvalues > 0 => x.idx = x.max_idx)
    BY <2>1 DEF Stack
  <2>4. x.max_idx = x.nvalues - 1 BY <2>2, <2>3
  <2>5. ASSUME x.nvalues > 0 PROVE x.value = x.slots[x.max_idx]
    <3>1. x.idx = x.max_idx /\ x.idx # -1 BY <2>2, <2>3, <2>5
    <3>2. QED BY <2>1, <3>1 DEF Stack, Loose
  <2>6. QED BY <2>3, <2>4, <2>5 DEF x
<1>2. QED BY <1>1, MemBookInvariant, PTL

(* Between two operations at most one freed page waits in "retired", and   *)
(* with every chapter freed the total that MemBook_GetStats reports is at  *)
(* most the number of pages the book needs for itself.                     *)
THEOREM MemBookRetiredLag == Spec => []RetiredLag
<1>1. BookInv => RetiredLag
  <2> SUFFICES ASSUME BookInv, Intact(book)
               PROVE  /\ Cardinality(Occupied(book.retired)) <= 1
                      /\ (\A c \in Chapters : owns[c] = <<>>) => Total <= Cardinality(Held(book.m))
    BY DEF RetiredLag
  <2> DEFINE M == Held(book.m)
             R == Held(book.retired)
             Y == Held(book.recycled)
             r == book.retired
  <2>1. Good(book, Out(owns)) /\ Settled(r) BY DEF BookInv, Sound
  <2>2. Uniq(book.m) /\ Uniq(r) /\ Stack(book.recycled) /\ Uniq(book.recycled)
    BY <2>1 DEF Good, Stack, Loose
  <2>3. /\ IsFiniteSet(Occupied(book.m)) /\ IsFiniteSet(Occupied(r))
        /\ IsFiniteSet(Occupied(book.recycled))
    BY FiniteOccupied
  <2>4. Cardinality(Occupied(r)) <= 1
    <3>1. Occupied(r) \subseteq {r.max_idx} BY <2>1 DEF Settled
    <3>2. IsFiniteSet({r.max_idx}) /\ Cardinality({r.max_idx}) = 1 BY FS_Singleton
    <3>3. Cardinality(Occupied(r)) <= Cardinality({r.max_idx}) BY ONLY <3>1, <3>2, FS_Subset
    <3>4. QED BY <3>2, <3>3
  <2>5. ASSUME \A c \in Chapters : owns[c] = <<>>
        PROVE  Total <= Cardinality(M)
    <3>1. Out(owns) = {} BY <2>5 DEF Out, Pages
    <3>2. M \union R \union Y = 0 .. book.idx BY <2>1, <3>1 DEF Good, Split
    <3>3. book.idx \in Int /\ book.idx >= 0 /\ 0 \in Int BY <2>1, Bounds DEF Good
    <3>4. Cardinality(0 .. book.idx) = IF 0 > book.idx THEN 0 ELSE book.idx - 0 + 1
      BY ONLY <3>3, FS_Interval
    <3>5. Cardinality(0 .. book.idx) = book.idx + 1 BY <3>3, <3>4
    <3>6. IsFiniteSet(M) /\ IsFiniteSet(R) /\ IsFiniteSet(Y)
      <4>1. IsFiniteSet(0 .. book.idx) BY ONLY <3>3, FS_Interval
      <4>2. M \subseteq 0 .. book.idx /\ R \subseteq 0 .. book.idx /\ Y \subseteq 0 .. book.idx
        BY <3>2
      <4> HIDE DEF M, R, Y
      <4>3. QED BY ONLY <4>1, <4>2, FS_Subset
    <3>7. Cardinality(R) <= 1
      <4>1. Cardinality(R) = Cardinality(Occupied(r)) BY <2>2, HeldCount
      <4>2. QED BY <2>4, <4>1
    <3>8. Cardinality(Y) = book.recycled.nvalues
      <4> DEFINE x == book.recycled
      <4>1. Cardinality(Y) = Cardinality(Occupied(x)) BY <2>2, HeldCount
      <4>2. Occupied(x) = 0 .. x.max_idx /\ x.nvalues = x.max_idx + 1 BY <2>2 DEF Stack
      <4>3. 0 \in Int /\ x.max_idx \in Int /\ x.max_idx >= -1
        BY <2>2, Bounds DEF Stack, Loose, ReelType
      <4>4. Cardinality(0 .. x.max_idx) = IF 0 > x.max_idx THEN 0 ELSE x.max_idx - 0 + 1
        BY ONLY <4>3, FS_Interval
      <4>5. QED BY <4>1, <4>2, <4>3, <4>4
    <3> HIDE DEF M, R, Y
    <3>9. /\ IsFiniteSet(M \union R)
          /\ Cardinality(M \union R) = Cardinality(M) + Cardinality(R) - Cardinality(M \intersect R)
          /\ Cardinality(M) \in Nat /\ Cardinality(R) \in Nat
          /\ Cardinality(M \intersect R) \in Nat
      <4>1. IsFiniteSet(M \intersect R) BY <3>6, FS_Intersection
      <4>2. QED BY <3>6, <4>1, FS_Union, FS_CardinalityType
    <3>10. /\ Cardinality((M \union R) \union Y)
                = Cardinality(M \union R) + Cardinality(Y) - Cardinality((M \union R) \intersect Y)
           /\ Cardinality(Y) \in Nat /\ Cardinality((M \union R) \intersect Y) \in Nat
      <4>1. IsFiniteSet((M \union R) \intersect Y) BY <3>6, <3>9, FS_Intersection
      <4>2. QED BY <3>6, <3>9, <4>1, FS_Union, FS_CardinalityType
    <3> DEFINE m == Cardinality(M)
               n == book.recycled.nvalues
    <3>11. Cardinality((M \union R) \union Y) = book.idx + 1 BY <3>2, <3>5
    <3>12. m \in Nat /\ n \in Nat BY <3>8, <3>9, <3>10
    <3>13. Cardinality(M \union R) \in Nat /\ Cardinality(M \union R) <= m + 1
      <4>1. Cardinality(M \union R) \in Nat BY <3>9, FS_CardinalityType
      <4> DEFINE mr == Cardinality(M \union R)
                 c == Cardinality(R)
                 d == Cardinality(M \intersect R)
      <4>2. mr = m + c - d /\ m \in Nat /\ c \in Nat /\ d \in Nat /\ c <= 1 BY <3>7, <3>9
      <4> HIDE DEF mr, c, d, m
      <4>3. mr <= m + 1 BY ONLY <4>2
      <4>4. QED BY <4>1, <4>3 DEF mr
    <3>14. book.idx + 1 <= m + 1 + n
      <4> DEFINE mr == Cardinality(M \union R)
                 d == Cardinality((M \union R) \intersect Y)
      <4>1. book.idx + 1 = mr + n - d /\ d \in Nat BY <3>8, <3>10, <3>11
      <4>2. mr \in Nat /\ mr <= m + 1 BY <3>13
      <4> HIDE DEF mr, d, m, n
      <4>3. QED BY ONLY <4>1, <4>2, <3>3, <3>12
    <3> HIDE DEF m, n
    <3>15. book.idx + 1 - n - 1 <= m BY ONLY <3>3, <3>12, <3>14
    <3>16. book.idx - n <= m BY ONLY <3>3, <3>12, <3>15
    <3>17. QED BY <3>16 DEF Total, m, n
  <2>6. QED BY <2>4, <2>5
<1>2. QED BY <1>1, MemBookInvariant, PTL

(* A page handed to a chapter is zeroed, also when it was in use before.   *)
THEOREM MemBookHandedOutClean == Spec => HandedOutClean
<1>1. BookInv /\ [Next]_vars =>
        [Intact(book') =>
           \A c \in Chapters : Pages(owns'[c]) \subseteq
             Pages(owns[c]) \union (Page \ book.dirty)]_vars
  BY BookNext
<1>2. QED BY <1>1, MemBookInvariant, PTL DEF Spec, HandedOutClean
=============================================================================
