---------------------------- MODULE TableProofs ----------------------------
(***************************************************************************)
(* Proofs about the hash table, for every table of strides, every set of   *)
(* keys and every way their parities collide.                              *)
(***************************************************************************)
EXTENDS Table, SpanProofs

Records == Hashed \union {NULL}

Live(x, i) == i \in Indices /\ ~Free(x, i)

(* What an Iter_Query stores is inside the tree it made.                   *)
Bounded(x) ==
  /\ x \in ReelType(Records)
  /\ \A i \in Indices : x.slots[i] # NULL => i < Capacity(x.dims)

(* The live records are numbered 0 .. nvalues-1, each number given once.   *)
Numbered(x) ==
  /\ x.nvalues \in Nat
  /\ \A i \in Indices : Live(x, i) => x.slots[i].order \in 0 .. x.nvalues - 1
  /\ \A n \in 0 .. x.nvalues - 1 : \E i \in Indices : Live(x, i) /\ x.slots[i].order = n
  /\ \A i, j \in Indices : Live(x, i) /\ Live(x, j) /\ x.slots[i].order = x.slots[j].order
                             => i = j

Numbering ==
  /\ Bounded(tbl) /\ Numbered(tbl)
  /\ parity \in [Keys -> Parities] /\ selected \in Indices \union {-1}

(* A record is where the walk of some depth meets it: before it that walk  *)
(* meets only older records of other keys.                                 *)
Reached(x, i) ==
  LET h == x.slots[i]
  IN  \E d \in 0 .. x.dims : \E p \in DOMAIN Chain[h.id][x.dims][d] :
        /\ Chain[h.id][x.dims][d][p] = i
        /\ \A q \in 1 .. p - 1 :
             LET j == Chain[h.id][x.dims][d][q]
             IN  Live(x, j) /\ x.slots[j].key # h.key /\ x.slots[j].order < h.order

(* A key in two records: storing it would change a live one.               *)
Settled(x, k) ==
  LET i == Place(x, parity[k], k, x.dims) IN i # NULL /\ Live(x, i)

Walks(x) ==
  /\ \A i \in Indices : Live(x, i) => x.slots[i].id = parity[x.slots[i].key] /\ Reached(x, i)
  /\ \A i, j \in Indices :
       Live(x, i) /\ Live(x, j) /\ i # j /\ x.slots[i].key = x.slots[j].key
         => x.dims <= DOUBLED_DIMS /\ Settled(x, x.slots[i].key)

Waiting ==
  selected # -1 =>
    /\ Live(tbl, selected)
    /\ LET k == tbl.slots[selected].key IN selected = Lookup(tbl, parity[k], k)

TableInv == Numbering /\ Walks(tbl) /\ Waiting
-----------------------------------------------------------------------------
(* The indices of a depth are inside a tree of that depth.                 *)
LEMMA HKeyValType ==
  ASSUME NEW id \in Nat, NEW dim \in 0 .. MAX_DIMS, NEW pos \in 0 .. 3
  PROVE  HKeyVal(id, pos, dim) \in 0 .. Capacity(dim) - 1
<1> DEFINE w == INCREMENTS[dim + 1]
<1>1. w \in Nat \ {0} BY TablesAssumption
<1> HIDE DEF w
<1> DEFINE a == id \div w
           b == a \div w
           c == b \div w
<1>2. a \in Nat BY <1>1
<1> HIDE DEF a
<1>3. b \in Nat BY <1>1, <1>2
<1> HIDE DEF b
<1>4. c \in Nat BY <1>1, <1>3
<1> HIDE DEF c
<1>5. \A n \in Nat : n % w \in 0 .. w - 1 BY <1>1
<1>6. HKeyVal(id, pos, dim) = <<id, a, b, c>>[pos + 1] % w
  BY DEF HKeyVal, w, a, b, c
<1>7. <<id, a, b, c>>[pos + 1] \in Nat
  BY <1>2, <1>3, <1>4
<1>8. QED BY <1>5, <1>6, <1>7 DEF Capacity, w

(* The walk of one depth stays inside the table; in a deeper table it      *)
(* begins the same.                                                        *)
LEMMA ChainType ==
  ASSUME NEW id \in Parities, NEW top \in 0 .. MAX_DIMS, NEW dim \in 0 .. top
  PROVE  /\ \E n \in Nat : DOMAIN Chain[id][top][dim] = 1 .. n
         /\ \A p \in DOMAIN Chain[id][top][dim] :
              /\ Chain[id][top][dim][p] \in Indices
              /\ Chain[id][top][dim][p] < Capacity(top)
         /\ \A more \in top .. MAX_DIMS : \A p \in DOMAIN Chain[id][top][dim] :
              /\ p \in DOMAIN Chain[id][more][dim]
              /\ Chain[id][more][dim][p] = Chain[id][top][dim][p]
<1> DEFINE bits == [p \in 1 .. 4 |-> HKeyVal(id, p - 1, dim)]
           last == bits[4]
           C(t) == IF dim > 0 THEN bits
                   ELSE [p \in 1 .. 4 + (Capacity(t) - 1 - last) |->
                           IF p <= 4 THEN bits[p] ELSE last + (p - 4)]
<1>1. MAX_DIMS \in Nat /\ dim \in 0 .. MAX_DIMS /\ id \in Nat
  BY TablesAssumption, TableAssumption
<1>2. \A t \in top .. MAX_DIMS : Chain[id][t][dim] = C(t)
  BY <1>1 DEF Chain
<1>3. \A t \in 0 .. MAX_DIMS : Capacity(t) \in Nat /\ Capacity(t) <= Limit
  BY CapacityBounds
<1>4. Limit \in Nat BY CapacityBounds
<1>5. \A p \in 1 .. 4 : bits[p] \in 0 .. Capacity(dim) - 1
  <2>1. \A p \in 1 .. 4 : p - 1 \in 0 .. 3 OBVIOUS
  <2>2. QED BY <1>1, <2>1, HKeyValType
<1>6. \A t \in top .. MAX_DIMS : Capacity(dim) <= Capacity(top) /\ Capacity(top) <= Capacity(t)
  BY <1>1, TablesAssumption
<1>7. top \in top .. MAX_DIMS OBVIOUS
<1>8. DOMAIN bits = 1 .. 4 OBVIOUS
<1>9. last \in 0 .. Capacity(dim) - 1 BY <1>5
<1> HIDE DEF bits, last
<1>10. CASE dim > 0
  <2>1. \A t \in top .. MAX_DIMS : Chain[id][t][dim] = bits BY <1>2, <1>10
  <2>2. \A p \in 1 .. 4 : bits[p] \in Indices /\ bits[p] < Capacity(top)
    BY <1>1, <1>3, <1>4, <1>5, <1>6, <1>7 DEF Indices
  <2>3. QED BY <1>7, <1>8, <2>1, <2>2
<1>11. CASE dim = 0
  <2> DEFINE n(t) == 4 + (Capacity(t) - 1 - last)
             D(t) == [p \in 1 .. n(t) |-> IF p <= 4 THEN bits[p] ELSE last + (p - 4)]
  <2>1. \A t \in top .. MAX_DIMS : Chain[id][t][dim] = D(t) BY <1>2, <1>11
  <2>2. \A t \in top .. MAX_DIMS : n(t) \in Nat /\ n(top) <= n(t)
    BY <1>1, <1>3, <1>6, <1>7, <1>9
  <2>3. \A p \in 1 .. n(top) : D(top)[p] \in Indices /\ D(top)[p] < Capacity(top)
    <3>1. Capacity(top) \in Nat /\ Capacity(dim) \in Nat /\ Capacity(top) <= Limit
      BY <1>1, <1>3
    <3>2. QED BY <1>1, <1>4, <1>5, <1>6, <1>7, <1>9, <3>1 DEF Indices
  <2>4. \A t \in top .. MAX_DIMS : DOMAIN D(t) = 1 .. n(t) OBVIOUS
  <2>5. \A t \in top .. MAX_DIMS : \A p \in 1 .. n(top) :
          p \in 1 .. n(t) /\ D(t)[p] = D(top)[p]
    <3>1. \A t \in top .. MAX_DIMS : \A p \in 1 .. n(top) : p \in 1 .. n(t)
      BY <1>7, <2>2
    <3>2. QED BY <1>7, <3>1
  <2> HIDE DEF n, D
  <2>6. QED BY <1>7, <2>1, <2>2, <2>3, <2>4, <2>5
<1>12. QED BY <1>10, <1>11
-----------------------------------------------------------------------------
\* A walk is the beginning of the one in a deeper table.
LEMMA ChainGrows ==
  ASSUME NEW id \in Parities, NEW top \in 0 .. MAX_DIMS, NEW dim \in 0 .. top,
         NEW more \in top .. MAX_DIMS
  PROVE  \A p \in DOMAIN Chain[id][top][dim] :
           /\ p \in DOMAIN Chain[id][more][dim]
           /\ Chain[id][more][dim][p] = Chain[id][top][dim][p]
BY ChainType

\* The walk through one chain ends at its first free index or record of the key.
LEMMA StopCases ==
  ASSUME NEW x, NEW k, NEW id \in Parities, NEW top \in 0 .. MAX_DIMS, NEW d \in 0 .. top
  PROVE  LET c == Chain[id][top][d]
         IN  \/ /\ Stop(x, id, k, top, d) = NULL
                /\ \A p \in DOMAIN c : ~Free(x, c[p]) /\ ~Mine(x, id, k, c[p])
             \/ \E p \in DOMAIN c :
                  /\ Stop(x, id, k, top, d) = c[p] /\ c[p] # NULL /\ c[p] \in Indices
                  /\ Free(x, c[p]) \/ Mine(x, id, k, c[p])
                  /\ \A q \in 1 .. p - 1 :
                       q \in DOMAIN c /\ ~Free(x, c[q]) /\ ~Mine(x, id, k, c[q])
<1> DEFINE c == Chain[id][top][d]
           Stops(p) == Free(x, c[p]) \/ Mine(x, id, k, c[p])
           P == {p \in DOMAIN c : Stops(p)}
           First(p) == Stops(p) /\ \A q \in 1 .. p - 1 : ~Stops(q)
<1>1. /\ \E n \in Nat : DOMAIN c = 1 .. n
      /\ \A p \in DOMAIN c : c[p] \in Indices
  BY ChainType
<1>2. Stop(x, id, k, top, d) =
        IF \E p \in DOMAIN c : Stops(p) THEN c[CHOOSE p \in DOMAIN c : First(p)] ELSE NULL
  BY DEF Stop
<1>3. NULL \notin Indices BY TableAssumption
<1> HIDE DEF c
<1>4. CASE P = {}
  <2>1. \A p \in DOMAIN c : ~Stops(p) BY <1>4
  <2>2. QED BY <1>2, <2>1 DEF c
<1>5. CASE P # {}
  <2>1. P \subseteq Nat BY <1>1
  <2>2. PICK p \in P : \A q \in P : p <= q BY <1>5, <2>1, LeastExists
  <2>3. ASSUME NEW q \in 1 .. p - 1 PROVE q \in DOMAIN c /\ ~Stops(q)
    <3>1. q \in DOMAIN c BY <1>1, <2>3
    <3>2. ~(p <= q) BY <1>1
    <3>3. QED BY <2>2, <3>1, <3>2
  <2>4. p \in DOMAIN c /\ First(p) BY <2>3
  <2> DEFINE w == CHOOSE r \in DOMAIN c : First(r)
  <2>5. w \in DOMAIN c /\ First(w) BY <2>4
  <2>6. Stop(x, id, k, top, d) = c[w] BY <1>2, <2>4
  <2> HIDE DEF w
  <2>7. \A q \in 1 .. w - 1 : q \in DOMAIN c BY <1>1, <2>5
  <2>8. c[w] # NULL /\ c[w] \in Indices BY <1>1, <1>3, <2>5
  <2>9. QED BY <2>5, <2>6, <2>7, <2>8 DEF c
<1>6. QED BY <1>4, <1>5

\* A walk that stops at no free index stops at a record of its key.
LEMMA StopHit ==
  ASSUME NEW x, NEW k, NEW id \in Parities, NEW top \in 0 .. MAX_DIMS, NEW d \in 0 .. top,
         Stop(x, id, k, top, d) # NULL, ~Free(x, Stop(x, id, k, top, d))
  PROVE  Stop(x, id, k, top, d) \in Indices /\ Mine(x, id, k, Stop(x, id, k, top, d))
<1>1. LET c == Chain[id][top][d]
      IN  \/ /\ Stop(x, id, k, top, d) = NULL
             /\ \A p \in DOMAIN c : ~Free(x, c[p]) /\ ~Mine(x, id, k, c[p])
          \/ \E p \in DOMAIN c :
               /\ Stop(x, id, k, top, d) = c[p] /\ c[p] # NULL /\ c[p] \in Indices
               /\ Free(x, c[p]) \/ Mine(x, id, k, c[p])
               /\ \A q \in 1 .. p - 1 :
                    q \in DOMAIN c /\ ~Free(x, c[q]) /\ ~Mine(x, id, k, c[q])
  BY StopCases
<1> DEFINE c == Chain[id][top][d]
           s == Stop(x, id, k, top, d)
<1>2. s # NULL /\ ~Free(x, s) OBVIOUS
<1>3. PICK p \in DOMAIN c : s = c[p] /\ c[p] \in Indices /\ (Free(x, c[p]) \/ Mine(x, id, k, c[p]))
  BY ONLY <1>1, <1>2
<1> HIDE DEF s, c
<1>4. s \in Indices /\ Mine(x, id, k, s) BY ONLY <1>2, <1>3
<1>5. QED BY <1>4 DEF s

\* An index of a chain at which the walk stops, with none before it, is where it ends.
LEMMA StopIs ==
  ASSUME NEW x, NEW k, NEW id \in Parities, NEW top \in 0 .. MAX_DIMS, NEW d \in 0 .. top,
         NEW p \in DOMAIN Chain[id][top][d],
         LET c == Chain[id][top][d]
         IN  /\ Free(x, c[p]) \/ Mine(x, id, k, c[p])
             /\ \A q \in 1 .. p - 1 : ~Free(x, c[q]) /\ ~Mine(x, id, k, c[q])
  PROVE  Stop(x, id, k, top, d) = Chain[id][top][d][p]
<1> DEFINE c == Chain[id][top][d]
           Stops(n) == Free(x, c[n]) \/ Mine(x, id, k, c[n])
<1>1. PICK n \in Nat : DOMAIN c = 1 .. n BY ChainType
<1>2. p \in DOMAIN c /\ Stops(p) /\ \A q \in 1 .. p - 1 : ~Stops(q) OBVIOUS
<1>3. \/ \A q \in DOMAIN c : ~Stops(q)
      \/ \E q \in DOMAIN c : /\ Stop(x, id, k, top, d) = c[q] /\ Stops(q)
                             /\ \A r \in 1 .. q - 1 : ~Stops(r)
  BY StopCases
<1> HIDE DEF c, Stops
<1>4. PICK q \in DOMAIN c : /\ Stop(x, id, k, top, d) = c[q] /\ Stops(q)
                            /\ \A r \in 1 .. q - 1 : ~Stops(r)
  BY <1>2, <1>3
<1>5. ~(p < q) /\ ~(q < p) BY <1>1, <1>2, <1>4
<1>6. p = q BY <1>1, <1>2, <1>4, <1>5
<1>7. QED BY <1>4, <1>6 DEF c

\* Every bounded set of depths has the one a walk from the top meets first.
LEMMA TopmostIs ==
  ASSUME NEW n \in Nat, NEW S, S \subseteq 0 .. n, S # {}
  PROVE  Topmost(S) \in S /\ \A e \in S : e <= Topmost(S)
<1>1. S \subseteq Nat /\ \A i \in S : i <= n OBVIOUS
<1>2. \E i \in S : \A j \in S : j <= i BY <1>1, GreatestExists
<1>3. QED BY <1>2 DEF Topmost

\* A walk that stores leaves a chain only when every index of it is taken.
LEMMA PlaceCases ==
  ASSUME NEW x, NEW k, NEW id \in Parities, NEW top \in 0 .. MAX_DIMS
  PROVE  \/ /\ Place(x, id, k, top) = NULL
            /\ \A d \in 0 .. top : Stop(x, id, k, top, d) = NULL
         \/ \E d \in 0 .. top :
              /\ Place(x, id, k, top) = Stop(x, id, k, top, d)
              /\ Stop(x, id, k, top, d) # NULL
              /\ \A e \in d + 1 .. top : Stop(x, id, k, top, e) = NULL
<1> DEFINE at == [d \in 0 .. top |-> Stop(x, id, k, top, d)]
           ends == {d \in 0 .. top : at[d] # NULL}
<1>1. Place(x, id, k, top) = IF ends = {} THEN NULL ELSE at[Topmost(ends)]
  BY DEF Place
<1>2. \A d \in 0 .. top : at[d] = Stop(x, id, k, top, d) OBVIOUS
<1>3. top \in Nat BY TablesAssumption
<1>4. ends \subseteq 0 .. top OBVIOUS
<1> HIDE DEF at
<1>5. CASE ends = {} BY <1>1, <1>2, <1>5
<1>6. CASE ends # {}
  <2> DEFINE t == Topmost(ends)
  <2>1. t \in ends /\ \A e \in ends : e <= t BY <1>3, <1>4, <1>6, TopmostIs
  <2>2. Place(x, id, k, top) = at[t] BY <1>1, <1>6
  <2> HIDE DEF t
  <2>3. \A e \in t + 1 .. top : e \in 0 .. top /\ ~(e <= t) BY <1>3, <1>4, <2>1
  <2>4. \A e \in t + 1 .. top : at[e] = NULL BY <2>1, <2>3
  <2>5. QED BY <1>2, <2>1, <2>2, <2>3, <2>4
<1>7. QED BY <1>5, <1>6

\* ... so that the topmost chain with a stop says where the key goes.
LEMMA PlaceIs ==
  ASSUME NEW x, NEW k, NEW id \in Parities, NEW top \in 0 .. MAX_DIMS, NEW d \in 0 .. top,
         Stop(x, id, k, top, d) # NULL,
         \A e \in d + 1 .. top : Stop(x, id, k, top, e) = NULL
  PROVE  Place(x, id, k, top) = Stop(x, id, k, top, d)
<1>1. PICK f \in 0 .. top :
        /\ Place(x, id, k, top) = Stop(x, id, k, top, f)
        /\ Stop(x, id, k, top, f) # NULL
        /\ \A e \in f + 1 .. top : Stop(x, id, k, top, e) = NULL
  BY PlaceCases
<1>2. ~(d < f) /\ ~(f < d) BY <1>1, TablesAssumption
<1>3. d = f BY <1>1, <1>2, TablesAssumption
<1>4. QED BY <1>1, <1>3

\* A lookup leaves a chain at a free index too.
LEMMA LookupCases ==
  ASSUME NEW x, NEW k, NEW id \in Parities, x.dims \in 0 .. MAX_DIMS
  PROVE  LET at(d) == Stop(x, id, k, x.dims, d)
             Hit(d) == at(d) # NULL /\ ~Free(x, at(d))
         IN  \/ Lookup(x, id, k) = NULL /\ \A d \in 0 .. x.dims : ~Hit(d)
             \/ \E d \in 0 .. x.dims :
                  /\ Lookup(x, id, k) = at(d) /\ Hit(d)
                  /\ \A e \in d + 1 .. x.dims : ~Hit(e)
<1> DEFINE at == [d \in 0 .. x.dims |-> Stop(x, id, k, x.dims, d)]
           Hit(d) == at[d] # NULL /\ ~Free(x, at[d])
           found == {d \in 0 .. x.dims : Hit(d)}
           n == x.dims
<1>1. Lookup(x, id, k) = IF found = {} THEN NULL ELSE at[Topmost(found)]
  BY DEF Lookup
<1>2. \A d \in 0 .. n : at[d] = Stop(x, id, k, x.dims, d) OBVIOUS
<1>3. n \in Nat BY TablesAssumption
<1>4. found \subseteq 0 .. n OBVIOUS
<1> HIDE DEF at
<1>5. CASE found = {} BY <1>1, <1>2, <1>5
<1>6. CASE found # {}
  <2> DEFINE t == Topmost(found)
  <2>1. t \in found /\ \A e \in found : e <= t BY <1>3, <1>4, <1>6, TopmostIs
  <2>2. Lookup(x, id, k) = at[t] BY <1>1, <1>6
  <2> HIDE DEF t
  <2>3. \A e \in t + 1 .. n : e \in 0 .. n /\ ~(e <= t) BY <1>3, <1>4, <2>1
  <2>4. \A e \in t + 1 .. n : ~Hit(e) BY <2>1, <2>3
  <2>5. QED BY <1>2, <2>1, <2>2, <2>3, <2>4
<1>7. QED BY <1>5, <1>6
-----------------------------------------------------------------------------
(* y has every live record of x, with the value it may have been given.    *)
Keeps(x, y) ==
  \A i \in Indices : ~Free(x, i) =>
    /\ ~Free(y, i)
    /\ y.slots[i].key = x.slots[i].key /\ y.slots[i].id = x.slots[i].id
    /\ y.slots[i].order = x.slots[i].order

\* What a lookup answers is a live record of the key.
LEMMA LookupHit ==
  ASSUME NEW x, NEW k, NEW id \in Parities, x.dims \in 0 .. MAX_DIMS,
         Lookup(x, id, k) # NULL
  PROVE  /\ Live(x, Lookup(x, id, k)) /\ x.slots[Lookup(x, id, k)].key = k
         /\ x.slots[Lookup(x, id, k)].id = id
<1>1. PICK d \in 0 .. x.dims :
        /\ Lookup(x, id, k) = Stop(x, id, k, x.dims, d)
        /\ ~Free(x, Stop(x, id, k, x.dims, d))
  BY LookupCases
<1>2. /\ Stop(x, id, k, x.dims, d) \in Indices
      /\ Mine(x, id, k, Stop(x, id, k, x.dims, d))
  <2>1. id \in Parities /\ x.dims \in 0 .. MAX_DIMS /\ d \in 0 .. x.dims OBVIOUS
  <2>2. Stop(x, id, k, x.dims, d) # NULL /\ ~Free(x, Stop(x, id, k, x.dims, d)) BY <1>1
  <2>3. QED BY ONLY <2>1, <2>2, StopHit
<1>3. QED BY <1>1, <1>2 DEF Live, Mine

\* A key without a live record is not found.
LEMMA LookupNone ==
  ASSUME NEW x, NEW k, NEW id \in Parities, x.dims \in 0 .. MAX_DIMS,
         \A i \in Indices : Live(x, i) => x.slots[i].key # k
  PROVE  Lookup(x, id, k) = NULL
BY LookupHit DEF Live

\* A key with one live record is found there, if its walk meets it.
LEMMA LookupSole ==
  ASSUME NEW x, NEW i \in Indices, Live(x, i), x.dims \in 0 .. MAX_DIMS,
         x.slots[i].id \in Parities, Reached(x, i),
         \A j \in Indices : Live(x, j) /\ x.slots[j].key = x.slots[i].key => j = i
  PROVE  Lookup(x, x.slots[i].id, x.slots[i].key) = i
<1> DEFINE k == x.slots[i].key
           id == x.slots[i].id
<1>0. PICK d \in 0 .. x.dims : \E p \in DOMAIN Chain[id][x.dims][d] :
        /\ Chain[id][x.dims][d][p] = i
        /\ \A q \in 1 .. p - 1 :
             LET j == Chain[id][x.dims][d][q] IN Live(x, j) /\ x.slots[j].key # k
  BY DEF Reached
<1>1. PICK p \in DOMAIN Chain[id][x.dims][d] :
        /\ Chain[id][x.dims][d][p] = i
        /\ \A q \in 1 .. p - 1 :
             LET j == Chain[id][x.dims][d][q] IN Live(x, j) /\ x.slots[j].key # k
  BY <1>0
<1>2. Mine(x, id, k, i) /\ ~Free(x, i) BY DEF Live, Mine, Free
<1>3. \A q \in 1 .. p - 1 : LET j == Chain[id][x.dims][d][q]
                            IN  ~Free(x, j) /\ ~Mine(x, id, k, j)
  BY <1>1 DEF Live, Mine
<1>4. id \in Parities OBVIOUS
<1> HIDE DEF id, k
<1>5. Stop(x, id, k, x.dims, d) = i
  <2> DEFINE n == x.dims
  <2>1. LET c == Chain[id][n][d]
        IN  /\ Free(x, c[p]) \/ Mine(x, id, k, c[p])
            /\ \A q \in 1 .. p - 1 : ~Free(x, c[q]) /\ ~Mine(x, id, k, c[q])
    BY <1>1, <1>2, <1>3
  <2>2. n \in 0 .. MAX_DIMS /\ d \in 0 .. n /\ p \in DOMAIN Chain[id][n][d]
    BY <1>0, <1>1
  <2> HIDE DEF n
  <2>3. Stop(x, id, k, n, d) = Chain[id][n][d][p]
    BY ONLY <1>4, <2>1, <2>2, StopIs
  <2>4. QED BY <1>1, <2>3 DEF n
<1>6. i # NULL BY TableAssumption
<1>7. Lookup(x, id, k) # NULL
  <2>1. \/ \A e \in 0 .. x.dims : LET at == Stop(x, id, k, x.dims, e)
                                  IN  at = NULL \/ Free(x, at)
        \/ \E e \in 0 .. x.dims : LET at == Stop(x, id, k, x.dims, e)
                                  IN  Lookup(x, id, k) = at /\ at # NULL
    BY <1>4, LookupCases
  <2>2. QED BY <1>2, <1>5, <1>6, <2>1
<1>8. Live(x, Lookup(x, id, k)) /\ x.slots[Lookup(x, id, k)].key = k
  BY <1>4, <1>7, LookupHit
<1>9. QED BY <1>8 DEF k, id, Live

\* A key that would be stored in a live record is found in it.
LEMMA LookupPlaced ==
  ASSUME NEW x, NEW k, NEW id \in Parities, x.dims \in 0 .. MAX_DIMS,
         Place(x, id, k, x.dims) # NULL, Live(x, Place(x, id, k, x.dims))
  PROVE  Lookup(x, id, k) = Place(x, id, k, x.dims)
<1> DEFINE at(d) == Stop(x, id, k, x.dims, d)
           Hit(d) == at(d) # NULL /\ ~Free(x, at(d))
           n == x.dims
<1>1. PICK d \in 0 .. n : /\ Place(x, id, k, x.dims) = at(d)
                          /\ \A e \in d + 1 .. n : at(e) = NULL
  BY PlaceCases
<1>2. Hit(d) BY <1>1 DEF Live
<1>3. \/ \A f \in 0 .. n : ~Hit(f)
      \/ \E f \in 0 .. n : /\ Lookup(x, id, k) = at(f) /\ Hit(f)
                           /\ \A e \in f + 1 .. n : ~Hit(e)
  BY LookupCases
<1>4. PICK f \in 0 .. n : /\ Lookup(x, id, k) = at(f) /\ Hit(f)
                          /\ \A e \in f + 1 .. n : ~Hit(e)
  BY <1>2, <1>3
<1>5. n \in Nat BY TablesAssumption
<1>6. \A e \in d + 1 .. n : ~Hit(e) BY <1>1
<1> HIDE DEF Hit, at, n
<1>7. ~(d < f) /\ ~(f < d) BY <1>2, <1>4, <1>5, <1>6
<1>8. d = f BY <1>5, <1>7
<1>9. QED BY <1>1, <1>4, <1>8 DEF at, n

\* Storing other records moves no walk that ended at a live one, or nowhere.
LEMMA StopKept ==
  ASSUME NEW x, NEW y, Keeps(x, y),
         NEW k, NEW id \in Parities, NEW top \in 0 .. MAX_DIMS, NEW d \in 0 .. top,
         LET i == Stop(x, id, k, top, d) IN i = NULL \/ ~Free(x, i)
  PROVE  Stop(y, id, k, top, d) = Stop(x, id, k, top, d)
<1> DEFINE c == Chain[id][top][d]
<1>1. \A p \in DOMAIN c : c[p] \in Indices BY ChainType
<1>2. \A i \in Indices : ~Free(x, i) =>
        ~Free(y, i) /\ (Mine(y, id, k, i) <=> Mine(x, id, k, i))
  BY DEF Keeps, Free, Mine
<1>3. CASE Stop(x, id, k, top, d) = NULL
  <2>1. \A p \in DOMAIN c : ~Free(x, c[p]) /\ ~Mine(x, id, k, c[p])
    BY <1>3, StopCases
  <2>2. \A p \in DOMAIN c : ~Free(y, c[p]) /\ ~Mine(y, id, k, c[p])
    BY <1>1, <1>2, <2>1
  <2>3. \/ Stop(y, id, k, top, d) = NULL
        \/ \E p \in DOMAIN c :
             /\ Stop(y, id, k, top, d) = c[p] /\ c[p] # NULL /\ c[p] \in Indices
             /\ Free(y, c[p]) \/ Mine(y, id, k, c[p])
             /\ \A q \in 1 .. p - 1 :
                  q \in DOMAIN c /\ ~Free(y, c[q]) /\ ~Mine(y, id, k, c[q])
    BY ONLY StopCases
  <2>4. QED BY <1>3, <2>2, <2>3
<1>4. CASE Stop(x, id, k, top, d) # NULL
  <2>0. \/ Stop(x, id, k, top, d) = NULL
        \/ \E p \in DOMAIN c :
             /\ Stop(x, id, k, top, d) = c[p] /\ c[p] # NULL /\ c[p] \in Indices
             /\ Free(x, c[p]) \/ Mine(x, id, k, c[p])
             /\ \A q \in 1 .. p - 1 :
                  q \in DOMAIN c /\ ~Free(x, c[q]) /\ ~Mine(x, id, k, c[q])
    BY ONLY StopCases
  <2>1. PICK p \in DOMAIN c :
          /\ Stop(x, id, k, top, d) = c[p]
          /\ Free(x, c[p]) \/ Mine(x, id, k, c[p])
          /\ \A q \in 1 .. p - 1 :
               q \in DOMAIN c /\ ~Free(x, c[q]) /\ ~Mine(x, id, k, c[q])
    BY <1>4, <2>0
  <2>2. ~Free(x, c[p]) BY <1>4, <2>1
  <2>3. Mine(y, id, k, c[p]) BY <1>1, <1>2, <2>1, <2>2
  <2>4. \A q \in 1 .. p - 1 : ~Free(y, c[q]) /\ ~Mine(y, id, k, c[q])
    BY <1>1, <1>2, <2>1
  <2>5. LET e == Chain[id][top][d]
        IN  /\ Free(y, e[p]) \/ Mine(y, id, k, e[p])
            /\ \A q \in 1 .. p - 1 : ~Free(y, e[q]) /\ ~Mine(y, id, k, e[q])
    BY <2>3, <2>4
  <2>7. Stop(y, id, k, top, d) = c[p]
    BY <2>5, StopIs
  <2>8. QED BY <2>1, <2>7
<1>5. QED BY <1>3, <1>4

\* A record that its walk meets is met after others came, and in a deeper table.
LEMMA ReachedKept ==
  ASSUME NEW x, NEW y, Keeps(x, y), x.dims \in 0 .. MAX_DIMS, y.dims \in x.dims .. MAX_DIMS,
         NEW i \in Indices, Live(x, i), x.slots[i].id \in Parities, Reached(x, i)
  PROVE  Reached(y, i)
<1> DEFINE h == x.slots[i]
           id == h.id
           g == y.slots[i]
<1>0. PICK d \in 0 .. x.dims : \E p \in DOMAIN Chain[id][x.dims][d] :
        /\ Chain[id][x.dims][d][p] = i
        /\ \A q \in 1 .. p - 1 :
             LET j == Chain[id][x.dims][d][q]
             IN  Live(x, j) /\ x.slots[j].key # h.key /\ x.slots[j].order < h.order
  BY DEF Reached
<1>1. PICK p \in DOMAIN Chain[id][x.dims][d] :
        /\ Chain[id][x.dims][d][p] = i
        /\ \A q \in 1 .. p - 1 :
             LET j == Chain[id][x.dims][d][q]
             IN  Live(x, j) /\ x.slots[j].key # h.key /\ x.slots[j].order < h.order
  BY <1>0
<1>2. g.key = h.key /\ g.id = id /\ g.order = h.order
  BY DEF Keeps, Live
<1>3. id \in Parities OBVIOUS
<1> HIDE DEF id
<1>4. /\ \E n \in Nat : DOMAIN Chain[id][x.dims][d] = 1 .. n
      /\ \A q \in DOMAIN Chain[id][x.dims][d] :
           /\ q \in DOMAIN Chain[id][y.dims][d]
           /\ Chain[id][y.dims][d][q] = Chain[id][x.dims][d][q]
  <2>1. x.dims \in 0 .. MAX_DIMS /\ d \in 0 .. x.dims /\ y.dims \in x.dims .. MAX_DIMS
    OBVIOUS
  <2>2. \E n \in Nat : DOMAIN Chain[id][x.dims][d] = 1 .. n
    BY ONLY <1>3, <2>1, ChainType
  <2>3. \A q \in DOMAIN Chain[id][x.dims][d] :
          /\ q \in DOMAIN Chain[id][y.dims][d]
          /\ Chain[id][y.dims][d][q] = Chain[id][x.dims][d][q]
    BY ONLY <1>3, <2>1, ChainGrows
  <2>4. QED BY ONLY <2>2, <2>3
<1>5. \A q \in 1 .. p - 1 : q \in DOMAIN Chain[id][x.dims][d]
  BY <1>4
<1>6. ASSUME NEW q \in 1 .. p - 1
      PROVE  LET j == Chain[id][y.dims][d][q]
             IN  Live(y, j) /\ y.slots[j].key # g.key /\ y.slots[j].order < g.order
  <2> DEFINE j == Chain[id][x.dims][d][q]
  <2>1. Chain[id][y.dims][d][q] = j BY <1>4, <1>5
  <2>2. Live(x, j) /\ x.slots[j].key # h.key /\ x.slots[j].order < h.order
    BY <1>1
  <2> HIDE DEF j
  <2>3. /\ Live(y, j) /\ y.slots[j].key = x.slots[j].key
        /\ y.slots[j].order = x.slots[j].order
    BY <2>2 DEF Keeps, Live
  <2>4. QED BY <1>2, <2>1, <2>2, <2>3
<1>7. d \in 0 .. y.dims BY TablesAssumption
<1>8. p \in DOMAIN Chain[id][y.dims][d] /\ Chain[id][y.dims][d][p] = i
  BY <1>1, <1>4
<1>9. QED BY <1>2, <1>6, <1>7, <1>8 DEF Reached
-----------------------------------------------------------------------------
\* The index past a full table is the first that needs one level more.
LEMMA DimsNeededIs ==
  ASSUME NEW i \in Indices, NEW d \in 0 .. MAX_DIMS, i < Capacity(d)
  PROVE  /\ DimsNeeded(i) <= d
         /\ d > 0 /\ i >= Capacity(d - 1) => DimsNeeded(i) = d
<1> DEFINE e == DimsNeeded(i)
<1>1. e \in 0 .. MAX_DIMS /\ Fits(i, e)
  BY TablesAssumption DEF DimsNeeded
<1>2. \A a, b \in 0 .. MAX_DIMS : a <= b => Capacity(a) <= Capacity(b)
  BY TablesAssumption
<1>3. MAX_DIMS \in Nat BY TablesAssumption
<1>4. \A a \in 0 .. MAX_DIMS : Capacity(a) \in Nat BY CapacityBounds
<1>5. i \in Nat BY CapacityBounds DEF Indices
<1> HIDE DEF e
<1>6. e <= d
  <2>1. SUFFICES ASSUME d < e PROVE FALSE BY <1>1
  <2>2. i >= INCREMENTS[e] BY <1>1, <2>1 DEF Fits
  <2>3. INCREMENTS[e] = Capacity(e - 1) BY <1>1 DEF Capacity
  <2>4. e - 1 \in 0 .. MAX_DIMS /\ d <= e - 1 BY <1>1, <1>3, <2>1
  <2>5. Capacity(d) <= Capacity(e - 1) BY <1>2, <2>4
  <2>6. Capacity(d) \in Nat /\ Capacity(e - 1) \in Nat BY <1>4, <2>4
  <2>7. QED BY <1>5, <2>2, <2>3, <2>5, <2>6
<1>7. ASSUME d > 0, i >= Capacity(d - 1) PROVE e = d
  <2>1. SUFFICES ASSUME e < d PROVE FALSE BY <1>1, <1>6
  <2>2. e <= d - 1 /\ d - 1 \in 0 .. MAX_DIMS BY <1>1, <1>3, <2>1
  <2>3. Capacity(e) <= Capacity(d - 1) BY <1>1, <1>2, <2>2
  <2>4. i < Capacity(e) BY <1>1 DEF Fits
  <2>5. Capacity(e) \in Nat /\ Capacity(d - 1) \in Nat BY <1>1, <1>4, <2>2
  <2>6. QED BY <1>5, <1>7, <2>3, <2>4, <2>5
<1>8. QED BY <1>6, <1>7 DEF e

\* Every level has room for more than the one below it.
LEMMA DeeperHolds ==
  ASSUME NEW d \in 1 .. MAX_DIMS
  PROVE  Capacity(d - 1) \in Indices /\ Capacity(d - 1) < Capacity(d)
<1>1. MAX_DIMS \in Nat /\ d \in 0 .. MAX_DIMS /\ d - 1 \in 0 .. MAX_DIMS
  BY TablesAssumption
<1>2. Capacity(d) = STRIDE * Capacity(d - 1)
  BY <1>1, TablesAssumption DEF Capacity
<1>3. STRIDE \in Nat /\ STRIDE > 1 BY TablesAssumption DEF STRIDE
<1>4. Capacity(d - 1) \in Nat \ {0} BY <1>1, TablesAssumption DEF Capacity
<1>5. \A s, c \in Nat : s > 1 /\ c # 0 => s * c > c
  <2>1. SUFFICES ASSUME NEW s \in Nat, NEW c \in Nat, s > 1, c # 0 PROVE s * c > c
    OBVIOUS
  <2>2. s - 2 \in Nat /\ s * c = (s - 2) * c + 2 * c BY <2>1
  <2>3. (s - 2) * c \in Nat BY <2>1, <2>2
  <2> DEFINE z == (s - 2) * c
  <2> HIDE DEF z
  <2>4. s * c = z + 2 * c /\ z \in Nat BY <2>2, <2>3 DEF z
  <2>5. QED BY <2>1, <2>4
<1>6. Capacity(d - 1) < Capacity(d)
  <2>1. STRIDE * Capacity(d - 1) > Capacity(d - 1) BY <1>3, <1>4, <1>5
  <2>2. STRIDE * Capacity(d - 1) \in Nat BY <1>3, <1>4
  <2>3. QED BY <1>2, <1>4, <2>1, <2>2
<1>7. Limit \in Nat /\ Capacity(d) \in Nat /\ Capacity(d) <= Limit BY <1>1, CapacityBounds
<1>8. QED BY <1>4, <1>6, <1>7 DEF Indices

Deeper(x, d) == Iter_Init(Iter_ExpandTo(x, Capacity(d - 1)))

\* Growing by a level moves no record.
LEMMA DeeperSame ==
  ASSUME NEW x, Bounded(x), NEW d \in 1 .. MAX_DIMS, x.dims = d - 1
  PROVE  LET y == Deeper(x, d)
         IN  /\ Bounded(y) /\ y.slots = x.slots /\ y.nvalues = x.nvalues /\ y.dims = d
<1> DEFINE c == Capacity(d - 1)
           s == Store(x, c, NULL)
           e == Iter_ExpandTo(x, c)
           y == Iter_Init(e)
<1>1. c \in Indices /\ c < Capacity(d) BY DeeperHolds
<1>2. MAX_DIMS \in Nat /\ d \in 0 .. MAX_DIMS BY TablesAssumption
<1>3. x \in ReelType(Records) /\ NULL \in Records BY DEF Bounded, Records
<1>4. c \in Nat BY <1>1, CapacityBounds DEF Indices
<1>5. x.slots[c] = NULL
  <2>1. x.slots[c] # NULL => c < Capacity(x.dims) BY <1>1 DEF Bounded
  <2>2. QED BY <1>4, <2>1
<1>6. DimsNeeded(c) = d
  <2>1. d > 0 /\ c >= Capacity(d - 1) BY <1>4
  <2>2. QED BY <1>1, <1>2, <2>1, DimsNeededIs
<1> HIDE DEF c
<1>7. /\ s \in ReelType(Records) /\ s.slots = [x.slots EXCEPT ![c] = NULL]
      /\ s.nvalues = IF x.slots[c] = NULL THEN x.nvalues + 1 ELSE x.nvalues
  BY <1>1, <1>3, StoreType
<1>8. s.slots = x.slots BY <1>3, <1>5, <1>7 DEF ReelType
<1>9. s.dims = Higher(x.dims, DimsNeeded(c)) BY DEF Store
<1>10. s.dims = d BY <1>2, <1>6, <1>9 DEF Higher
<1> DEFINE n == s.nvalues - 1
<1>11. e = [s EXCEPT !.nvalues = n, !.end = FALSE] BY DEF Iter_ExpandTo
<1>12. n = x.nvalues /\ n \in Int BY <1>3, <1>5, <1>7 DEF ReelType
<1> HIDE DEF s, e, n
<1>13. /\ e \in ReelType(Records) /\ e.slots = x.slots /\ e.nvalues = n /\ e.dims = d
  BY <1>7, <1>8, <1>10, <1>11, <1>12 DEF ReelType
<1>14. /\ y \in ReelType(Records) /\ y.slots = e.slots /\ y.nvalues = e.nvalues
       /\ y.dims = e.dims
  BY <1>3, <1>13, InitType
<1>15. y = Deeper(x, d) BY DEF Deeper, c, e
<1> HIDE DEF y
<1>16. \A i \in Indices : y.slots[i] # NULL => i < Capacity(y.dims)
  <2>1. SUFFICES ASSUME NEW i \in Indices, y.slots[i] # NULL PROVE i < Capacity(d)
    BY <1>13, <1>14
  <2>2. i < c BY <1>13, <1>14, <2>1 DEF Bounded, c
  <2>3. i \in Int /\ Capacity(d) \in Nat BY <1>2, CapacityBounds DEF Indices
  <2>4. QED BY <1>1, <1>4, <2>2, <2>3
<1>17. QED BY <1>12, <1>13, <1>14, <1>15, <1>16 DEF Bounded

Grows(f, x, N) == f = [d \in x.dims .. x.dims + N |-> IF d = x.dims THEN x ELSE Deeper(f[d - 1], d)]

\* The levels can be added one after the other.
LEMMA GrowsExists ==
  ASSUME NEW x, x.dims \in Nat, NEW N \in Nat
  PROVE  \E f : Grows(f, x, N)
<1> DEFINE b == x.dims
           Is(f, n) == f = [d \in b .. b + n |-> IF d = b THEN x ELSE Deeper(f[d - 1], d)]
           S == {n \in Nat : \E f : Is(f, n)}
<1> HIDE DEF b
<1>0. b \in Nat BY DEF b
<1>1. 0 \in S
  <2> DEFINE f == [d \in b .. b + 0 |-> x]
  <2>1. \A d \in b .. b + 0 : d = b BY <1>0
  <2>2. f = [d \in b .. b + 0 |-> IF d = b THEN x ELSE Deeper(f[d - 1], d)]
    BY <2>1
  <2> HIDE DEF f
  <2>3. Is(f, 0) BY <2>2
  <2>4. QED BY <2>3
<1>2. ASSUME NEW n \in Nat, n \in S PROVE n + 1 \in S
  <2>1. PICK f : Is(f, n) BY <1>2
  <2> DEFINE g == [d \in b .. b + (n + 1) |-> IF d <= b + n THEN f[d] ELSE Deeper(f[b + n], d)]
  <2>2. \A d \in b .. b + n : f[d] = IF d = b THEN x ELSE Deeper(f[d - 1], d)
    <3>1. f = [d \in b .. b + n |-> IF d = b THEN x ELSE Deeper(f[d - 1], d)]
      BY <2>1
    <3> HIDE DEF Is
    <3>2. QED BY <3>1
  <2>3. ASSUME NEW d \in b .. b + (n + 1)
        PROVE  g[d] = IF d = b THEN x ELSE Deeper(g[d - 1], d)
    <3>1. CASE d <= b + n
      <4>1. d \in b .. b + n /\ g[d] = f[d] BY <1>0, <3>1
      <4>2. d # b => g[d - 1] = f[d - 1] BY <1>0, <3>1
      <4>3. QED BY <2>2, <4>1, <4>2
    <3>2. CASE ~(d <= b + n)
      <4>1. /\ d = b + (n + 1) /\ g[d] = Deeper(f[b + n], d) /\ d - 1 = b + n /\ d # b
        BY <1>0, <3>2
      <4>2. g[b + n] = f[b + n] BY <1>0
      <4>3. QED BY <4>1, <4>2
    <3>3. QED BY <3>1, <3>2
  <2>4. g = [d \in b .. b + (n + 1) |-> g[d]] OBVIOUS
  <2> HIDE DEF g
  <2>5. Is(g, n + 1) BY <2>3, <2>4
  <2> HIDE DEF Is
  <2>6. \E h : Is(h, n + 1) BY <2>5
  <2>7. n + 1 \in Nat OBVIOUS
  <2>8. QED BY <2>6, <2>7
<1>3. \A n \in Nat : n \in S => n + 1 \in S
  BY <1>2
<1> HIDE DEF S
<1>4. Nat \subseteq S
  BY ONLY <1>1, <1>3, SetInduction
<1>5. QED BY <1>4 DEF S, Grows, b

\* A table that grew has the records it had.
LEMMA GrownSame ==
  ASSUME NEW x, Bounded(x), NEW depth \in x.dims .. MAX_DIMS
  PROVE  LET y == Grown(x, depth)
         IN  /\ Bounded(y) /\ y.slots = x.slots /\ y.nvalues = x.nvalues /\ y.dims = depth
<1> DEFINE Is(f) == f = [d \in x.dims .. depth |-> IF d = x.dims THEN x ELSE Deeper(f[d - 1], d)]
           at == CHOOSE f : Is(f)
           Same(y) == Bounded(y) /\ y.slots = x.slots /\ y.nvalues = x.nvalues
<1>1. MAX_DIMS \in Nat /\ x.dims \in 0 .. MAX_DIMS
  BY TablesAssumption DEF Bounded, ReelType
<1>2. Grown(x, depth) = at[depth] BY DEF Grown, Deeper
<1>3. \E f : Is(f)
  <2>1. depth - x.dims \in Nat /\ x.dims + (depth - x.dims) = depth BY <1>1
  <2>2. \E f : Grows(f, x, depth - x.dims) BY <1>1, <2>1, GrowsExists
  <2>3. QED BY <2>1, <2>2 DEF Grows
<1>4. Is(at) BY <1>3
<1> HIDE DEF at
<1>5. \A d \in x.dims .. depth : at[d] = IF d = x.dims THEN x ELSE Deeper(at[d - 1], d)
  <2>1. at = [d \in x.dims .. depth |-> IF d = x.dims THEN x ELSE Deeper(at[d - 1], d)]
    BY <1>4
  <2> HIDE DEF Is
  <2>2. QED BY <2>1
<1> DEFINE Holds(n) == LET d == x.dims + n IN d <= depth => Same(at[d]) /\ at[d].dims = d
           S == {n \in Nat : Holds(n)}
<1>6. 0 \in S
  <2>1. x.dims + 0 = x.dims /\ x.dims \in x.dims .. depth BY <1>1
  <2>2. at[x.dims] = x BY <1>5, <2>1
  <2>3. Same(x) OBVIOUS
  <2>4. QED BY <2>1, <2>2, <2>3
<1>7. ASSUME NEW n \in Nat, n \in S PROVE n + 1 \in S
  <2> DEFINE d == x.dims + (n + 1)
  <2>1. SUFFICES ASSUME d <= depth PROVE Same(at[d]) /\ at[d].dims = d
    BY <1>7
  <2>2. /\ d \in x.dims .. depth /\ d # x.dims /\ d - 1 = x.dims + n /\ d \in 1 .. MAX_DIMS
        /\ x.dims + n <= depth
    BY <1>1, <2>1
  <2>3. Same(at[d - 1]) /\ at[d - 1].dims = d - 1 BY <1>7, <2>2
  <2>4. at[d] = Deeper(at[d - 1], d) BY <1>5, <2>2
  <2> HIDE DEF d
  <2>5. LET y == Deeper(at[d - 1], d)
        IN  /\ Bounded(y) /\ y.slots = at[d - 1].slots /\ y.nvalues = at[d - 1].nvalues
            /\ y.dims = d
    BY <2>2, <2>3, DeeperSame
  <2>6. QED BY <2>3, <2>4, <2>5
<1>8. \A n \in Nat : n \in S => n + 1 \in S
  BY <1>7
<1>9. S = {n \in Nat : Holds(n)} OBVIOUS
<1> HIDE DEF S
<1>10. Nat \subseteq S
  BY ONLY <1>6, <1>8, SetInduction
<1>11. depth - x.dims \in Nat /\ x.dims + (depth - x.dims) = depth BY <1>1
<1>12. Holds(depth - x.dims) BY <1>9, <1>10, <1>11
<1>13. QED BY <1>1, <1>2, <1>11, <1>12
-----------------------------------------------------------------------------
(* What storing v under k at i makes of a table.                           *)
Stored(x, y, k, v, i) ==
  /\ Bounded(y) /\ y.dims \in x.dims .. MAX_DIMS
  /\ i \in Indices /\ i = Place(x, parity[k], k, y.dims)
  /\ \A j \in Indices \ {i} : y.slots[j] = x.slots[j]
  /\ Live(y, i) /\ y.slots[i].key = k /\ y.slots[i].id = parity[k] /\ y.slots[i].value = v
  /\ \/ /\ x.slots[i] = NULL
        /\ y.slots[i].order = x.nvalues /\ y.nvalues = x.nvalues + 1
     \/ /\ Live(x, i) /\ x.slots[i].key = k /\ x.slots[i].id = parity[k]
        /\ y.slots[i].order = x.slots[i].order /\ y.nvalues = x.nvalues

\* A walk that stores ends inside the table, at a free index or at the key's record.
LEMMA PlaceType ==
  ASSUME NEW x, NEW k, NEW id \in Parities, NEW top \in 0 .. MAX_DIMS,
         Place(x, id, k, top) # NULL
  PROVE  LET i == Place(x, id, k, top)
         IN  i \in Indices /\ i < Capacity(top) /\ (Free(x, i) \/ Mine(x, id, k, i))
<1> DEFINE i == Place(x, id, k, top)
<1>1. PICK d \in 0 .. top : i = Stop(x, id, k, top, d)
  BY PlaceCases
<1>2. \/ Stop(x, id, k, top, d) = NULL
      \/ \E p \in DOMAIN Chain[id][top][d] :
           LET j == Chain[id][top][d][p]
           IN  Stop(x, id, k, top, d) = j /\ (Free(x, j) \/ Mine(x, id, k, j))
  BY StopCases
<1>3. \A p \in DOMAIN Chain[id][top][d] :
        Chain[id][top][d][p] \in Indices /\ Chain[id][top][d][p] < Capacity(top)
  BY ChainType
<1>4. QED BY <1>1, <1>2, <1>3

\* The spot is where the key goes in the table once it has the depth.
LEMMA SpotIs ==
  ASSUME NEW x, x.dims \in 0 .. MAX_DIMS, NEW k, NEW id \in Parities, Spot(x, id, k) # NULL
  PROVE  LET s == Spot(x, id, k)
         IN  /\ s.depth \in x.dims .. MAX_DIMS
             /\ s.idx = Place(x, id, k, s.depth) /\ s.idx # NULL
<1> DEFINE first == IF x.nvalues > OCCUPIED[x.dims] THEN x.dims + 1 ELSE x.dims
           at == [d \in first .. MAX_DIMS |-> Place(x, id, k, d)]
           fits == {d \in first .. MAX_DIMS : at[d] # NULL}
           depth == CHOOSE d \in fits : \A e \in fits : d <= e
<1>1. Spot(x, id, k) = IF fits = {} THEN NULL ELSE [depth |-> depth, idx |-> at[depth]]
  BY DEF Spot
<1>2. first \in Nat /\ first >= x.dims BY TablesAssumption
<1>3. fits # {} BY <1>1
<1>4. fits \subseteq Nat BY <1>2
<1>5. \E d \in fits : \A e \in fits : d <= e BY <1>3, <1>4, LeastExists
<1>6. depth \in fits BY <1>5
<1> HIDE DEF depth
<1>7. at[depth] = Place(x, id, k, depth) /\ at[depth] # NULL BY <1>6
<1>8. depth \in x.dims .. MAX_DIMS BY <1>2, <1>6, TablesAssumption
<1> HIDE DEF at, fits
<1>9. Spot(x, id, k).depth = depth /\ Spot(x, id, k).idx = at[depth] BY <1>1, <1>3
<1>10. QED BY <1>7, <1>8, <1>9

\* Storing is what Stored says, for a client that stores in no freed record.
LEMMA PutStores ==
  ASSUME Numbering, ~Careless, NEW k \in Keys, NEW v \in Values \union {NULL},
         Put(k, v, Spot(tbl, parity[k], k))
  PROVE  /\ Stored(tbl, tbl', k, v, Spot(tbl, parity[k], k).idx)
         /\ tbl'.dims > DOUBLED_DIMS => ~Doubled(tbl')
<1> DEFINE id == parity[k]
           spot == Spot(tbl, id, k)
           i == spot.idx
           g == Grown(tbl, spot.depth)
           h == tbl.slots[i]
<1>1. id \in Parities /\ id \in Nat /\ Bounded(tbl) /\ tbl.dims \in 0 .. MAX_DIMS
  BY TableAssumption DEF Numbering, Bounded, ReelType
<1>2. /\ spot # NULL /\ tbl' = StoreAt(g, k, i, v) /\ ~Freed(tbl, i)
      /\ tbl'.dims > DOUBLED_DIMS => ~Doubled(tbl')
  BY DEF Put
<1>3. /\ spot.depth \in tbl.dims .. MAX_DIMS
      /\ i = Place(tbl, id, k, spot.depth) /\ i # NULL
  BY <1>1, <1>2, SpotIs
<1>4. spot.depth \in 0 .. MAX_DIMS BY <1>1, <1>3, TablesAssumption
<1>5. i \in Indices /\ i < Capacity(spot.depth) /\ (Free(tbl, i) \/ Mine(tbl, id, k, i))
  BY <1>1, <1>3, <1>4, PlaceType
<1>6. /\ Bounded(g) /\ g.slots = tbl.slots /\ g.nvalues = tbl.nvalues /\ g.dims = spot.depth
  BY <1>1, <1>3, GrownSame
<1>7. Free(g, i) = Free(tbl, i) BY <1>6 DEF Free
<1>8. h \in Records /\ (h # NULL => h \in Hashed)
  BY <1>1, <1>5 DEF Bounded, ReelType, Records
<1>9. NULL \notin Hashed BY TableAssumption
<1>10. tbl.nvalues \in Nat BY DEF Numbering, Numbered
<1> HIDE DEF g, i, h, id, spot
<1>11. CASE Free(tbl, i)
  <2> DEFINE new == [key |-> k, id |-> id, value |-> v, order |-> tbl.nvalues]
             s == Store(g, i, new)
  <2>1. h = NULL BY <1>2, <1>11 DEF Free, Freed, h
  <2>2. tbl' = Iter_Init(s)
    BY <1>2, <1>6, <1>7, <1>11, <2>1 DEF StoreAt, h, id
  <2>3. new \in Hashed /\ new # NULL /\ new \in Records
    BY <1>1, <1>9, <1>10 DEF Hashed, Records
  <2>4. new.key = k /\ new.id = id /\ new.value = v /\ new.order = tbl.nvalues /\ new.order # -1
    BY <1>10
  <2> HIDE DEF new
  <2>5. g \in ReelType(Records) /\ NULL \in Records BY <1>6 DEF Bounded, Records
  <2>6. /\ s \in ReelType(Records) /\ s.slots = [g.slots EXCEPT ![i] = new]
        /\ s.nvalues = IF g.slots[i] = NULL THEN g.nvalues + 1 ELSE g.nvalues
    BY <1>5, <2>3, <2>5, StoreType
  <2>7. s.dims = Higher(g.dims, DimsNeeded(i)) BY DEF Store
  <2>8. DimsNeeded(i) <= spot.depth /\ DimsNeeded(i) \in 0 .. MAX_DIMS
    BY <1>4, <1>5, DimsNeededIs, DimsFit
  <2>9. s.dims = spot.depth BY <1>4, <1>6, <2>7, <2>8 DEF Higher
  <2> HIDE DEF s
  <2>10. /\ tbl' \in ReelType(Records) /\ tbl'.slots = s.slots /\ tbl'.nvalues = s.nvalues
         /\ tbl'.dims = s.dims
    BY <2>2, <2>5, <2>6, InitType
  <2>11. tbl'.slots = [tbl.slots EXCEPT ![i] = new] /\ tbl'.nvalues = tbl.nvalues + 1
    BY <1>6, <2>1, <2>6, <2>10 DEF h
  <2>12. tbl.slots \in [Indices -> Records] BY <1>1 DEF Bounded, ReelType
  <2>13. tbl'.slots[i] = new /\ \A j \in Indices \ {i} : tbl'.slots[j] = tbl.slots[j]
    BY <1>5, <2>11, <2>12
  <2>14. Bounded(tbl')
    BY <1>5, <1>6, <2>9, <2>10, <2>13 DEF Bounded
  <2>15. Live(tbl', i) BY <1>5, <2>3, <2>4, <2>13 DEF Live, Free
  <2>16. tbl'.dims \in tbl.dims .. MAX_DIMS /\ i = Place(tbl, id, k, tbl'.dims)
    BY <1>3, <2>9, <2>10
  <2>17. /\ tbl'.slots[i].key = k /\ tbl'.slots[i].id = id /\ tbl'.slots[i].value = v
         /\ tbl'.slots[i].order = tbl.nvalues /\ tbl.slots[i] = NULL
    BY <2>1, <2>4, <2>13 DEF h
  <2>18. Stored(tbl, tbl', k, v, i)
    BY ONLY <1>5, <2>11, <2>13, <2>14, <2>15, <2>16, <2>17 DEF Stored, id
  <2>19. QED BY <1>2, <2>18 DEF i, id, spot
<1>12. CASE ~Free(tbl, i)
  <2> DEFINE new == [h EXCEPT !.value = v]
  <2>1. h \in Hashed /\ Mine(tbl, id, k, i) /\ h.order # -1
    BY <1>5, <1>8, <1>12 DEF Free, h
  <2>2. h.key = k /\ h.id = id BY <2>1 DEF Mine, h
  <2>3. /\ new \in Hashed /\ new.key = k /\ new.id = id /\ new.value = v
        /\ new.order = h.order
    BY <2>1, <2>2 DEF Hashed
  <2>4. new # NULL /\ new \in Records BY <1>9, <2>3 DEF Records
  <2>5. tbl' = [g EXCEPT !.slots = [g.slots EXCEPT ![i] = [@ EXCEPT !.value = v]]]
    BY <1>2, <1>7, <1>12 DEF StoreAt
  <2>6. g.slots \in [Indices -> Records] /\ g \in ReelType(Records)
    BY <1>6 DEF Bounded, ReelType
  <2>7. [g.slots EXCEPT ![i] = [@ EXCEPT !.value = v]] = [g.slots EXCEPT ![i] = new]
    BY <1>6, <2>6 DEF h
  <2> HIDE DEF new
  <2> DEFINE f == [g.slots EXCEPT ![i] = new]
  <2>8. f \in [Indices -> Records] /\ f[i] = new /\ \A j \in Indices \ {i} : f[j] = g.slots[j]
    BY <1>5, <2>4, <2>6
  <2>9. tbl' = [g EXCEPT !.slots = f] BY <2>5, <2>7
  <2> HIDE DEF f
  <2>10. /\ tbl' \in ReelType(Records) /\ tbl'.slots = f /\ tbl'.nvalues = g.nvalues
         /\ tbl'.dims = g.dims
    BY <2>6, <2>8, <2>9 DEF ReelType
  <2>11. Bounded(tbl')
    BY <1>5, <1>6, <2>8, <2>10 DEF Bounded
  <2>12. Live(tbl', i) /\ Live(tbl, i)
    BY <1>5, <1>12, <2>1, <2>3, <2>4, <2>8, <2>10 DEF Live, Free
  <2>13. tbl'.dims \in tbl.dims .. MAX_DIMS /\ i = Place(tbl, id, k, tbl'.dims)
    BY <1>3, <1>6, <2>10
  <2>14. /\ \A j \in Indices \ {i} : tbl'.slots[j] = tbl.slots[j]
         /\ tbl'.nvalues = tbl.nvalues
    BY <1>6, <2>8, <2>10
  <2>15. /\ tbl'.slots[i].key = k /\ tbl'.slots[i].id = id /\ tbl'.slots[i].value = v
         /\ tbl'.slots[i].order = tbl.slots[i].order
         /\ tbl.slots[i].key = k /\ tbl.slots[i].id = id
    BY <2>2, <2>3, <2>8, <2>10 DEF h
  <2>16. Stored(tbl, tbl', k, v, i)
    BY ONLY <1>5, <2>11, <2>12, <2>13, <2>14, <2>15 DEF Stored, id
  <2>17. QED BY <1>2, <2>16 DEF i, id, spot
<1>13. QED BY <1>11, <1>12
-----------------------------------------------------------------------------
(* What removing the record at i makes of a table, and what giving it      *)
(* another value does.                                                     *)
Erased(x, y, i) ==
  /\ Bounded(y) /\ y.dims = x.dims /\ y.nvalues = x.nvalues - 1
  /\ Live(x, i) /\ x.slots[i].order = x.nvalues - 1 /\ ~Live(y, i)
  /\ \A j \in Indices \ {i} : y.slots[j] = x.slots[j]

Revalued(x, y, i, v) ==
  /\ Bounded(y) /\ y.dims = x.dims /\ y.nvalues = x.nvalues
  /\ i \in Indices /\ y.slots[i].value = v
  /\ \A j \in Indices : Live(x, j) <=> Live(y, j)
  /\ \A j \in Indices \ {i} : y.slots[j] = x.slots[j]
  /\ y.slots[i].key = x.slots[i].key /\ y.slots[i].id = x.slots[i].id
  /\ y.slots[i].order = x.slots[i].order

LEMMA StoredKeeps ==
  ASSUME NEW x, NEW y, NEW k, NEW v, NEW i, Stored(x, y, k, v, i)
  PROVE  Keeps(x, y)
BY DEF Stored, Keeps, Live, Free

\* A new record takes the next number.
LEMMA StoredNumbered ==
  ASSUME NEW x, NEW y, NEW k, NEW v, NEW i, Numbered(x), Stored(x, y, k, v, i)
  PROVE  Numbered(y)
<1>1. x.nvalues \in Nat /\ i \in Indices /\ Live(y, i) BY DEF Numbered, Stored
<1>2. \A j \in Indices \ {i} : y.slots[j] = x.slots[j] /\ (Live(x, j) <=> Live(y, j))
  BY DEF Stored, Live, Free
<1>3. CASE x.slots[i] = NULL /\ y.slots[i].order = x.nvalues /\ y.nvalues = x.nvalues + 1
  <2>1. ~Live(x, i) BY <1>3 DEF Live, Free
  <2>2. \A j \in Indices : Live(y, j) => y.slots[j].order \in 0 .. y.nvalues - 1
    BY <1>1, <1>2, <1>3 DEF Numbered
  <2>3. ASSUME NEW n \in 0 .. y.nvalues - 1
        PROVE  \E j \in Indices : Live(y, j) /\ y.slots[j].order = n
    <3>1. CASE n = x.nvalues BY <1>1, <1>3, <3>1
    <3>2. CASE n # x.nvalues
      <4>1. n \in 0 .. x.nvalues - 1 BY <1>1, <1>3, <3>2
      <4>2. PICK j \in Indices : Live(x, j) /\ x.slots[j].order = n BY <4>1 DEF Numbered
      <4>3. QED BY <1>2, <2>1, <4>2
    <3>3. QED BY <3>1, <3>2
  <2>4. ASSUME NEW j \in Indices, NEW l \in Indices, Live(y, j), Live(y, l),
               y.slots[j].order = y.slots[l].order
        PROVE  j = l
    <3>1. \A m \in Indices \ {i} : Live(y, m) => y.slots[m].order # x.nvalues
      BY <1>1, <1>2 DEF Numbered
    <3>2. CASE j = i \/ l = i BY <1>3, <2>4, <3>1, <3>2
    <3>3. CASE j # i /\ l # i BY <1>2, <2>4, <3>3 DEF Numbered
    <3>4. QED BY <3>2, <3>3
  <2>5. y.nvalues \in Nat BY <1>1, <1>3
  <2>6. QED BY <2>2, <2>3, <2>4, <2>5 DEF Numbered
<1>4. CASE Live(x, i) /\ y.slots[i].order = x.slots[i].order /\ y.nvalues = x.nvalues
  <2>1. \A j \in Indices : /\ Live(x, j) <=> Live(y, j)
                           /\ y.slots[j].order = x.slots[j].order
    BY <1>1, <1>2, <1>4
  <2>2. QED BY <1>4, <2>1 DEF Numbered
<1>5. QED BY <1>3, <1>4 DEF Stored

\* Without the last record the others keep their numbers.
LEMMA ErasedNumbered ==
  ASSUME NEW x, NEW y, NEW i, Numbered(x), Erased(x, y, i)
  PROVE  Numbered(y)
<1>1. /\ x.nvalues \in Nat /\ i \in Indices /\ Live(x, i) /\ ~Live(y, i)
      /\ x.slots[i].order = x.nvalues - 1 /\ y.nvalues = x.nvalues - 1
  BY DEF Numbered, Erased, Live
<1>2. \A j \in Indices \ {i} : y.slots[j] = x.slots[j] /\ (Live(x, j) <=> Live(y, j))
  BY DEF Erased, Live, Free
<1>3. y.nvalues \in Nat
  <2>1. x.slots[i].order \in 0 .. x.nvalues - 1 BY <1>1 DEF Numbered
  <2>2. QED BY <1>1, <2>1
<1>4. ASSUME NEW j \in Indices, Live(y, j) PROVE y.slots[j].order \in 0 .. y.nvalues - 1
  <2>1. j # i /\ Live(x, j) /\ y.slots[j].order = x.slots[j].order BY <1>1, <1>2, <1>4
  <2>2. x.slots[j].order \in 0 .. x.nvalues - 1 /\ x.slots[j].order # x.slots[i].order
    BY <1>1, <2>1 DEF Numbered
  <2>3. QED BY <1>1, <2>1, <2>2
<1>5. ASSUME NEW n \in 0 .. y.nvalues - 1
      PROVE  \E j \in Indices : Live(y, j) /\ y.slots[j].order = n
  <2>1. n \in 0 .. x.nvalues - 1 /\ n # x.nvalues - 1 BY <1>1
  <2>2. PICK j \in Indices : Live(x, j) /\ x.slots[j].order = n BY <2>1 DEF Numbered
  <2>3. j # i BY <1>1, <2>1, <2>2
  <2>4. QED BY <1>2, <2>2, <2>3
<1>6. ASSUME NEW j \in Indices, NEW l \in Indices, Live(y, j), Live(y, l),
             y.slots[j].order = y.slots[l].order
      PROVE  j = l
  BY <1>1, <1>2, <1>6 DEF Numbered
<1>7. QED BY <1>3, <1>4, <1>5, <1>6 DEF Numbered

LEMMA RevaluedNumbered ==
  ASSUME NEW x, NEW y, NEW i, NEW v, Numbered(x), Revalued(x, y, i, v)
  PROVE  Numbered(y)
<1>1. \A j \in Indices : Live(x, j) <=> Live(y, j) BY DEF Revalued
<1>2. \A j \in Indices : y.slots[j].order = x.slots[j].order
  BY DEF Revalued
<1>3. y.nvalues = x.nvalues BY DEF Revalued
<1>4. QED BY <1>1, <1>2, <1>3 DEF Numbered

\* A careful client removes only the record stored last.
LEMMA UnSetErases ==
  ASSUME Numbering, ~Careless, NEW k \in Keys, Table_UnSet(k)
  PROVE  Erased(tbl, tbl', Lookup(tbl, parity[k], k))
<1> DEFINE i == Lookup(tbl, parity[k], k)
           h == tbl.slots[i]
           new == [h EXCEPT !.value = NULL, !.id = 0, !.order = -1]
           n == tbl.nvalues - 1
<1>1. parity[k] \in Parities /\ Bounded(tbl) /\ tbl.dims \in 0 .. MAX_DIMS
  BY DEF Numbering, Bounded, ReelType
<1>2. i # NULL /\ Removable(i) BY DEF Table_UnSet
<1>3. Live(tbl, i) BY <1>1, <1>2, LookupHit
<1>4. tbl' = [tbl EXCEPT !.nvalues = n, !.slots[i] = new]
  BY DEF Table_UnSet
<1>5. h.order = tbl.nvalues - 1 BY <1>2 DEF Removable
<1>6. i \in Indices /\ h # NULL BY <1>3 DEF Live, Free
<1>7. h \in Hashed BY <1>1, <1>6 DEF Bounded, ReelType, Records
<1>8. new \in Hashed /\ new.order = -1
  <2> HIDE DEF h
  <2> DEFINE w == [h EXCEPT !.value = NULL]
             z == [w EXCEPT !.id = 0]
  <2>1. w \in Hashed BY <1>7 DEF Hashed
  <2> HIDE DEF w
  <2>2. z \in Hashed BY <2>1 DEF Hashed
  <2> HIDE DEF z
  <2>3. [z EXCEPT !.order = -1] \in Hashed /\ [z EXCEPT !.order = -1].order = -1
    BY <2>2 DEF Hashed
  <2>4. new = [z EXCEPT !.order = -1] BY DEF z, w
  <2>5. QED BY <2>3, <2>4
<1>9. n \in Int /\ tbl \in ReelType(Records) BY <1>1 DEF Numbering, Numbered, Bounded
<1> HIDE DEF i, new
<1> DEFINE f == [tbl.slots EXCEPT ![i] = new]
<1>10. tbl.slots \in [Indices -> Records] BY <1>9 DEF ReelType
<1>11. f \in [Indices -> Records] /\ f[i] = new /\ \A j \in Indices \ {i} : f[j] = tbl.slots[j]
  BY <1>6, <1>8, <1>10 DEF Records
<1>12. tbl' = [tbl EXCEPT !.nvalues = n, !.slots = f] BY <1>4
<1>a. n = tbl.nvalues - 1 OBVIOUS
<1> HIDE DEF f, n
<1>13. /\ tbl' \in ReelType(Records) /\ tbl'.slots = f /\ tbl'.nvalues = n
       /\ tbl'.dims = tbl.dims
  BY <1>9, <1>11, <1>12 DEF ReelType
<1>14. Bounded(tbl')
  <2>1. i < Capacity(tbl.dims) BY <1>1, <1>6 DEF Bounded
  <2>2. QED BY <1>1, <1>11, <1>13, <2>1 DEF Bounded
<1>15. ~Live(tbl', i) BY <1>8, <1>11, <1>13 DEF Live, Free
<1>16. QED BY <1>a, <1>3, <1>5, <1>11, <1>13, <1>14, <1>15 DEF Erased, i

\* The second half of an entry changes a value and nothing else.
LEMMA SetValueRevalues ==
  ASSUME Numbering, NEW v \in Values, Table_SetValue(v)
  PROVE  Revalued(tbl, tbl', selected, v)
<1> DEFINE i == selected
           h == tbl.slots[i]
           new == [h EXCEPT !.value = v]
<1>1. i \in Indices /\ h # NULL BY DEF Table_SetValue, Numbering
<1>2. Bounded(tbl) /\ tbl \in ReelType(Records) BY DEF Numbering, Bounded
<1>3. tbl.slots \in [Indices -> Records] BY <1>2 DEF ReelType
<1>4. h \in Hashed BY <1>1, <1>3 DEF Records
<1>5. /\ new \in Hashed /\ new.value = v /\ new.key = h.key /\ new.id = h.id
      /\ new.order = h.order
  BY <1>4 DEF Hashed
<1>6. tbl' = [tbl EXCEPT !.slots = [tbl.slots EXCEPT ![i] = [@ EXCEPT !.value = v]]]
  BY DEF Table_SetValue
<1>7. [tbl.slots EXCEPT ![i] = [@ EXCEPT !.value = v]] = [tbl.slots EXCEPT ![i] = new]
  BY <1>3
<1>8. new # NULL /\ new \in Records BY <1>5, TableAssumption DEF Records
<1> HIDE DEF new, h
<1> DEFINE f == [tbl.slots EXCEPT ![i] = new]
<1>9. f \in [Indices -> Records] /\ f[i] = new /\ \A j \in Indices \ {i} : f[j] = tbl.slots[j]
  BY <1>1, <1>3, <1>8
<1>10. tbl' = [tbl EXCEPT !.slots = f] BY <1>6, <1>7
<1> HIDE DEF f
<1>11. /\ tbl' \in ReelType(Records) /\ tbl'.slots = f /\ tbl'.nvalues = tbl.nvalues
       /\ tbl'.dims = tbl.dims
  BY <1>2, <1>9, <1>10 DEF ReelType
<1>12. Bounded(tbl')
  <2>1. i < Capacity(tbl.dims) BY <1>1, <1>2 DEF Bounded, h
  <2>2. QED BY <1>2, <1>9, <1>11, <2>1 DEF Bounded
<1>13. \A j \in Indices : Live(tbl, j) <=> Live(tbl', j)
  <2>1. Live(tbl, i) <=> Live(tbl', i)
    BY <1>1, <1>5, <1>8, <1>9, <1>11 DEF Live, Free, h
  <2>2. \A j \in Indices \ {i} : Live(tbl, j) <=> Live(tbl', j)
    BY <1>9, <1>11 DEF Live, Free
  <2>3. QED BY <2>1, <2>2
<1>14. QED BY <1>1, <1>5, <1>9, <1>11, <1>12, <1>13 DEF Revalued, h
-----------------------------------------------------------------------------
LEMMA InitNumbering ==
  ASSUME Init
  PROVE  Numbering
<1> DEFINE x == Span_Make
<1>1. tbl = x /\ selected = -1 /\ parity \in [Keys -> Parities] BY DEF Init
<1>2. Limit \in Nat /\ MAX_DIMS \in Nat BY CapacityBounds, TablesAssumption
<1>3. /\ x.slots = [i \in Indices |-> NULL] /\ x.leaves = {0} /\ x.nvalues = 0
      /\ x.max_idx = -1 /\ x.dims = 0 /\ x.idx = 0 /\ x.value = NULL
      /\ x.processing = FALSE /\ x.end = FALSE
  BY DEF Span_Make
<1>4. x \in ReelType(Records)
  <2>1. [i \in Indices |-> NULL] \in [Indices -> Records] BY DEF Records
  <2>2. -1 \in -1 .. Limit - 1 /\ 0 \in 0 .. MAX_DIMS /\ {0} \in SUBSET Int BY <1>2
  <2>3. NULL \in Records BY DEF Records
  <2>4. QED BY <2>1, <2>2, <2>3 DEF ReelType, Span_Make
<1>5. \A i \in Indices : x.slots[i] = NULL BY <1>3
<1> HIDE DEF x
<1>6. Bounded(x) BY <1>4, <1>5 DEF Bounded
<1>7. \A i \in Indices : ~Live(x, i) BY <1>5 DEF Live, Free
<1>8. Numbered(x) BY <1>3, <1>7 DEF Numbered
<1>9. QED BY <1>1, <1>6, <1>8 DEF Numbering

\* Every call keeps the records numbered as they came.
LEMMA NextNumbering ==
  ASSUME ~Careless, Numbering, [Next]_vars
  PROVE  Numbering'
<1>1. ASSUME NEW k \in Keys, NEW v \in Values, Table_Set(k, v) PROVE Numbering'
  <2>1. /\ Put(k, v, Spot(tbl, parity[k], k)) /\ UNCHANGED <<selected, parity>>
    BY <1>1 DEF Table_Set
  <2>2. Stored(tbl, tbl', k, v, Spot(tbl, parity[k], k).idx)
    BY <2>1, PutStores
  <2>3. Bounded(tbl') BY <2>2 DEF Stored
  <2>4. Numbered(tbl') BY <2>2, StoredNumbered DEF Numbering
  <2>5. QED BY <2>1, <2>3, <2>4 DEF Numbering
<1>2. ASSUME NEW k \in Keys, Table_SetKey(k) PROVE Numbering'
  <2>1. /\ Put(k, NULL, Spot(tbl, parity[k], k)) /\ parity' = parity
        /\ selected' = Spot(tbl, parity[k], k).idx
    BY <1>2 DEF Table_SetKey
  <2>2. Stored(tbl, tbl', k, NULL, Spot(tbl, parity[k], k).idx)
    BY <2>1, PutStores
  <2>3. Bounded(tbl') /\ selected' \in Indices BY <2>1, <2>2 DEF Stored
  <2>4. Numbered(tbl') BY <2>2, StoredNumbered DEF Numbering
  <2>5. QED BY <2>1, <2>3, <2>4 DEF Numbering
<1>3. ASSUME NEW k \in Keys, Table_UnSet(k) PROVE Numbering'
  <2>1. Erased(tbl, tbl', Lookup(tbl, parity[k], k)) BY <1>3, UnSetErases
  <2>2. Bounded(tbl') BY <2>1 DEF Erased
  <2>3. Numbered(tbl') BY <2>1, ErasedNumbered DEF Numbering
  <2>4. selected' = selected /\ parity' = parity BY <1>3 DEF Table_UnSet
  <2>5. QED BY <2>2, <2>3, <2>4 DEF Numbering
<1>4. ASSUME NEW v \in Values, Table_SetValue(v) PROVE Numbering'
  <2>1. Revalued(tbl, tbl', selected, v) BY <1>4, SetValueRevalues
  <2>2. Bounded(tbl') BY <2>1 DEF Revalued
  <2>3. Numbered(tbl') BY <2>1, RevaluedNumbered DEF Numbering
  <2>4. selected' = -1 /\ parity' = parity BY <1>4 DEF Table_SetValue
  <2>5. QED BY <2>2, <2>3, <2>4 DEF Numbering
<1>5. CASE UNCHANGED vars BY <1>5 DEF vars, Numbering
<1>6. QED BY <1>1, <1>2, <1>3, <1>4, <1>5 DEF Next

\* As many records are live as there are numbers.
LEMMA NumberedDense ==
  ASSUME NEW x, Numbered(x)
  PROVE  LET used == {i \in Indices : ~Free(x, i)}
         IN  /\ {x.slots[i].order : i \in used} = 0 .. x.nvalues - 1
             /\ Cardinality(used) = x.nvalues
<1> DEFINE used == {i \in Indices : ~Free(x, i)}
           n == x.nvalues
           f == [m \in 1 .. n |-> CHOOSE i \in used : x.slots[i].order = m - 1]
<1>1. /\ n \in Nat
      /\ \A i \in used : x.slots[i].order \in 0 .. n - 1
      /\ \A m \in 0 .. n - 1 : \E i \in used : x.slots[i].order = m
      /\ \A i, j \in used : x.slots[i].order = x.slots[j].order => i = j
  BY DEF Numbered, Live
<1> HIDE DEF used, n
<1>2. \A m \in 1 .. n : f[m] \in used /\ x.slots[f[m]].order = m - 1
  <2>1. \A m \in 1 .. n : m - 1 \in 0 .. n - 1 BY <1>1
  <2>2. QED BY <1>1, <2>1
<1>3. \A i \in used : \E m \in 1 .. n : f[m] = i
  <2>1. SUFFICES ASSUME NEW i \in used PROVE \E m \in 1 .. n : f[m] = i OBVIOUS
  <2>2. x.slots[i].order + 1 \in 1 .. n /\ (x.slots[i].order + 1) - 1 = x.slots[i].order
    BY <1>1
  <2>3. f[x.slots[i].order + 1] = i BY <1>1, <1>2, <2>2
  <2>4. QED BY <2>2, <2>3
<1>4. \A a, b \in 1 .. n : f[a] = f[b] => a = b BY <1>1, <1>2
<1>5. f \in [1 .. n -> used] BY <1>2
<1> HIDE DEF f
<1>6. f \in Bijection(1 .. n, used)
  BY <1>3, <1>4, <1>5 DEF Bijection, Injection, Surjection, IsInjective
<1>7. ExistsBijection(1 .. n, used) BY <1>6 DEF ExistsBijection
<1>8. Cardinality(used) = n BY ONLY <1>1, <1>7, FS_CountingElements
<1>9. {x.slots[i].order : i \in used} = 0 .. n - 1 BY <1>1
<1>10. QED BY <1>8, <1>9 DEF used, n

(* The records are numbered in the order they came, without a gap, however *)
(* often the table grows, for every client that removes only the record    *)
(* stored last and stores nothing in a freed one.                          *)
THEOREM TableNumbering ==
  ASSUME ~Careless
  PROVE  Spec => []Numbering
<1>1. Init => Numbering BY InitNumbering
<1>2. Numbering /\ [Next]_vars => Numbering' BY NextNumbering
<1>3. QED BY <1>1, <1>2, PTL DEF Spec

THEOREM TableOrderDense ==
  ASSUME ~Careless
  PROVE  Spec => []OrderDense
<1>1. Numbering => OrderDense
  BY NumberedDense DEF Numbering, OrderDense
<1>2. Spec => []Numbering BY TableNumbering
<1>3. QED BY <1>1, <1>2, PTL
-----------------------------------------------------------------------------
Sound(x) ==
  /\ Bounded(x) /\ Numbered(x) /\ Walks(x)
  /\ parity \in [Keys -> Parities]

\* A live record has the parity of its key.
LEMMA LiveType ==
  ASSUME NEW x, Bounded(x), Walks(x), parity \in [Keys -> Parities],
         NEW i \in Indices, Live(x, i)
  PROVE  /\ x.slots[i].key \in Keys /\ x.slots[i].id = parity[x.slots[i].key]
         /\ x.slots[i].id \in Parities /\ x.slots[i].order \in Int
         /\ x.slots[i] # NULL /\ Reached(x, i) /\ x.dims \in 0 .. MAX_DIMS
<1>1. x.slots[i] # NULL BY DEF Live, Free
<1>2. x.slots \in [Indices -> Records] /\ x.dims \in 0 .. MAX_DIMS
  BY DEF Bounded, ReelType
<1>3. x.slots[i] \in Hashed BY <1>1, <1>2 DEF Records
<1>4. x.slots[i].id = parity[x.slots[i].key] /\ Reached(x, i) BY DEF Walks
<1> HIDE DEF Bounded
<1>5. x.slots[i].key \in Keys /\ x.slots[i].order \in Int BY <1>3 DEF Hashed
<1>6. QED BY <1>1, <1>2, <1>4, <1>5

\* In a table of one slab there is one walk ...
LEMMA OneWalk ==
  ASSUME NEW x, x.dims = 0, NEW i, Reached(x, i), NEW id, x.slots[i].id = id
  PROVE  \E p \in DOMAIN Chain[id][0][0] :
           /\ Chain[id][0][0][p] = i
           /\ \A q \in 1 .. p - 1 : x.slots[Chain[id][0][0][q]].key # x.slots[i].key
<1> DEFINE h == x.slots[i]
<1>1. PICK d \in 0 .. x.dims : \E p \in DOMAIN Chain[h.id][x.dims][d] :
        /\ Chain[h.id][x.dims][d][p] = i
        /\ \A q \in 1 .. p - 1 :
             LET j == Chain[h.id][x.dims][d][q]
             IN  Live(x, j) /\ x.slots[j].key # h.key /\ x.slots[j].order < h.order
  BY DEF Reached
<1>2. d = 0 /\ x.dims = 0 /\ h.id = id OBVIOUS
<1>3. PICK p \in DOMAIN Chain[h.id][x.dims][d] :
        /\ Chain[h.id][x.dims][d][p] = i
        /\ \A q \in 1 .. p - 1 : x.slots[Chain[h.id][x.dims][d][q]].key # h.key
  BY <1>1
<1> HIDE DEF h
<1>4. /\ p \in DOMAIN Chain[id][0][0] /\ Chain[id][0][0][p] = i
      /\ \A q \in 1 .. p - 1 : x.slots[Chain[id][0][0][q]].key # h.key
  BY ONLY <1>2, <1>3
<1>5. QED BY <1>4 DEF h

\* ... which meets a key once.
LEMMA OneSlab ==
  ASSUME NEW x, Bounded(x), Walks(x), parity \in [Keys -> Parities], x.dims = 0,
         NEW i \in Indices, NEW j \in Indices, Live(x, i), Live(x, j),
         x.slots[i].key = x.slots[j].key
  PROVE  i = j
<1> DEFINE id == x.slots[i].id
           c == Chain[id][0][0]
<1>1. x.slots[j].id = id /\ Reached(x, i) /\ Reached(x, j) /\ id \in Parities
  BY LiveType
<1>2. PICK p \in DOMAIN c : /\ c[p] = i
                            /\ \A q \in 1 .. p - 1 : x.slots[c[q]].key # x.slots[i].key
  <2>1. x.dims = 0 /\ Reached(x, i) /\ x.slots[i].id = id BY <1>1
  <2> HIDE DEF id
  <2>2. QED BY ONLY <2>1, OneWalk DEF c
<1>3. PICK r \in DOMAIN c : /\ c[r] = j
                            /\ \A q \in 1 .. r - 1 : x.slots[c[q]].key # x.slots[j].key
  <2>1. x.dims = 0 /\ Reached(x, j) /\ x.slots[j].id = id BY <1>1
  <2> HIDE DEF id
  <2>2. QED BY ONLY <2>1, OneWalk DEF c
<1>4. 0 \in 0 .. MAX_DIMS /\ 0 \in 0 .. 0 BY TablesAssumption
<1>5. PICK n \in Nat : DOMAIN c = 1 .. n BY <1>1, <1>4, ChainType
<1> HIDE DEF c
<1>6. ~(p < r) /\ ~(r < p) BY <1>2, <1>3, <1>5
<1>7. p = r BY <1>5, <1>6
<1>8. QED BY <1>2, <1>3, <1>7

\* A key with one live record is found there.
LEMMA FoundOnce ==
  ASSUME NEW x, Bounded(x), Walks(x), parity \in [Keys -> Parities],
         NEW i \in Indices, Live(x, i),
         \A j \in Indices : Live(x, j) /\ x.slots[j].key = x.slots[i].key => j = i
  PROVE  Lookup(x, parity[x.slots[i].key], x.slots[i].key) = i
<1>1. /\ x.slots[i].id = parity[x.slots[i].key] /\ x.slots[i].id \in Parities
      /\ Reached(x, i) /\ x.dims \in 0 .. MAX_DIMS
  BY LiveType
<1>2. Lookup(x, x.slots[i].id, x.slots[i].key) = i
  BY <1>1, LookupSole
<1>3. QED BY <1>1, <1>2

\* Where a key in two records is stored does not change while the table has its depth.
LEMMA SettledKept ==
  ASSUME NEW x, NEW y, Keeps(x, y), x.dims \in 0 .. MAX_DIMS, y.dims = x.dims,
         parity \in [Keys -> Parities], NEW k \in Keys, Settled(x, k)
  PROVE  /\ Settled(y, k)
         /\ Lookup(y, parity[k], k) = Lookup(x, parity[k], k)
<1> DEFINE id == parity[k]
           n == x.dims
           i == Place(x, id, k, n)
<1>1. id \in Parities /\ n \in 0 .. MAX_DIMS OBVIOUS
<1>2. i # NULL /\ Live(x, i) BY DEF Settled
<1> HIDE DEF id
<1>3. PICK d \in 0 .. n : /\ i = Stop(x, id, k, n, d) /\ Stop(x, id, k, n, d) # NULL
                          /\ \A e \in d + 1 .. n : Stop(x, id, k, n, e) = NULL
  BY <1>1, <1>2, PlaceCases
<1> HIDE DEF n
<1>4. Stop(y, id, k, n, d) = i BY <1>1, <1>2, <1>3, StopKept DEF Live
<1>5. ASSUME NEW e \in d + 1 .. n PROVE Stop(y, id, k, n, e) = NULL
  <2>1. e \in 0 .. n BY <1>1
  <2>2. Stop(x, id, k, n, e) = NULL BY <1>3
  <2>3. QED BY <1>1, <2>1, <2>2, StopKept
<1>6. Place(y, id, k, n) = i BY <1>1, <1>2, <1>4, <1>5, PlaceIs
<1>7. Live(y, i) BY <1>2 DEF Keeps, Live
<1>8. Lookup(x, id, k) = i BY <1>1, <1>2, LookupPlaced DEF n
<1>9. Lookup(y, id, k) = i BY <1>1, <1>2, <1>6, <1>7, LookupPlaced DEF n
<1>10. QED BY <1>2, <1>6, <1>7, <1>8, <1>9 DEF Settled, id, n

\* Two tables with the same live records of a key find the same one.
LEMMA LookupsAgree ==
  ASSUME NEW x, NEW y, Bounded(x), Bounded(y), Walks(x), Walks(y), Keeps(x, y),
         parity \in [Keys -> Parities], NEW k \in Keys,
         \A j \in Indices : Live(y, j) /\ y.slots[j].key = k => Live(x, j),
         (\E i, j \in Indices : /\ i # j /\ Live(x, i) /\ Live(x, j)
                                /\ x.slots[i].key = k /\ x.slots[j].key = k)
           => y.dims = x.dims
  PROVE  Lookup(y, parity[k], k) = Lookup(x, parity[k], k)
<1>1. x.dims \in 0 .. MAX_DIMS /\ y.dims \in 0 .. MAX_DIMS /\ parity[k] \in Parities
  BY DEF Bounded, ReelType
<1>2. \A j \in Indices : Live(x, j) => Live(y, j) /\ y.slots[j].key = x.slots[j].key
  BY DEF Keeps, Live
<1>3. CASE \A j \in Indices : Live(x, j) => x.slots[j].key # k
  <2>1. \A j \in Indices : Live(y, j) => y.slots[j].key # k BY <1>2, <1>3
  <2>2. QED BY <1>1, <1>3, <2>1, LookupNone
<1>4. ASSUME NEW i \in Indices, Live(x, i), x.slots[i].key = k
      PROVE  Lookup(y, parity[k], k) = Lookup(x, parity[k], k)
  <2>1. CASE \A j \in Indices : Live(x, j) /\ x.slots[j].key = k => j = i
    <3>1. Lookup(x, parity[k], k) = i BY <1>4, <2>1, FoundOnce
    <3>2. Live(y, i) /\ y.slots[i].key = k BY <1>2, <1>4
    <3>3. \A j \in Indices : Live(y, j) /\ y.slots[j].key = k => j = i
      BY <1>2, <2>1
    <3>4. Lookup(y, parity[k], k) = i BY <3>2, <3>3, FoundOnce
    <3>5. QED BY <3>1, <3>4
  <2>2. ASSUME NEW j \in Indices, Live(x, j), x.slots[j].key = k, j # i
        PROVE  Lookup(y, parity[k], k) = Lookup(x, parity[k], k)
    <3>1. y.dims = x.dims BY <1>4, <2>2
    <3>2. Settled(x, k) BY <1>4, <2>2 DEF Walks
    <3>3. QED BY <1>1, <3>1, <3>2, SettledKept
  <2>3. QED BY <2>1, <2>2
<1>5. QED BY <1>3, <1>4
-----------------------------------------------------------------------------
\* A key that was stored would be stored there again, and is found there.
LEMMA StoredSettled ==
  ASSUME NEW x, NEW y, NEW k \in Keys, NEW v, NEW i, x.dims \in 0 .. MAX_DIMS,
         parity \in [Keys -> Parities], Stored(x, y, k, v, i)
  PROVE  /\ Place(y, parity[k], k, y.dims) = i /\ Settled(y, k)
         /\ Lookup(y, parity[k], k) = i
<1> DEFINE id == parity[k]
           n == y.dims
<1>1. id \in Parities /\ n \in 0 .. MAX_DIMS
  BY TablesAssumption DEF Stored
<1>2. /\ i = Place(x, id, k, n) /\ i \in Indices /\ Live(y, i) /\ Keeps(x, y)
      /\ Mine(y, id, k, i)
  BY StoredKeeps DEF Stored, Mine, Live, Free
<1>3. i # NULL BY <1>2, TableAssumption
<1> HIDE DEF id, n
<1>4. PICK d \in 0 .. n : /\ i = Stop(x, id, k, n, d) /\ Stop(x, id, k, n, d) # NULL
                          /\ \A e \in d + 1 .. n : Stop(x, id, k, n, e) = NULL
  BY <1>1, <1>2, <1>3, PlaceCases
<1>5. Stop(y, id, k, n, d) = i
  <2> DEFINE c == Chain[id][n][d]
  <2>1. \/ Stop(x, id, k, n, d) = NULL
        \/ \E p \in DOMAIN c :
             /\ Stop(x, id, k, n, d) = c[p] /\ c[p] # NULL /\ c[p] \in Indices
             /\ Free(x, c[p]) \/ Mine(x, id, k, c[p])
             /\ \A q \in 1 .. p - 1 :
                  q \in DOMAIN c /\ ~Free(x, c[q]) /\ ~Mine(x, id, k, c[q])
    BY ONLY <1>1, StopCases
  <2>2. PICK p \in DOMAIN c :
          /\ c[p] = i
          /\ \A q \in 1 .. p - 1 :
               q \in DOMAIN c /\ ~Free(x, c[q]) /\ ~Mine(x, id, k, c[q])
    BY <1>4, <2>1
  <2>3. \A q \in DOMAIN c : c[q] \in Indices BY <1>1, ChainType
  <2>4. \A q \in 1 .. p - 1 : ~Free(y, c[q]) /\ ~Mine(y, id, k, c[q])
    BY <1>2, <2>2, <2>3 DEF Keeps, Mine, Free
  <2>5. LET e == Chain[id][n][d]
        IN  /\ Free(y, e[p]) \/ Mine(y, id, k, e[p])
            /\ \A q \in 1 .. p - 1 : ~Free(y, e[q]) /\ ~Mine(y, id, k, e[q])
    BY <1>2, <2>2, <2>4
  <2>6. p \in DOMAIN Chain[id][n][d] BY <2>2
  <2>7. Stop(y, id, k, n, d) = c[p] BY ONLY <1>1, <2>5, <2>6, StopIs
  <2>8. QED BY <2>2, <2>7
<1>6. ASSUME NEW e \in d + 1 .. n PROVE Stop(y, id, k, n, e) = NULL
  <2>1. e \in 0 .. n BY <1>1
  <2>2. Stop(x, id, k, n, e) = NULL BY <1>4
  <2>3. QED BY <1>1, <1>2, <2>1, <2>2, StopKept
<1>7. Place(y, id, k, n) = i BY <1>1, <1>3, <1>5, <1>6, PlaceIs
<1>8. Lookup(y, id, k) = i BY <1>1, <1>2, <1>3, <1>7, LookupPlaced DEF n
<1>9. QED BY <1>2, <1>3, <1>7, <1>8 DEF Settled, id, n

\* The walk that found the place of a new record meets it.
LEMMA StoredReached ==
  ASSUME NEW x, NEW y, NEW k \in Keys, NEW v, NEW i, Sound(x),
         Stored(x, y, k, v, i), x.slots[i] = NULL, y.slots[i].order = x.nvalues
  PROVE  Reached(y, i)
<1> DEFINE id == parity[k]
           n == y.dims
<1>1. id \in Parities /\ n \in 0 .. MAX_DIMS /\ x.dims \in 0 .. MAX_DIMS
  BY TablesAssumption DEF Stored, Sound, Bounded, ReelType
<1>2. /\ i = Place(x, id, k, n) /\ i \in Indices /\ Keeps(x, y)
      /\ y.slots[i].key = k /\ y.slots[i].id = id
  BY StoredKeeps DEF Stored
<1>3. i # NULL BY <1>2, TableAssumption
<1> HIDE DEF id, n
<1>4. PICK d \in 0 .. n : i = Stop(x, id, k, n, d)
  BY <1>1, <1>2, <1>3, PlaceCases
<1> DEFINE c == Chain[id][n][d]
<1>5. \/ Stop(x, id, k, n, d) = NULL
      \/ \E p \in DOMAIN c :
           /\ Stop(x, id, k, n, d) = c[p] /\ c[p] # NULL /\ c[p] \in Indices
           /\ Free(x, c[p]) \/ Mine(x, id, k, c[p])
           /\ \A q \in 1 .. p - 1 :
                q \in DOMAIN c /\ ~Free(x, c[q]) /\ ~Mine(x, id, k, c[q])
  BY ONLY <1>1, StopCases
<1>6. PICK p \in DOMAIN c :
        /\ c[p] = i
        /\ \A q \in 1 .. p - 1 :
             q \in DOMAIN c /\ ~Free(x, c[q]) /\ ~Mine(x, id, k, c[q])
  BY <1>3, <1>4, <1>5
<1>7. \A q \in DOMAIN c : c[q] \in Indices BY <1>1, ChainType
<1> HIDE DEF c
<1>8. ASSUME NEW q \in 1 .. p - 1
      PROVE  Live(y, c[q]) /\ y.slots[c[q]].key # k /\ y.slots[c[q]].order < x.nvalues
  <2>1. c[q] \in Indices /\ Live(x, c[q]) /\ ~Mine(x, id, k, c[q])
    BY <1>6, <1>7 DEF Live
  <2>2. x.slots[c[q]].id = parity[x.slots[c[q]].key] /\ x.slots[c[q]] # NULL
    BY <2>1, LiveType DEF Sound
  <2>3. x.slots[c[q]].key # k BY <2>1, <2>2 DEF Mine, id
  <2>4. x.slots[c[q]].order < x.nvalues
    <3>1. x.nvalues \in Nat /\ x.slots[c[q]].order \in 0 .. x.nvalues - 1
      BY <2>1 DEF Sound, Numbered
    <3>2. QED BY <3>1
  <2>5. QED BY <1>2, <2>1, <2>3, <2>4 DEF Keeps, Live
<1>9. QED BY <1>1, <1>2, <1>4, <1>6, <1>8 DEF Reached, c, n

\* Storing keeps every walk: the key is found where it was stored, any other where
\* it was found before.
LEMMA StoredWalks ==
  ASSUME NEW x, NEW y, NEW k \in Keys, NEW v, NEW i, Sound(x), DOUBLED_DIMS <= 1,
         Stored(x, y, k, v, i), y.dims > DOUBLED_DIMS => ~Doubled(y)
  PROVE  /\ Sound(y)
         /\ \A l \in Keys \ {k} : Lookup(y, parity[l], l) = Lookup(x, parity[l], l)
<1>1. /\ Bounded(x) /\ Walks(x) /\ parity \in [Keys -> Parities]
      /\ x.dims \in 0 .. MAX_DIMS
  BY DEF Sound, Bounded, ReelType
<1>2. Bounded(y) /\ y.dims \in x.dims .. MAX_DIMS /\ i \in Indices /\ Keeps(x, y)
  BY StoredKeeps DEF Stored
<1>3. y.dims \in 0 .. MAX_DIMS BY <1>2 DEF Bounded, ReelType
<1>4. \A j \in Indices \ {i} : y.slots[j] = x.slots[j] /\ (Live(x, j) <=> Live(y, j))
  BY DEF Stored, Live, Free
<1>5. y.slots[i].key = k /\ y.slots[i].id = parity[k] BY DEF Stored
<1>6. ASSUME NEW j \in Indices, Live(y, j)
      PROVE  y.slots[j].id = parity[y.slots[j].key] /\ Reached(y, j)
  <2>1. CASE j # i \/ Live(x, i)
    <3>1. Live(x, j) BY <1>4, <1>6, <2>1
    <3>2. /\ x.slots[j].id = parity[x.slots[j].key] /\ x.slots[j].id \in Parities
          /\ Reached(x, j)
      BY <1>1, <3>1, LiveType
    <3>3. Reached(y, j) BY <1>1, <1>2, <3>1, <3>2, ReachedKept
    <3>4. QED BY <1>4, <1>5, <3>2, <3>3
  <2>2. CASE j = i /\ ~Live(x, i)
    <3>1. x.slots[i] = NULL /\ y.slots[i].order = x.nvalues BY <2>2 DEF Stored
    <3>2. Reached(y, i) BY <3>1, StoredReached
    <3>3. QED BY <1>5, <2>2, <3>2
  <2>3. QED BY <2>1, <2>2
<1>7. ASSUME NEW m, NEW j \in Indices, NEW l \in Indices, j # l, Live(x, j), Live(x, l),
             x.slots[j].key = m, x.slots[l].key = m
      PROVE  y.dims = x.dims
  <2>1. x.dims # 0 BY <1>1, <1>7, OneSlab
  <2>2. Doubled(y)
    <3>1. Live(y, j) /\ Live(y, l) /\ y.slots[j].key = m /\ y.slots[l].key = m
      BY <1>2, <1>7 DEF Keeps, Live
    <3>2. j \in Occupied(y) /\ l \in Occupied(y) BY <3>1 DEF Occupied, Live, Free
    <3>3. QED BY <1>7, <3>1, <3>2 DEF Doubled
  <2>3. DOUBLED_DIMS \in Int /\ MAX_DIMS \in Nat BY TableAssumption, TablesAssumption
  <2>4. ~(y.dims > DOUBLED_DIMS) BY <2>2
  <2>5. x.dims \in Nat /\ y.dims \in Int /\ y.dims >= x.dims BY <1>1, <1>2, <1>3, <2>3
  <2>6. QED BY <2>1, <2>3, <2>4, <2>5
<1>8. ASSUME NEW j \in Indices, NEW l \in Indices, Live(y, j), Live(y, l), j # l,
             y.slots[j].key = y.slots[l].key
      PROVE  y.dims <= DOUBLED_DIMS /\ Settled(y, y.slots[j].key)
  <2>1. y.dims <= DOUBLED_DIMS
    <3>1. j \in Occupied(y) /\ l \in Occupied(y) BY <1>8 DEF Occupied, Live, Free
    <3>2. Doubled(y) BY <1>8, <3>1 DEF Doubled
    <3>3. QED BY <1>3, <3>2, TableAssumption, TablesAssumption
  <2>2. CASE y.slots[j].key = k
    <3>1. Settled(y, k) BY <1>1, StoredSettled
    <3>2. QED BY <2>1, <2>2, <3>1
  <2>3. CASE y.slots[j].key # k
    <3> DEFINE m == y.slots[j].key
    <3>1. j # i /\ l # i BY <1>5, <1>8, <2>3
    <3>2. Live(x, j) /\ Live(x, l) /\ x.slots[j].key = m /\ x.slots[l].key = m
      BY <1>4, <1>8, <3>1
    <3>3. Settled(x, m) /\ m \in Keys BY <1>1, <1>8, <3>2, LiveType DEF Walks
    <3> HIDE DEF m
    <3>4. y.dims = x.dims BY <1>7, <1>8, <3>2
    <3>5. Settled(y, m) BY <1>1, <1>2, <3>3, <3>4, SettledKept
    <3>6. QED BY <2>1, <3>5 DEF m
  <2>4. QED BY <2>2, <2>3
<1>9. Walks(y) BY <1>6, <1>8 DEF Walks
<1>10. Numbered(y) BY StoredNumbered DEF Sound
<1>11. ASSUME NEW l \in Keys \ {k}
       PROVE  Lookup(y, parity[l], l) = Lookup(x, parity[l], l)
  <2>1. \A j \in Indices : Live(y, j) /\ y.slots[j].key = l => Live(x, j)
    BY <1>4, <1>5
  <2>2. (\E j, m \in Indices : /\ j # m /\ Live(x, j) /\ Live(x, m)
                               /\ x.slots[j].key = l /\ x.slots[m].key = l)
           => y.dims = x.dims
    BY <1>7
  <2>3. QED BY <1>1, <1>2, <1>9, <2>1, <2>2, LookupsAgree
<1>12. QED BY <1>1, <1>2, <1>9, <1>10, <1>11 DEF Sound
-----------------------------------------------------------------------------
\* Removing the record stored last stands in nobody's way.
LEMMA ErasedWalks ==
  ASSUME NEW x, NEW y, NEW i, Sound(x), ~Doubled(x), Erased(x, y, i)
  PROVE  /\ Sound(y)
         /\ Lookup(y, parity[x.slots[i].key], x.slots[i].key) = NULL
         /\ \A l \in Keys : l # x.slots[i].key =>
              Lookup(y, parity[l], l) = Lookup(x, parity[l], l)
<1>1. /\ Bounded(x) /\ Walks(x) /\ Numbered(x) /\ parity \in [Keys -> Parities]
      /\ x.dims \in 0 .. MAX_DIMS
  BY DEF Sound, Bounded, ReelType
<1>2. /\ Bounded(y) /\ y.dims = x.dims /\ Live(x, i) /\ i \in Indices /\ ~Live(y, i)
      /\ x.slots[i].order = x.nvalues - 1
  BY DEF Erased, Live
<1>3. \A j \in Indices \ {i} : y.slots[j] = x.slots[j] /\ (Live(x, j) <=> Live(y, j))
  BY DEF Erased, Live, Free
<1>4. \A j, l \in Indices : Live(x, j) /\ Live(x, l) /\ x.slots[j].key = x.slots[l].key
                              => j = l
  BY DEF Doubled, Occupied, Live, Free
<1>5. ASSUME NEW j \in Indices, Live(y, j)
      PROVE  /\ j # i /\ Live(x, j) /\ y.slots[j] = x.slots[j]
             /\ y.slots[j].id = parity[y.slots[j].key] /\ Reached(y, j)
  <2>1. j # i /\ Live(x, j) /\ y.slots[j] = x.slots[j] BY <1>2, <1>3, <1>5
  <2> DEFINE h == x.slots[j]
             id == h.id
  <2>2. /\ id = parity[h.key] /\ id \in Parities /\ Reached(x, j)
    BY <1>1, <2>1, LiveType
  <2>3. PICK d \in 0 .. x.dims : \E p \in DOMAIN Chain[id][x.dims][d] :
          /\ Chain[id][x.dims][d][p] = j
          /\ \A q \in 1 .. p - 1 :
               LET m == Chain[id][x.dims][d][q]
               IN  Live(x, m) /\ x.slots[m].key # h.key /\ x.slots[m].order < h.order
    BY <2>2 DEF Reached
  <2>4. PICK p \in DOMAIN Chain[id][x.dims][d] :
          /\ Chain[id][x.dims][d][p] = j
          /\ \A q \in 1 .. p - 1 :
               LET m == Chain[id][x.dims][d][q]
               IN  Live(x, m) /\ x.slots[m].key # h.key /\ x.slots[m].order < h.order
    BY <2>3
  <2>5. h.order \in 0 .. x.nvalues - 1 /\ x.nvalues \in Nat
    BY <1>1, <2>1 DEF Numbered
  <2> DEFINE at(q) == Chain[id][x.dims][d][q]
  <2>6. ASSUME NEW q \in 1 .. p - 1
        PROVE  /\ Live(y, at(q)) /\ y.slots[at(q)].key # h.key
               /\ y.slots[at(q)].order < h.order
    <3>1. Live(x, at(q)) /\ x.slots[at(q)].key # h.key /\ x.slots[at(q)].order < h.order
      BY <2>4
    <3> HIDE DEF at, h
    <3>2. at(q) \in Indices BY <3>1 DEF Live
    <3>3. x.slots[at(q)].order \in Int BY <1>1, <3>1, <3>2, LiveType
    <3>4. at(q) # i BY <1>2, <2>5, <3>1, <3>3
    <3>5. y.slots[at(q)] = x.slots[at(q)] /\ Live(y, at(q)) BY <1>3, <3>1, <3>2, <3>4
    <3>6. QED BY <3>1, <3>5
  <2>7. Reached(y, j)
    <3>1. y.slots[j] = h /\ y.dims = x.dims BY <1>2, <2>1
    <3>2. at(p) = j BY <2>4
    <3> HIDE DEF h
    <3>3. \E r \in DOMAIN Chain[h.id][x.dims][d] :
            /\ Chain[h.id][x.dims][d][r] = j
            /\ \A q \in 1 .. r - 1 :
                 LET m == Chain[h.id][x.dims][d][q]
                 IN  Live(y, m) /\ y.slots[m].key # h.key /\ y.slots[m].order < h.order
      BY <2>6, <3>2
    <3>4. d \in 0 .. y.dims BY <3>1
    <3>5. \E r \in DOMAIN Chain[y.slots[j].id][y.dims][d] :
            /\ Chain[y.slots[j].id][y.dims][d][r] = j
            /\ \A q \in 1 .. r - 1 :
                 LET m == Chain[y.slots[j].id][y.dims][d][q]
                 IN  /\ Live(y, m) /\ y.slots[m].key # y.slots[j].key
                     /\ y.slots[m].order < y.slots[j].order
      BY ONLY <3>1, <3>3
    <3>6. QED BY ONLY <3>4, <3>5 DEF Reached
  <2>8. QED BY <2>1, <2>2, <2>7
<1>6. Walks(y)
  <2>1. \A j, l \in Indices : Live(y, j) /\ Live(y, l) /\ y.slots[j].key = y.slots[l].key
                                => j = l
    BY <1>4, <1>5
  <2>2. QED BY <1>5, <2>1 DEF Walks
<1>7. Numbered(y) BY <1>1, ErasedNumbered
<1>8. ASSUME NEW l \in Keys
      PROVE  Lookup(y, parity[l], l) =
               IF l = x.slots[i].key THEN NULL ELSE Lookup(x, parity[l], l)
  <2>1. y.dims \in 0 .. MAX_DIMS /\ parity[l] \in Parities BY <1>1, <1>2
  <2>2. CASE l = x.slots[i].key
    <3>1. \A j \in Indices : Live(y, j) => y.slots[j].key # l BY <1>2, <1>4, <1>5, <2>2
    <3>2. QED BY <2>1, <2>2, <3>1, LookupNone
  <2>3. CASE l # x.slots[i].key /\ \A j \in Indices : Live(y, j) => y.slots[j].key # l
    <3>1. \A j \in Indices : Live(x, j) => x.slots[j].key # l BY <1>3, <2>3
    <3>2. QED BY <1>1, <2>1, <2>3, <3>1, LookupNone
  <2>4. ASSUME l # x.slots[i].key, NEW j \in Indices, Live(y, j), y.slots[j].key = l
        PROVE  Lookup(y, parity[l], l) = Lookup(x, parity[l], l)
    <3>1. Live(x, j) /\ x.slots[j].key = l BY <1>5, <2>4
    <3>2. \A m \in Indices : Live(x, m) /\ x.slots[m].key = l => m = j BY <1>4, <3>1
    <3>3. \A m \in Indices : Live(y, m) /\ y.slots[m].key = l => m = j BY <1>5, <3>2
    <3>4. Lookup(x, parity[l], l) = j BY <1>1, <3>1, <3>2, FoundOnce
    <3>5. Lookup(y, parity[l], l) = j BY <1>1, <1>2, <1>6, <2>4, <3>3, FoundOnce
    <3>6. QED BY <3>4, <3>5
  <2>5. QED BY <2>2, <2>3, <2>4
<1>9. x.slots[i].key \in Keys BY <1>1, <1>2, LiveType
<1>10. QED BY <1>1, <1>2, <1>6, <1>7, <1>8, <1>9 DEF Sound

\* A value moves no walk.
LEMMA RevaluedWalks ==
  ASSUME NEW x, NEW y, NEW i, NEW v, Sound(x), Revalued(x, y, i, v)
  PROVE  /\ Sound(y)
         /\ \A l \in Keys : Lookup(y, parity[l], l) = Lookup(x, parity[l], l)
<1>1. /\ Bounded(x) /\ Walks(x) /\ parity \in [Keys -> Parities]
      /\ x.dims \in 0 .. MAX_DIMS /\ MAX_DIMS \in Nat
  BY TablesAssumption DEF Sound, Bounded, ReelType
<1>2. /\ Bounded(y) /\ y.dims = x.dims /\ \A j \in Indices : Live(x, j) <=> Live(y, j)
  BY DEF Revalued
<1>3. \A j \in Indices : /\ y.slots[j].key = x.slots[j].key /\ y.slots[j].id = x.slots[j].id
                         /\ y.slots[j].order = x.slots[j].order
  BY DEF Revalued
<1>4. Keeps(x, y) BY <1>2, <1>3 DEF Keeps, Live
<1>5. ASSUME NEW j \in Indices, Live(y, j)
      PROVE  y.slots[j].id = parity[y.slots[j].key] /\ Reached(y, j)
  <2>1. Live(x, j) BY <1>2, <1>5
  <2>2. /\ x.slots[j].id = parity[x.slots[j].key] /\ x.slots[j].id \in Parities
        /\ Reached(x, j)
    BY <1>1, <2>1, LiveType
  <2>3. y.dims \in x.dims .. MAX_DIMS BY <1>1, <1>2
  <2>4. Reached(y, j) BY <1>1, <1>4, <2>1, <2>2, <2>3, ReachedKept
  <2>5. QED BY <1>3, <2>2, <2>4
<1>6. ASSUME NEW j \in Indices, NEW l \in Indices, Live(y, j), Live(y, l), j # l,
             y.slots[j].key = y.slots[l].key
      PROVE  y.dims <= DOUBLED_DIMS /\ Settled(y, y.slots[j].key)
  <2>1. Live(x, j) /\ Live(x, l) /\ x.slots[j].key = x.slots[l].key
    BY <1>2, <1>3, <1>6
  <2>2. x.dims <= DOUBLED_DIMS /\ Settled(x, x.slots[j].key) /\ x.slots[j].key \in Keys
    BY <1>1, <1>6, <2>1, LiveType DEF Walks
  <2>3. Settled(y, x.slots[j].key) BY <1>1, <1>2, <1>4, <2>2, SettledKept
  <2>4. QED BY <1>2, <1>3, <2>2, <2>3
<1>7. Walks(y) BY <1>5, <1>6 DEF Walks
<1>8. Numbered(y) BY RevaluedNumbered DEF Sound
<1>9. ASSUME NEW l \in Keys PROVE Lookup(y, parity[l], l) = Lookup(x, parity[l], l)
  BY <1>1, <1>2, <1>4, <1>7, LookupsAgree
<1>10. QED BY <1>1, <1>2, <1>7, <1>8, <1>9 DEF Sound
-----------------------------------------------------------------------------
LEMMA InitTable ==
  ASSUME Init
  PROVE  /\ TableInv
         /\ \A i \in Indices : ~Live(tbl, i)
<1>1. Numbering BY InitNumbering
<1>2. \A i \in Indices : tbl.slots[i] = NULL BY DEF Init, Span_Make
<1>3. \A i \in Indices : ~Live(tbl, i) BY <1>2 DEF Live, Free
<1>4. Walks(tbl) BY <1>3 DEF Walks
<1>5. Waiting BY DEF Init, Waiting
<1>6. QED BY <1>1, <1>3, <1>4, <1>5 DEF TableInv

(* What a key's lookup gives, with the parities as they are.               *)
Gives(x, k) ==
  LET i == Lookup(x, parity[k], k) IN IF i = NULL THEN NULL ELSE x.slots[i].value

\* Table_Set: the value is found under its key, and every other value where it was.
LEMMA StoredGives ==
  ASSUME NEW x, NEW y, NEW k \in Keys, NEW v, NEW i, Sound(x), DOUBLED_DIMS <= 1,
         Stored(x, y, k, v, i), y.dims > DOUBLED_DIMS => ~Doubled(y)
  PROVE  \A l \in Keys : Gives(y, l) = IF l = k THEN v ELSE Gives(x, l)
<1>1. /\ x.dims \in 0 .. MAX_DIMS /\ y.dims \in 0 .. MAX_DIMS
      /\ parity \in [Keys -> Parities]
  BY DEF Sound, Stored, Bounded, ReelType
<1>2. Lookup(y, parity[k], k) = i BY <1>1, StoredSettled
<1>3. \A l \in Keys \ {k} : Lookup(y, parity[l], l) = Lookup(x, parity[l], l)
  BY StoredWalks
<1>4. i \in Indices /\ y.slots[i].value = v /\ y.slots[i].key = k
  BY DEF Stored
<1>5. i # NULL BY <1>4, TableAssumption
<1>6. \A j \in Indices \ {i} : y.slots[j] = x.slots[j] BY DEF Stored
<1>7. ASSUME NEW l \in Keys PROVE Gives(y, l) = IF l = k THEN v ELSE Gives(x, l)
  <2> DEFINE j == Lookup(y, parity[l], l)
  <2>1. CASE l = k BY <1>2, <1>4, <1>5, <2>1 DEF Gives
  <2>2. CASE l # k /\ j = NULL BY <1>3, <2>2 DEF Gives
  <2>3. CASE l # k /\ j # NULL
    <3>1. Live(y, j) /\ y.slots[j].key = l BY <1>1, <2>3, LookupHit
    <3>2. Lookup(x, parity[l], l) = j BY <1>3, <2>3
    <3> HIDE DEF j
    <3>3. j \in Indices \ {i} BY <1>4, <2>3, <3>1 DEF Live
    <3>4. QED BY <1>6, <2>3, <3>2, <3>3 DEF Gives, j
  <2>4. QED BY <2>1, <2>2, <2>3
<1>8. QED BY <1>7

\* A careful client's removal takes one key from the map.
LEMMA ErasedGives ==
  ASSUME NEW x, NEW y, NEW i, Sound(x), ~Doubled(x), Erased(x, y, i)
  PROVE  \A l \in Keys : Gives(y, l) = IF l = x.slots[i].key THEN NULL ELSE Gives(x, l)
<1>1. y.dims \in 0 .. MAX_DIMS /\ parity \in [Keys -> Parities] /\ ~Live(y, i)
  BY DEF Sound, Erased, Bounded, ReelType
<1>2. /\ Lookup(y, parity[x.slots[i].key], x.slots[i].key) = NULL
      /\ \A l \in Keys : l # x.slots[i].key =>
           Lookup(y, parity[l], l) = Lookup(x, parity[l], l)
  BY ErasedWalks
<1>3. \A j \in Indices \ {i} : y.slots[j] = x.slots[j] BY DEF Erased
<1>4. ASSUME NEW l \in Keys
      PROVE  Gives(y, l) = IF l = x.slots[i].key THEN NULL ELSE Gives(x, l)
  <2> DEFINE j == Lookup(y, parity[l], l)
  <2>1. CASE l = x.slots[i].key BY <1>2, <2>1 DEF Gives
  <2>2. CASE l # x.slots[i].key /\ j = NULL BY <1>2, <2>2 DEF Gives
  <2>3. CASE l # x.slots[i].key /\ j # NULL
    <3>1. Live(y, j) BY <1>1, <2>3, LookupHit
    <3>2. Lookup(x, parity[l], l) = j BY <1>2, <2>3
    <3> HIDE DEF j
    <3>3. j \in Indices \ {i} BY <1>1, <3>1 DEF Live
    <3>4. QED BY <1>3, <2>3, <3>2, <3>3 DEF Gives, j
  <2>4. QED BY <2>1, <2>2, <2>3
<1>5. QED BY <1>4

\* Table_SetValue gives its value to the key that waits, if its record is the one found.
LEMMA RevaluedGives ==
  ASSUME NEW x, NEW y, NEW i, NEW v, Sound(x), Revalued(x, y, i, v),
         x.slots[i].key \in Keys, Lookup(x, parity[x.slots[i].key], x.slots[i].key) = i
  PROVE  \A l \in Keys : Gives(y, l) = IF l = x.slots[i].key THEN v ELSE Gives(x, l)
<1>1. x.dims \in 0 .. MAX_DIMS /\ parity \in [Keys -> Parities]
  BY DEF Sound, Bounded, ReelType
<1>2. \A l \in Keys : Lookup(y, parity[l], l) = Lookup(x, parity[l], l)
  BY RevaluedWalks
<1>3. /\ i \in Indices /\ y.slots[i].value = v
      /\ \A j \in Indices \ {i} : y.slots[j] = x.slots[j]
  BY DEF Revalued
<1>4. i # NULL BY <1>3, TableAssumption
<1>5. ASSUME NEW l \in Keys
      PROVE  Gives(y, l) = IF l = x.slots[i].key THEN v ELSE Gives(x, l)
  <2> DEFINE j == Lookup(x, parity[l], l)
  <2>1. CASE l = x.slots[i].key BY <1>2, <1>3, <1>4, <2>1 DEF Gives
  <2>2. CASE l # x.slots[i].key /\ j = NULL BY <1>2, <2>2 DEF Gives
  <2>3. CASE l # x.slots[i].key /\ j # NULL
    <3>1. Live(x, j) /\ x.slots[j].key = l BY <1>1, <2>3, LookupHit
    <3>2. Lookup(y, parity[l], l) = j BY <1>2
    <3> HIDE DEF j
    <3>3. j \in Indices \ {i} BY <2>3, <3>1 DEF Live
    <3>4. QED BY <1>3, <2>3, <3>2, <3>3 DEF Gives, j
  <2>4. QED BY <2>1, <2>2, <2>3
<1>6. QED BY <1>5

\* A key that waits for its value still waits in the record that is found.
LEMMA StoredWaits ==
  ASSUME NEW x, NEW y, NEW k \in Keys, NEW v, NEW i, Sound(x), DOUBLED_DIMS <= 1,
         Stored(x, y, k, v, i), y.dims > DOUBLED_DIMS => ~Doubled(y),
         NEW s, Live(x, s), Lookup(x, parity[x.slots[s].key], x.slots[s].key) = s,
         x.slots[s].key = k => i = s
  PROVE  /\ Live(y, s) /\ y.slots[s].key = x.slots[s].key
         /\ Lookup(y, parity[x.slots[s].key], x.slots[s].key) = s
<1>1. /\ x.dims \in 0 .. MAX_DIMS /\ parity \in [Keys -> Parities] /\ Keeps(x, y)
      /\ Bounded(x) /\ Walks(x) /\ s \in Indices
  BY StoredKeeps DEF Sound, Bounded, ReelType, Live
<1>2. Live(y, s) /\ y.slots[s].key = x.slots[s].key BY <1>1 DEF Keeps, Live
<1>3. Lookup(y, parity[k], k) = i BY <1>1, StoredSettled
<1>4. \A l \in Keys \ {k} : Lookup(y, parity[l], l) = Lookup(x, parity[l], l)
  BY StoredWalks
<1>5. x.slots[s].key \in Keys BY <1>1, LiveType
<1>6. QED BY <1>2, <1>3, <1>4, <1>5
-----------------------------------------------------------------------------
(* The two variables of KeyMap that stand for more than one of Table's.    *)
Entries == [k \in Keys |-> Table_Get(k)]
Named == IF selected = -1 THEN NULL ELSE tbl.slots[selected].key

\* What the calls find before and after a step that leaves the parities alone.
LEMMA GetsAre ==
  ASSUME parity' = parity
  PROVE  /\ Entries = [k \in Keys |-> Gives(tbl, k)]
         /\ Entries' = [k \in Keys |-> Gives(tbl', k)]
BY DEF Entries, Table_Get, Gives

\* A step that changes what one key gives is an assignment to that key.
LEMMA OneAssigned ==
  ASSUME parity' = parity, NEW k \in Keys, NEW v,
         \A l \in Keys : Gives(tbl', l) = IF l = k THEN v ELSE Gives(tbl, l)
  PROVE  Entries' = [Entries EXCEPT ![k] = v]
<1>1. /\ Entries = [l \in Keys |-> Gives(tbl, l)]
      /\ Entries' = [l \in Keys |-> Gives(tbl', l)]
  BY GetsAre
<1>2. [l \in Keys |-> Gives(tbl', l)] = [l \in Keys |-> IF l = k THEN v ELSE Gives(tbl, l)]
  OBVIOUS
<1>3. QED BY <1>1, <1>2

\* The parts of the invariant that speak of the table, once the numbering holds.
LEMMA SoundIs ==
  ASSUME Numbering
  PROVE  Sound(tbl) <=> Walks(tbl)
BY DEF Sound, Numbering

\* After a step that leaves the parities alone, the invariant speaks of the new table.
LEMMA InvAfter ==
  ASSUME parity' = parity, Numbering', Walks(tbl'),
         selected' # -1 =>
           /\ Live(tbl', selected')
           /\ LET k == tbl'.slots[selected'].key IN selected' = Lookup(tbl', parity[k], k)
  PROVE  TableInv'
<1>1. Walks(tbl)' BY DEF Walks, Settled
<1>2. Waiting' BY DEF Waiting
<1>3. QED BY <1>1, <1>2 DEF TableInv

\* The record that waits is in the table under a key.
LEMMA WaitingIs ==
  ASSUME TableInv, selected # -1
  PROVE  /\ Live(tbl, selected) /\ tbl.slots[selected].key \in Keys
         /\ Lookup(tbl, parity[tbl.slots[selected].key], tbl.slots[selected].key) = selected
         /\ Named = tbl.slots[selected].key /\ Named \in Keys /\ Named # NULL
<1>1. /\ Live(tbl, selected)
      /\ selected = Lookup(tbl, parity[tbl.slots[selected].key], tbl.slots[selected].key)
  BY DEF TableInv, Waiting
<1>2. selected \in Indices BY <1>1 DEF Live
<1>3. Bounded(tbl) /\ Walks(tbl) /\ parity \in [Keys -> Parities]
  BY DEF TableInv, Numbering
<1>4. tbl.slots[selected].key \in Keys BY <1>1, <1>2, <1>3, LiveType
<1>5. Named = tbl.slots[selected].key BY DEF Named
<1>6. QED BY <1>1, <1>4, <1>5, TableAssumption
-----------------------------------------------------------------------------
\* Table_Set keeps the invariant and is Set of the map.
LEMMA SetStep ==
  ASSUME ~Careless, DOUBLED_DIMS <= 1, TableInv, Numbering',
         NEW k \in Keys, NEW v \in Values, Table_Set(k, v)
  PROVE  TableInv' /\ Map!Set(k, v)
<1> DEFINE i == Spot(tbl, parity[k], k).idx
<1>1. /\ Put(k, v, Spot(tbl, parity[k], k)) /\ Awaits(k, i)
      /\ given' = v /\ selected' = selected /\ parity' = parity
  BY DEF Table_Set
<1>2. Numbering /\ Sound(tbl) BY SoundIs DEF TableInv
<1>3. Stored(tbl, tbl', k, v, i) /\ (tbl'.dims > DOUBLED_DIMS => ~Doubled(tbl'))
  BY <1>1, <1>2, PutStores
<1> HIDE DEF i
<1>4. Sound(tbl') BY <1>2, <1>3, StoredWalks
<1>5. Walks(tbl') BY <1>4 DEF Sound
<1>6. selected # -1 => /\ Live(tbl', selected)
                       /\ tbl'.slots[selected].key = tbl.slots[selected].key
                       /\ Lookup(tbl', parity[tbl.slots[selected].key],
                                 tbl.slots[selected].key) = selected
  <2>1. SUFFICES ASSUME selected # -1
                 PROVE  /\ Live(tbl', selected)
                        /\ tbl'.slots[selected].key = tbl.slots[selected].key
                        /\ Lookup(tbl', parity[tbl.slots[selected].key],
                                  tbl.slots[selected].key) = selected
    OBVIOUS
  <2>2. /\ Live(tbl, selected)
        /\ Lookup(tbl, parity[tbl.slots[selected].key], tbl.slots[selected].key) = selected
    BY <2>1, WaitingIs
  <2>3. tbl.slots[selected].key = k => i = selected BY <1>1, <2>1 DEF Awaits
  <2>4. QED BY <1>2, <1>3, <2>2, <2>3, StoredWaits
<1>7. TableInv' BY <1>1, <1>5, <1>6, InvAfter
<1>8. \A l \in Keys : Gives(tbl', l) = IF l = k THEN v ELSE Gives(tbl, l)
  BY <1>2, <1>3, StoredGives
<1>9. Entries' = [Entries EXCEPT ![k] = v] BY <1>1, <1>8, OneAssigned
<1>10. Named' = Named BY <1>1, <1>6 DEF Named
<1>11. QED BY <1>1, <1>7, <1>9, <1>10 DEF Map!Set, Map!Assign, Entries, Named

\* Table_SetKey keeps the invariant and is SetKey of the map.
LEMMA SetKeyStep ==
  ASSUME ~Careless, DOUBLED_DIMS <= 1, TableInv, Numbering',
         NEW k \in Keys, Table_SetKey(k)
  PROVE  TableInv' /\ Map!SetKey(k)
<1> DEFINE i == Spot(tbl, parity[k], k).idx
<1>1. /\ Put(k, NULL, Spot(tbl, parity[k], k))
      /\ given' = NULL /\ selected' = i /\ parity' = parity
  BY DEF Table_SetKey
<1>2. Numbering /\ Sound(tbl) BY SoundIs DEF TableInv
<1>3. Stored(tbl, tbl', k, NULL, i) /\ (tbl'.dims > DOUBLED_DIMS => ~Doubled(tbl'))
  BY <1>1, <1>2, PutStores
<1> HIDE DEF i
<1>4. Sound(tbl') BY <1>2, <1>3, StoredWalks
<1>5. Walks(tbl') BY <1>4 DEF Sound
<1>6. tbl.dims \in 0 .. MAX_DIMS /\ parity \in [Keys -> Parities]
  BY <1>2 DEF Sound, Bounded, ReelType
<1>7. Live(tbl', i) /\ tbl'.slots[i].key = k /\ i \in Indices BY <1>3 DEF Stored
<1>8. Lookup(tbl', parity[k], k) = i BY <1>3, <1>6, StoredSettled
<1>9. TableInv' BY <1>1, <1>5, <1>7, <1>8, InvAfter
<1>10. \A l \in Keys : Gives(tbl', l) = IF l = k THEN NULL ELSE Gives(tbl, l)
  BY <1>2, <1>3, StoredGives
<1>11. Entries' = [Entries EXCEPT ![k] = NULL] BY <1>1, <1>10, OneAssigned
<1>12. i # -1 BY <1>7 DEF Indices
<1>13. Named' = k BY <1>1, <1>7, <1>12 DEF Named
<1>14. QED BY <1>1, <1>9, <1>11, <1>13 DEF Map!SetKey, Map!Assign, Entries, Named

\* A careful client's Table_UnSet keeps the invariant and is UnSet of the map.
LEMMA UnSetStep ==
  ASSUME ~Careless, TableInv, Numbering', NEW k \in Keys, Table_UnSet(k)
  PROVE  TableInv' /\ Map!UnSet(k)
<1> DEFINE i == Lookup(tbl, parity[k], k)
<1>1. /\ i # NULL /\ Removable(i)
      /\ given' = NULL /\ selected' = selected /\ parity' = parity
  BY DEF Table_UnSet
<1>2. Numbering /\ Sound(tbl) BY SoundIs DEF TableInv
<1>3. Erased(tbl, tbl', i) BY <1>2, UnSetErases
<1>4. ~Doubled(tbl) /\ selected = -1 BY <1>1 DEF Removable
<1>5. tbl.dims \in 0 .. MAX_DIMS /\ parity[k] \in Parities
  BY <1>2 DEF Sound, Bounded, ReelType
<1>6. tbl.slots[i].key = k BY <1>1, <1>5, LookupHit
<1> HIDE DEF i
<1>7. Sound(tbl') BY <1>2, <1>3, <1>4, ErasedWalks
<1>8. Walks(tbl') BY <1>7 DEF Sound
<1>9. TableInv' BY <1>1, <1>4, <1>8, InvAfter
<1>10. \A l \in Keys : Gives(tbl', l) = IF l = k THEN NULL ELSE Gives(tbl, l)
  BY <1>2, <1>3, <1>4, <1>6, ErasedGives
<1>11. Entries' = [Entries EXCEPT ![k] = NULL] BY <1>1, <1>10, OneAssigned
<1>12. Named' = Named BY <1>1, <1>4 DEF Named
<1>13. QED BY <1>1, <1>9, <1>11, <1>12 DEF Map!UnSet, Map!Assign, Entries, Named

\* Table_SetValue keeps the invariant and is SetValue of the map.
LEMMA SetValueStep ==
  ASSUME TableInv, Numbering', NEW v \in Values, Table_SetValue(v)
  PROVE  TableInv' /\ Map!SetValue(v)
<1> DEFINE k == tbl.slots[selected].key
<1>1. selected # -1 /\ selected' = -1 /\ given' = v /\ parity' = parity
  BY DEF Table_SetValue
<1>2. Numbering /\ Sound(tbl) BY SoundIs DEF TableInv
<1>3. Revalued(tbl, tbl', selected, v) BY <1>2, SetValueRevalues
<1>4. k \in Keys /\ Lookup(tbl, parity[k], k) = selected /\ Named = k /\ Named # NULL
  BY <1>1, WaitingIs
<1>5. Sound(tbl') BY <1>2, <1>3, RevaluedWalks
<1>6. Walks(tbl') BY <1>5 DEF Sound
<1>7. TableInv' BY <1>1, <1>6, InvAfter
<1>8. \A l \in Keys : Gives(tbl', l) = IF l = k THEN v ELSE Gives(tbl, l)
  BY <1>2, <1>3, <1>4, RevaluedGives
<1> HIDE DEF k
<1>9. Entries' = [Entries EXCEPT ![k] = v] BY <1>1, <1>4, <1>8, OneAssigned
<1>10. Named' = NULL BY <1>1 DEF Named
<1>11. QED
  <2>1. Entries' = [Entries EXCEPT ![Named] = v] BY <1>4, <1>9
  <2>2. QED BY <1>1, <1>4, <1>7, <1>10, <2>1 DEF Map!SetValue, Map!Assign, Entries, Named
-----------------------------------------------------------------------------
\* Every call keeps the invariant and is a step of the map, or none.
LEMMA NextTable ==
  ASSUME ~Careless, DOUBLED_DIMS <= 1, TableInv, [Next]_vars
  PROVE  TableInv' /\ [Map!Next]_(Map!vars)
<1>1. Numbering' BY NextNumbering DEF TableInv
<1>2. ASSUME NEW k \in Keys, NEW v \in Values, Table_Set(k, v)
      PROVE  TableInv' /\ Map!Next
  BY <1>1, <1>2, SetStep DEF Map!Next
<1>3. ASSUME NEW k \in Keys, Table_SetKey(k) PROVE TableInv' /\ Map!Next
  BY <1>1, <1>3, SetKeyStep DEF Map!Next
<1>4. ASSUME NEW k \in Keys, Table_UnSet(k) PROVE TableInv' /\ Map!Next
  BY <1>1, <1>4, UnSetStep DEF Map!Next
<1>5. ASSUME NEW v \in Values, Table_SetValue(v) PROVE TableInv' /\ Map!Next
  BY <1>1, <1>5, SetValueStep DEF Map!Next
<1>6. CASE UNCHANGED vars
  <2>1. tbl' = tbl /\ selected' = selected /\ parity' = parity /\ given' = given
    BY <1>6 DEF vars
  <2>2. Walks(tbl') BY <2>1 DEF TableInv
  <2>3. TableInv' BY <1>1, <2>1, <2>2, InvAfter DEF TableInv, Waiting
  <2>4. Entries' = Entries /\ Named' = Named BY <2>1, GetsAre DEF Named
  <2>5. QED BY <2>1, <2>3, <2>4 DEF Map!vars, Entries, Named
<1>7. QED BY <1>2, <1>3, <1>4, <1>5, <1>6 DEF Next

(* Records are where the walks meet them, a key has a second record only   *)
(* while the table is shallow enough for storing it to change the live     *)
(* one, and a key that waits waits in the record that a look-up finds,     *)
(* however the parities of the keys collide and however often the table    *)
(* grows.                                                                  *)
THEOREM TableInvariant ==
  ASSUME ~Careless, DOUBLED_DIMS <= 1
  PROVE  Spec => []TableInv
<1>1. Init => TableInv BY InitTable
<1>2. TableInv /\ [Next]_vars => TableInv' BY NextTable
<1>3. QED BY <1>1, <1>2, PTL DEF Spec

(* The table is a map from keys to values: what Table_Get finds is what    *)
(* was stored last for the key, through growth, collisions, removals and   *)
(* entries that arrive in halves.                                          *)
THEOREM TableIsMap ==
  ASSUME ~Careless, DOUBLED_DIMS <= 1
  PROVE  Spec => IsMap
<1>1. ASSUME Init PROVE Map!Init
  <2>1. selected = -1 /\ given = NULL /\ parity \in [Keys -> Parities] BY <1>1 DEF Init
  <2>2. \A i \in Indices : ~Live(tbl, i) BY <1>1, InitTable
  <2>3. tbl.dims \in 0 .. MAX_DIMS
    BY <1>1, InitNumbering DEF Numbering, Bounded, ReelType
  <2>4. ASSUME NEW k \in Keys PROVE Table_Get(k) = NULL
    <3>1. parity[k] \in Parities BY <2>1
    <3>2. Lookup(tbl, parity[k], k) = NULL BY <2>2, <2>3, <3>1, LookupNone
    <3>3. QED BY <3>2 DEF Table_Get
  <2>5. QED BY <2>1, <2>4 DEF Map!Init
<1>2. TableInv /\ [Next]_vars => [Map!Next]_(Map!vars) BY NextTable
<1>3. Spec => []TableInv BY TableInvariant
<1>4. QED BY <1>1, <1>2, <1>3, PTL DEF Spec, IsMap, Map!Spec
=============================================================================
