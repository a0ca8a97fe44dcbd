------------------------------- MODULE Table -------------------------------
(***************************************************************************)
(* The hash table of src/src/mod/base/sequence/table.c: a Span of Hashed   *)
(* records, each at an index that the HKey algorithm derives from the      *)
(* parity (the hash) of its key.                                           *)
(*                                                                         *)
(* For a table of depth D the HKey algorithm tries four indices made of    *)
(* the low bits of the parity that D+1 levels span, then four for one      *)
(* level less, and so on; after those of a single slab it goes on index by *)
(* index.  Storing takes the first free one.  Looking up goes on to the    *)
(* next lower depth as soon as it meets a free one.                        *)
(***************************************************************************)
EXTENDS SpanIter, Sequences

CONSTANTS
  Keys, Values,
  Parities,    (* the hashes keys may have                                 *)
  OCCUPIED,    (* dim_occupied_max: more values than this, and the table   *)
               (* grows a level before it stores                           *)
  DOUBLED_DIMS,(* a table that has a key in two records (one stored again  *)
               (* after the table grew) is not made deeper than this       *)
  Careless     (* the client does anything at any time; FALSE is one that  *)
               (* removes what nothing depends on (see Removable) and      *)
               (* gives a key that waits its value (see Awaits)            *)

Hashed == [key : Keys, id : Nat, value : Values \union {NULL}, order : Int]

ASSUME TableAssumption ==
  /\ NULL \notin Keys \union Values \union Indices \union Hashed
  /\ Parities \subseteq Nat
  /\ OCCUPIED \in [0 .. MAX_DIMS -> Nat]
  /\ \A d \in 0 .. MAX_DIMS : OCCUPIED[d] < Capacity(d)
  /\ DOUBLED_DIMS \in 0 .. MAX_DIMS /\ Careless \in BOOLEAN

VARIABLES
  tbl,      (* the Span, its slots Hashed records [key, id, value, order]  *)
  selected, (* it->metrics.selected of the Iter that Table_SetKey and      *)
            (* Table_SetValue are called with                              *)
  parity,   (* Get_Hash of each key: never changes                         *)
  given     (* the value the last call was given, or NULL (history)        *)

vars == <<tbl, selected, parity, given>>
-----------------------------------------------------------------------------
(* The index at position pos of depth dim: the id shifted by as many       *)
(* widths, and cut to one.                                                 *)
HKeyVal(id, pos, dim) ==
  LET w == INCREMENTS[dim + 1]
      shifted == <<id, id \div w, (id \div w) \div w, ((id \div w) \div w) \div w>>
  IN  shifted[pos + 1] % w

(* What a walk tries for one depth, dim, in a table of depth top; the      *)
(* indices for a single slab go on past the fourth to the end of the       *)
(* table.                                                                  *)
Chain == [id \in Parities |-> [top \in 0 .. MAX_DIMS |-> [dim \in 0 .. MAX_DIMS |->
  LET bits == [p \in 1 .. 4 |-> HKeyVal(id, p - 1, dim)]
      last == bits[4]
  IN  IF dim > 0 THEN bits
      ELSE [p \in 1 .. 4 + (Capacity(top) - 1 - last) |->
              IF p <= 4 THEN bits[p] ELSE last + (p - 4)]]]]

Free(x, i) == x.slots[i] = NULL \/ x.slots[i].order = -1

Mine(x, id, k, i) ==
  x.slots[i] # NULL /\ x.slots[i].id = id /\ x.slots[i].key = k

(* The first index of a chain that is free or has the key; NULL when every *)
(* one is taken.                                                           *)
Stop(x, id, k, top, dim) ==
  LET chain == Chain[id][top][dim]
      Stops(p) == Free(x, chain[p]) \/ Mine(x, id, k, chain[p])
  IN  IF \E p \in DOMAIN chain : Stops(p)
      THEN chain[CHOOSE p \in DOMAIN chain : Stops(p) /\ \A q \in 1 .. p - 1 : ~Stops(q)]
      ELSE NULL

(* The depth a walk, which comes down from the top, meets first.           *)
Topmost(S) == CHOOSE d \in S : \A e \in S : e <= d

(* Only the chain of the table's own depth is looked at.                   *)
Lookup_Top(x, id, k) ==
  LET i == Stop(x, id, k, x.dims, x.dims)
  IN  IF i # NULL /\ ~Free(x, i) THEN i ELSE NULL

(* Table_GetSetHashed under SPAN_OP_GET: the index of the key's record.  A *)
(* free index ends the walk through a chain, and the next lower depth is   *)
(* tried.                                                                  *)
Lookup(x, id, k) ==
  LET at == [d \in 0 .. x.dims |-> Stop(x, id, k, x.dims, d)]
      found == {d \in 0 .. x.dims : at[d] # NULL /\ ~Free(x, at[d])}
  IN  IF found = {} THEN NULL ELSE at[Topmost(found)]

Table_Get(k) ==
  LET i == Lookup(tbl, parity[k], k)
  IN  IF i = NULL THEN NULL ELSE tbl.slots[i].value

(* Where a key is stored in a table of depth top: the first free index of  *)
(* the chains from the top.  NULL is a walk that leaves the table.         *)
Place(x, id, k, top) ==
  LET at == [d \in 0 .. top |-> Stop(x, id, k, top, d)]
      ends == {d \in 0 .. top : at[d] # NULL}
  IN  IF ends = {} THEN NULL ELSE at[Topmost(ends)]

(* The depth a table has when it stores the key, and where: a level deeper *)
(* when it is half full, and one for every walk that leaves the table.     *)
(* NULL is a table that would outgrow the bound of the model.              *)
Spot(x, id, k) ==
  LET first == IF x.nvalues > OCCUPIED[x.dims] THEN x.dims + 1 ELSE x.dims
      at == [d \in first .. MAX_DIMS |-> Place(x, id, k, d)]
      fits == {d \in first .. MAX_DIMS : at[d] # NULL}
      depth == CHOOSE d \in fits : \A e \in fits : d <= e
  IN  IF fits = {} THEN NULL ELSE [depth |-> depth, idx |-> at[depth]]

(* Iter_ExpandTo the first index of the next level, level by level.        *)
Grown(x, depth) ==
  LET at[d \in x.dims .. depth] ==
        IF d = x.dims THEN x ELSE Iter_Init(Iter_ExpandTo(at[d - 1], Capacity(d - 1)))
  IN  at[depth]

(* A free record that is used again keeps its key: only Hashed_Make sets   *)
(* the key.                                                                *)
StoreAt(x, k, i, v) ==
  LET h == x.slots[i]
      new == [key |-> IF h = NULL THEN k ELSE h.key, id |-> parity[k],
              value |-> v, order |-> x.nvalues]
  IN  IF Free(x, i) THEN Iter_Init(Store(x, i, new))
      ELSE [x EXCEPT !.slots[i].value = v]
-----------------------------------------------------------------------------
Doubled(x) == \E i, j \in Occupied(x) : i # j /\ x.slots[i].key = x.slots[j].key

(* The careful client removes only the entry that was stored last, with    *)
(* one record and not waiting for its value, and stores no key that would  *)
(* go to a freed record ...                                                *)
Freed(x, i) == x.slots[i] # NULL /\ x.slots[i].order = -1

Removable(i) ==
  ~Careless => /\ tbl.slots[i].order = tbl.nvalues - 1
               /\ ~Doubled(tbl) /\ selected = -1

(* ... and, while a key waits, stores it nowhere else.                     *)
Awaits(k, i) ==
  ~Careless /\ selected # -1 /\ tbl.slots[selected].key = k => i = selected

Put(k, v, spot) ==
  /\ spot # NULL
  /\ tbl' = StoreAt(Grown(tbl, spot.depth), k, spot.idx, v)
  /\ tbl'.dims > DOUBLED_DIMS => ~Doubled(tbl')
  /\ ~Careless => ~Freed(tbl, spot.idx)

Table_Set(k, v) ==
  LET spot == Spot(tbl, parity[k], k)
  IN  /\ Put(k, v, spot)
      /\ Awaits(k, spot.idx)
      /\ given' = v
      /\ UNCHANGED <<selected, parity>>

(* The two halves of an entry as a parser delivers them.                   *)
Table_SetKey(k) ==
  LET spot == Spot(tbl, parity[k], k)
  IN  /\ Put(k, NULL, spot)
      /\ selected' = spot.idx
      /\ given' = NULL
      /\ UNCHANGED parity

Table_SetValue(v) ==
  /\ selected # -1 /\ tbl.slots[selected] # NULL
  /\ tbl' = [tbl EXCEPT !.slots[selected].value = v]
  /\ selected' = -1
  /\ given' = v
  /\ UNCHANGED parity

Table_UnSet(k) ==
  LET i == Lookup(tbl, parity[k], k)
  IN  /\ i # NULL /\ Removable(i)
      /\ tbl' = [tbl EXCEPT !.nvalues = @ - 1,
                   !.slots[i] = [@ EXCEPT !.value = NULL, !.id = 0, !.order = -1]]
      /\ given' = NULL
      /\ UNCHANGED <<selected, parity>>

Init ==
  /\ tbl = Span_Make
  /\ selected = -1
  /\ parity \in [Keys -> Parities]
  /\ given = NULL

Next ==
  \/ \E k \in Keys, v \in Values : Table_Set(k, v)
  \/ \E k \in Keys : Table_SetKey(k) \/ Table_UnSet(k)
  \/ \E v \in Values : Table_SetValue(v)

Spec == Init /\ [][Next]_vars
-----------------------------------------------------------------------------
TypeOK ==
  /\ \A i \in Occupied(tbl) : tbl.slots[i] \in Hashed
  /\ tbl.dims \in 0 .. MAX_DIMS /\ tbl.nvalues \in Int
  /\ selected \in Indices \union {-1}
  /\ parity \in [Keys -> Parities]

(* What Table_Get finds is what was stored last, for every key: growing    *)
(* the table and storing other keys hides, swaps and revives nothing.      *)
Map == INSTANCE KeyMap WITH
         map <- [k \in Keys |-> Table_Get(k)],
         named <- IF selected = -1 THEN NULL ELSE tbl.slots[selected].key

IsMap == Map!Spec

(* The records are numbered in the order they came, without a gap: what    *)
(* Table_Ordered turns into a sequence.                                    *)
OrderDense ==
  LET used == {i \in Indices : ~Free(tbl, i)}
  IN  /\ {tbl.slots[i].order : i \in used} = 0 .. tbl.nvalues - 1
      /\ Cardinality(used) = tbl.nvalues
=============================================================================
