------------------------------- MODULE Queue -------------------------------
(***************************************************************************)
(* The Queue of src/src/mod/ext/navigate/queue.c: a Span of items, a Span  *)
(* with the criteria of each item at the same index, and the shelf of      *)
(* removed indices (src/src/mod/base/sequence/shelf.c) from which          *)
(* Queue_Add takes before it grows the Span.                               *)
(*                                                                         *)
(* The clients follow the protocol of the only caller, serve.c: a pass     *)
(* calls Queue_Next until it returns END, removes nothing but the item     *)
(* just returned, and adds only between passes.  queue_tests.c also        *)
(* removes between passes; RemoveBetween allows it.                        *)
(***************************************************************************)
EXTENDS SpanIter

CONSTANTS
  Items,        (* what is queued                                          *)
  AlwaysReady,  (* items whose criteria function answers TRUE every time   *)
  RemoveBetween (* the client also removes between passes                  *)

ASSUME ItemsAssumption ==
  NULL \notin Items /\ AlwaysReady \subseteq Items /\ RemoveBetween \in BOOLEAN

VARIABLES
  it,           (* q->it: the items, and the position of the pass          *)
  critIt,       (* q->critIt; the criteria of an item carry its name       *)
  availableIt,  (* q->availableIt: the shelf, each slot the index its      *)
                (* Single holds                                            *)
  selected,     (* availableIt.metrics.selected: the top of the shelf      *)
  pass,         (* a pass is under way                                     *)
  seen          (* the items returned since the pass last started at 0     *)

vars == <<it, critIt, availableIt, selected, pass, seen>>

Queued == {it.slots[i] : i \in Occupied(it)}
-----------------------------------------------------------------------------
(* Faults for the runs to find, each in front of the operator it replaces: *)
(* an empty shelf is not told from a spent one.                            *)
Shelf_Available_Any == selected # availableIt.max_idx

Shelf_Available == selected # -1 /\ selected # availableIt.max_idx

(* The index on top of the shelf, Shelf_Get having fetched it.             *)
ShelfTop == availableIt.slots[selected]

Queue_Set(idx, a) ==
  /\ it' = Iter_GetByIdx(Iter_SetByIdx(it, idx, a), it.idx)
  /\ critIt' = Iter_SetByIdx(critIt, idx, a)

(* The index stays on the shelf.                                           *)
Queue_Add_Keeps(a) ==
  /\ ~pass /\ a \notin Queued
  /\ Queue_Set(IF selected >= 0 THEN ShelfTop ELSE it.max_idx + 1, a)
  /\ it.max_idx + 1 < Limit
  /\ UNCHANGED <<availableIt, selected, pass, seen>>

(* The number of items is taken for the next index.                        *)
Queue_Add_Count(a) ==
  /\ ~pass /\ a \notin Queued
  /\ it.nvalues < Limit
  /\ Queue_Set(it.nvalues, a)
  /\ UNCHANGED <<availableIt, selected, pass, seen>>

Queue_Add(a) ==
  /\ ~pass
  /\ a \notin Queued
  /\ \/ /\ selected >= 0
        /\ Queue_Set(ShelfTop, a)
        /\ availableIt' = Iter_GetByIdx(availableIt, selected)
        /\ selected' = selected - 1
     \/ /\ selected < 0
        /\ it.max_idx + 1 < Limit
        /\ Queue_Set(it.max_idx + 1, a)
        /\ UNCHANGED <<availableIt, selected>>
  /\ UNCHANGED <<pass, seen>>

(* The criteria stay behind.                                               *)
Queue_Remove_CritLeft(idx) ==
  /\ it' = Iter_RemoveByIdx(it, idx)
  /\ selected + 1 < Limit
  /\ availableIt' = Iter_SetByIdx(availableIt, selected + 1, idx)
  /\ selected' = selected + 1
  /\ UNCHANGED <<critIt, pass, seen>>

(* A shelf with spent Singles above its top gives up the Single on top,    *)
(* and that one is set to idx.                                             *)
Queue_Remove(idx) ==
  /\ it' = Iter_RemoveByIdx(it, idx)
  /\ critIt' = Iter_RemoveByIdx(critIt, idx)
  /\ \/ /\ Shelf_Available
        /\ availableIt' = [Iter_GetByIdx(availableIt, selected)
                             EXCEPT !.slots[selected] = idx]
        /\ selected' = selected - 1
     \/ /\ ~Shelf_Available
        /\ selected + 1 < Limit
        /\ availableIt' = Iter_SetByIdx(availableIt, selected + 1, idx)
        /\ selected' = selected + 1
  /\ UNCHANGED <<pass, seen>>

(* The item the pass stands on.                                            *)
Removable(idx) == IF pass THEN it.idx = idx /\ ~it.end ELSE RemoveBetween

(* The first item of a pass is passed over ...                             *)
Scan_Skips(start, ready) ==
  LET found == {i \in Occupied(start) : i > start.idx /\ start.slots[i] \in ready}
  IN  IF found = {} THEN [start EXCEPT !.end = TRUE]
      ELSE LET i == CHOOSE i \in found : \A j \in found : i <= j
           IN  [start EXCEPT !.idx = i, !.value = start.slots[i],
                             !.processing = TRUE, !.end = FALSE]

(* ... or the item the pass stands on comes again.                         *)
Scan_Repeats(start, ready) ==
  LET found == {i \in Occupied(start) : i >= start.idx /\ start.slots[i] \in ready}
  IN  IF found = {} THEN [start EXCEPT !.end = TRUE]
      ELSE LET i == CHOOSE i \in found : \A j \in found : i <= j
           IN  [start EXCEPT !.idx = i, !.value = start.slots[i],
                             !.processing = TRUE, !.end = FALSE]

(* The loop of Queue_Next: Iter_Next until an item's criteria function     *)
(* accepts it (it is one of "ready") or the Span is at its END.  Where the *)
(* Iter stands after END, and where the lookups of criteria leave critIt,  *)
(* no caller looks.  ScanIsLoop compares it with the loop.                 *)
Scan(start, ready) ==
  LET from == IF start.processing THEN start.idx + 1 ELSE start.idx
      found == {i \in Occupied(start) : i >= from /\ start.slots[i] \in ready}
  IN  IF found = {} THEN [start EXCEPT !.end = TRUE]
      ELSE LET i == CHOOSE i \in found : \A j \in found : i <= j
           IN  [start EXCEPT !.idx = i, !.value = start.slots[i],
                             !.processing = TRUE, !.end = FALSE]

(* The loop as it is written, one Iter_Next at a time: no Span has more    *)
(* than Limit places to stop at.                                           *)
Turn(x, ready) ==
  IF x.end \/ (x.value # NULL /\ x.value \in ready) THEN x ELSE Iter_Next(x)

Loop(start, ready) ==
  LET step[n \in 0 .. Limit] ==
        IF n = 0 THEN Iter_Next(start) ELSE Turn(step[n - 1], ready)
  IN  step[Limit]

(* Queue_Next when the criteria function accepts the items in ready.       *)
NextAmong(ready) ==
  LET start == IF it.end THEN Iter_Init(it) ELSE it
      x == Scan(start, ready)
      before == IF start.processing THEN seen ELSE {}
  IN  /\ it' = x
      /\ critIt' = IF x.end THEN critIt ELSE Iter_GetByIdx(critIt, x.idx)
      /\ pass' = ~x.end
      /\ seen' = IF x.end THEN before ELSE before \union {x.value}
      /\ UNCHANGED <<availableIt, selected>>

Queue_Next ==
  \E ready \in SUBSET Queued :
    AlwaysReady \intersect Queued \subseteq ready /\ NextAmong(ready)

Init ==
  /\ it = Span_Make /\ critIt = Span_Make /\ availableIt = Span_Make
  /\ selected = -1
  /\ pass = FALSE
  /\ seen = {}

Next ==
  \/ \E a \in Items : Queue_Add(a)
  \/ \E idx \in Occupied(it) : Removable(idx) /\ Queue_Remove(idx)
  \/ Queue_Next

Spec == Init /\ [][Next]_vars
-----------------------------------------------------------------------------
TypeOK ==
  /\ it \in ReelType(Items \union {NULL})
  /\ critIt \in ReelType(Items \union {NULL})
  /\ availableIt \in ReelType(Indices \union {NULL})
  /\ selected \in -1 .. Limit - 1
  /\ pass \in BOOLEAN
  /\ seen \subseteq Items

(* The shelf from its bottom to "selected" holds indices without an item,  *)
(* each once: Queue_Add can give each of them out.                         *)
Shelved == 0 .. selected

ShelfSound ==
  /\ selected <= availableIt.max_idx
  /\ \A s \in Shelved : /\ availableIt.slots[s] \in Indices
                         /\ it.slots[availableIt.slots[s]] = NULL
  /\ \A s, t \in Shelved : s # t => availableIt.slots[s] # availableIt.slots[t]

(* No item stands above max_idx, where Queue_Add puts the next one.        *)
NoneAboveMax == \A i \in Indices : i > it.max_idx => it.slots[i] = NULL

(* Every item has memory behind it, so that Iter_Query can get at it.      *)
Backed == \A i \in Occupied(it) : Made(it, i) /\ Made(critIt, i)

(* The criteria a pass consults are those of the item at the same index.   *)
CritMatches == critIt.slots = it.slots

(* An item is queued once.                                                 *)
Distinct == \A i, j \in Occupied(it) : it.slots[i] = it.slots[j] => i = j

(* Without removals between passes the position of the Iter splits the     *)
(* items: those behind it have been returned if they were ready, those     *)
(* ahead have not.                                                         *)
Underway == it.processing /\ ~it.end

PassSplit ==
  ~RemoveBetween =>
    /\ pass => it.processing
    /\ Underway => pass
    /\ ~it.processing => it.idx = 0
    /\ Underway => \A i \in Occupied(it) :
          IF i > it.idx THEN it.slots[i] \notin seen
          ELSE it.slots[i] \in AlwaysReady => it.slots[i] \in seen

(* nvalues is the number of items: serve.c waits in poll() for five        *)
(* seconds when it thinks there are none.                                  *)
CountExact == it.nvalues = Cardinality(Occupied(it))

(* Queue_Add and Queue_Remove never replace an item or move one: what is   *)
(* at an index stays there until it is removed.                            *)
NeverOverwrites ==
  [][\A i \in Indices : it.slots[i] # NULL => it'.slots[i] \in {it.slots[i], NULL}]_vars

(* When Queue_Next returns END, every item that was ready all along has    *)
(* been returned since the pass started, whatever was removed meanwhile.   *)
PassComplete ==
  [][Queue_Next /\ ~pass' => AlwaysReady \intersect Queued \subseteq seen']_vars

(* ... and within a pass no item is returned twice, the one the pass      *)
(* stands on included.                                                     *)
PassOnce ==
  Underway => \A ready \in SUBSET Queued :
                LET x == Scan(it, ready) IN ~x.end => x.value \notin seen

(* Whatever adding and removing did to the Iter, and whichever items the   *)
(* criteria function would accept, the loop of Iter_Next in Queue_Next     *)
(* stops at the next such item and skips none.                             *)
ScanIsLoop ==
  \A ready \in SUBSET Queued :
    LET start == IF it.end THEN Iter_Init(it) ELSE it
        x == Loop(start, ready)
        y == Scan(start, ready)
    IN  /\ x.end = y.end /\ x.slots = y.slots
        /\ ~x.end => x = y
=============================================================================
