---------------------------- MODULE ServeProofs ----------------------------
(***************************************************************************)
(* Proofs about the server, for any number of connections, command files   *)
(* and ports, and for any table of strides.  What is proved of the Queue   *)
(* (QueueProofs) is used through an instance of it for the requests.       *)
(*                                                                         *)
(* The argument: the queue holds exactly the live requests, each at the    *)
(* index it was told (Tracked); a request between two steps has the route  *)
(* its progress calls for, from which follow what was read, sent and       *)
(* logged (ConnGood); a request that is at its END is the current one      *)
(* (Ending), so that none is ever returned by a pass.                      *)
(***************************************************************************)
EXTENDS Serve, FiniteSetTheorems, TLAPS

QP == INSTANCE QueueProofs
        WITH Items <- Reqs, AlwaysReady <- {}, RemoveBetween <- FALSE

\* The queue of requests meets the assumptions under which Queue is proved.
LEMMA QueueAssumptions == QP!TablesAssumption /\ QP!ItemsAssumption
<1>1. QP!STRIDE = Q!STRIDE BY DEF QP!STRIDE, Q!STRIDE
<1>2. \A d : QP!Capacity(d) = Q!Capacity(d) BY DEF Q!Capacity, QP!Capacity
<1>3. QP!Indices = Q!Indices BY DEF Q!Indices, QP!Indices, Q!Limit, QP!Limit
<1>4. \A i, d : QP!Fits(i, d) <=> Q!Fits(i, d)
  BY DEF Q!Fits, QP!Fits, Q!Capacity, QP!Capacity
<1>5. QP!TablesAssumption
  BY <1>1, <1>2, <1>3, <1>4, ServeAssumption DEF QP!TablesAssumption, Q!TablesAssumption
<1>6. QP!ItemsAssumption BY ServeAssumption DEF QP!ItemsAssumption
<1>7. QED BY <1>5, <1>6

\* Counting in the instance of QueueProofs is counting here.
LEMMA SameCount ==
  /\ \A S : QP!Cardinality(S) = Cardinality(S)
  /\ \A S : QP!IsFiniteSet(S) <=> IsFiniteSet(S)
BY DEF QP!Cardinality, Cardinality, QP!IsFiniteSet, IsFiniteSet

\* QueueProofs and the server speak of one queue: the state they name is the same ...
LEMMA SameParts ==
  /\ QP!Indices = Q!Indices /\ QP!vars = qvars /\ Q!vars = qvars
  /\ QP!Queued = Q!Queued /\ QP!ShelfTop = Q!ShelfTop
  /\ \A x : QP!Occupied(x) = Q!Occupied(x)
BY DEF Q!Indices, QP!Indices, Q!Limit, QP!Limit, QP!vars, Q!vars, qvars,
       Q!Queued, QP!Queued, Q!ShelfTop, QP!ShelfTop, Q!Occupied, QP!Occupied

\* ... so are the accesses to its Spans ...
LEMMA SameStores ==
  /\ \A x, i, v : QP!Iter_SetByIdx(x, i, v) = Q!Iter_SetByIdx(x, i, v)
  /\ \A x, i : QP!Iter_GetByIdx(x, i) = Q!Iter_GetByIdx(x, i)
  /\ \A x, i : QP!Iter_RemoveByIdx(x, i) = Q!Iter_RemoveByIdx(x, i)
<1>2. \A x, i : QP!Made(x, i) <=> Q!Made(x, i)
  BY DEF QP!Made, Q!Made, QP!Capacity, Q!Capacity, QP!STRIDE, Q!STRIDE
<1>3. \A x, i, v : QP!Iter_SetByIdx(x, i, v) = Q!Iter_SetByIdx(x, i, v)
  BY DEF QP!Iter_SetByIdx, Q!Iter_SetByIdx, QP!Store, Q!Store, Q!STRIDE, QP!STRIDE,
         QP!Higher, Q!Higher, QP!DimsNeeded, Q!DimsNeeded, Q!Fits, QP!Fits,
         Q!Capacity, QP!Capacity
<1>4. \A x, i : QP!Iter_GetByIdx(x, i) = Q!Iter_GetByIdx(x, i)
  BY <1>2 DEF QP!Iter_GetByIdx, Q!Iter_GetByIdx, QP!Fetch, Q!Fetch
<1>5. \A x, i : QP!Iter_RemoveByIdx(x, i) = Q!Iter_RemoveByIdx(x, i)
  BY <1>2 DEF QP!Iter_RemoveByIdx, Q!Iter_RemoveByIdx, QP!Iter_Remove, Q!Iter_Remove
<1>6. QED BY <1>3, <1>4, <1>5

\* ... and each operation, Queue_Add ...
LEMMA SameAdd == \A a : QP!Queue_Add(a) <=> Q!Queue_Add(a)
BY SameParts, SameStores
   DEF QP!Queue_Add, Q!Queue_Add, QP!Queue_Set, Q!Queue_Set, QP!Limit, Q!Limit

\* ... Queue_Remove ...
LEMMA SameRemove == \A i : QP!Queue_Remove(i) <=> Q!Queue_Remove(i)
BY SameParts, SameStores
   DEF QP!Queue_Remove, Q!Queue_Remove, QP!Shelf_Available, Q!Shelf_Available,
       QP!Limit, Q!Limit

\* ... Queue_Next ...
LEMMA SameNext ==
  /\ \A ready : QP!NextAmong(ready) <=> Q!NextAmong(ready)
  /\ QP!Queue_Next <=> Q!Queue_Next
<1>1. \A x, ready : QP!Scan(x, ready) = Q!Scan(x, ready)
  BY DEF QP!Scan, Q!Scan, QP!Occupied, Q!Occupied, QP!Indices, Q!Indices, QP!Limit, Q!Limit
<1>2. \A x : QP!Iter_Init(x) = Q!Iter_Init(x) BY DEF QP!Iter_Init, Q!Iter_Init
<1>3. \A ready : QP!NextAmong(ready) <=> Q!NextAmong(ready)
  BY <1>1, <1>2, SameStores DEF QP!NextAmong, Q!NextAmong
<1>4. QED BY <1>3, SameParts DEF QP!Queue_Next, Q!Queue_Next

\* ... and the empty queue.
LEMMA SameInit == QP!Init <=> Q!Init
BY DEF QP!Init, Q!Init, QP!Span_Make, Q!Span_Make, QP!Indices, Q!Indices, QP!Limit, Q!Limit
-----------------------------------------------------------------------------
(* The route of a request.                                                 *)
StepOrNull == Steps \union {NULL}

RouteType ==
  [slots : [R!Indices -> StepOrNull], leaves : SUBSET Int, nvalues : Int,
   max_idx : Int, dims : {0}, idx : Int, value : StepOrNull,
   processing : BOOLEAN, end : BOOLEAN]

\* The Iter stands on the top of a stack of at most four steps.
Stacked(x) ==
  /\ x \in RouteType /\ 0 \in x.leaves
  /\ x.idx \in 0 .. 3 /\ x.max_idx = x.idx /\ x.nvalues = x.idx + 1
  /\ x.value = x.slots[x.idx]
  /\ \A i \in R!Indices : i > x.idx => x.slots[i] = NULL

Cleared(x) ==
  /\ x \in RouteType /\ x.max_idx = -1 /\ x.nvalues = 0
  /\ \A i \in R!Indices : x.slots[i] = NULL

\* A route of at most four steps fits in one slab.
LEMMA RouteTables ==
  /\ R!STRIDE = ROUTE_SIZE /\ R!Capacity(0) = ROUTE_SIZE
  /\ R!Indices = 0 .. ROUTE_SIZE - 1 /\ 0 .. 3 \subseteq R!Indices
  /\ \A i \in 0 .. 3 : R!DimsNeeded(i) = 0 /\ i \div R!STRIDE = 0
<1>1. R!STRIDE = ROUTE_SIZE /\ R!Capacity(0) = ROUTE_SIZE
  BY DEF R!STRIDE, R!Capacity
<1>2. R!Indices = 0 .. ROUTE_SIZE - 1
  BY DEF R!Indices, R!Limit
<1>3. ROUTE_SIZE \in Nat /\ ROUTE_SIZE >= 4 BY ServeAssumption
<1>4. ASSUME NEW i \in 0 .. 3 PROVE R!DimsNeeded(i) = 0 /\ i \div R!STRIDE = 0
  <2>1. i \div ROUTE_SIZE = 0 BY <1>3
  <2>2. \A d \in 0 .. 0 : d = 0 OBVIOUS
  <2>3. R!Fits(i, 0) BY <1>1, <1>3 DEF R!Fits
  <2>4. \E d \in 0 .. 0 : R!Fits(i, d) BY <2>3
  <2>5. R!DimsNeeded(i) = 0 BY <2>2, <2>4 DEF R!DimsNeeded
  <2>6. QED BY <1>1, <2>1, <2>5
<1>5. QED BY <1>1, <1>2, <1>3, <1>4

\* Iter_Add puts a step in the slot above max_idx and stands on it.
LEMMA RouteAdd ==
  ASSUME NEW x \in RouteType, NEW v \in Steps, NEW k \in 0 .. 3, k = x.max_idx + 1,
         x.slots[k] = NULL, NEW y, y = R!Iter_Add(x, v)
  PROVE  /\ y \in RouteType /\ 0 \in y.leaves
         /\ y.idx = k /\ y.max_idx = k /\ y.nvalues = x.nvalues + 1
         /\ y.value = v /\ y.slots[k] = v
         /\ \A i \in R!Indices : i # k => y.slots[i] = x.slots[i]
<1> DEFINE s == [x.slots EXCEPT ![k] = v]
           z == R!Store(x, k, v)
<1>0. /\ v \in StepOrNull /\ k \in Int /\ x.nvalues + 1 \in Int
      /\ x.leaves \union {0} \in SUBSET Int
  BY DEF StepOrNull, RouteType
<1>1. /\ s \in [R!Indices -> StepOrNull] /\ s[k] = v
      /\ \A i \in R!Indices : i # k => s[i] = x.slots[i]
  BY <1>0, RouteTables DEF RouteType
<1>2. R!Higher(x.dims, R!DimsNeeded(k)) = 0 /\ R!Higher(x.max_idx, k) = k
  BY RouteTables DEF R!Higher, RouteType
<1>3. x.leaves \union {k \div R!STRIDE} = x.leaves \union {0} BY RouteTables
<1>5. z = [x EXCEPT !.idx = k, !.value = v, !.nvalues = x.nvalues + 1, !.slots = s,
                    !.leaves = x.leaves \union {0}, !.dims = 0, !.max_idx = k]
  BY <1>2, <1>3 DEF R!Store, RouteType
<1> HIDE DEF z, s
<1>6. /\ z \in RouteType /\ z.idx = k /\ z.value = v /\ z.nvalues = x.nvalues + 1
      /\ z.slots = s /\ 0 \in z.leaves /\ z.max_idx = k
  <2>1. 0 \in x.leaves \union {0} OBVIOUS
  <2>2. QED BY <1>0, <1>1, <1>5, <2>1 DEF RouteType
<1>7. y = [z EXCEPT !.end = FALSE] BY DEF R!Iter_Add, z
<1>8. /\ y \in RouteType /\ y.idx = k /\ y.value = v /\ y.nvalues = x.nvalues + 1
      /\ y.slots = s /\ 0 \in y.leaves /\ y.max_idx = k
  BY <1>6, <1>7 DEF RouteType
<1>9. QED BY <1>1, <1>8

\* The first step of an empty route ...
LEMMA RouteFirst ==
  ASSUME NEW x, Cleared(x), NEW v \in Steps, NEW y, y = R!Iter_Add(x, v)
  PROVE  Stacked(y) /\ y.idx = 0 /\ y.slots[0] = v
<1> DEFINE k == 0
<1>1. /\ k \in R!Indices /\ x \in RouteType /\ k = x.max_idx + 1 /\ x.slots[k] = NULL
      /\ x.nvalues = 0 /\ k \in 0 .. 3
  BY RouteTables DEF Cleared
<1> HIDE DEF k
<1>2. /\ y \in RouteType /\ 0 \in y.leaves
      /\ y.idx = k /\ y.max_idx = k /\ y.nvalues = x.nvalues + 1
      /\ y.value = v /\ y.slots[k] = v
      /\ \A i \in R!Indices : i # k => y.slots[i] = x.slots[i]
  BY <1>1, RouteAdd
<1>3. \A i \in R!Indices : i > k => y.slots[i] = NULL
  BY <1>1, <1>2, RouteTables DEF Cleared
<1>4. y.nvalues = k + 1 /\ y.idx \in 0 .. 3 BY <1>1, <1>2 DEF k
<1>5. Stacked(y) BY <1>2, <1>3, <1>4 DEF Stacked
<1>6. QED BY <1>2, <1>5 DEF k

\* ... a step on top of others ...
LEMMA RoutePush ==
  ASSUME NEW x, Stacked(x), x.idx < 3, NEW v \in Steps, NEW y, y = R!Iter_Add(x, v)
  PROVE  /\ Stacked(y) /\ y.idx = x.idx + 1 /\ y.slots[y.idx] = v
         /\ \A i \in 0 .. x.idx : y.slots[i] = x.slots[i]
<1> DEFINE k == x.idx + 1
<1>1. /\ k \in 0 .. 3 /\ k \in R!Indices /\ k > x.idx /\ k = x.max_idx + 1
      /\ x \in RouteType /\ x.idx \in 0 .. 2 /\ x.nvalues = k
  BY RouteTables DEF Stacked
<1>2. x.slots[k] = NULL BY <1>1 DEF Stacked
<1>3. \A i \in R!Indices : i > k => i > x.idx
  BY <1>1, RouteTables
<1>4. \A i \in 0 .. x.idx : i \in R!Indices /\ i # k
  BY <1>1, RouteTables
<1>5. k = x.idx + 1 OBVIOUS
<1> HIDE DEF k
<1>6. /\ y \in RouteType /\ 0 \in y.leaves
      /\ y.idx = k /\ y.max_idx = k /\ y.nvalues = x.nvalues + 1
      /\ y.value = v /\ y.slots[k] = v
      /\ \A i \in R!Indices : i # k => y.slots[i] = x.slots[i]
  BY <1>1, <1>2, RouteAdd
<1>7. \A i \in R!Indices : i > k => y.slots[i] = NULL
  <2> SUFFICES ASSUME NEW i \in R!Indices, i > k PROVE y.slots[i] = NULL
    OBVIOUS
  <2>1. i > x.idx /\ i # k BY <1>1, <1>3
  <2>2. x.slots[i] = NULL BY <2>1 DEF Stacked
  <2>3. QED BY <1>6, <2>1, <2>2
<1>8. y.nvalues = k + 1 BY <1>1, <1>6
<1>9. Stacked(y) BY <1>1, <1>6, <1>7, <1>8 DEF Stacked
<1>10. \A i \in 0 .. x.idx : y.slots[i] = x.slots[i] BY <1>4, <1>6
<1>11. QED BY <1>5, <1>6, <1>9, <1>10

\* ... and a step taken off: the Iter is at END exactly when it was the last one.
LEMMA RoutePop ==
  ASSUME NEW x, Stacked(x), NEW y, y = R!Iter_Prev(R!Iter_Remove(x))
  PROVE  /\ y \in RouteType
         /\ x.idx = 0 => y.end /\ y.value = NULL
         /\ x.idx # 0 => /\ Stacked(y) /\ y.idx = x.idx - 1 /\ ~y.end
                         /\ \A i \in 0 .. y.idx : y.slots[i] = x.slots[i]
<1> DEFINE k == x.idx
           s == [x.slots EXCEPT ![k] = NULL]
           w == R!Iter_Remove(x)
<1>0. NULL \in StepOrNull /\ y = R!Iter_Prev(w) BY DEF StepOrNull
<1>1. /\ k \in 0 .. 3 /\ x.max_idx = k /\ x.nvalues = k + 1 /\ x \in RouteType
      /\ x.dims = 0 /\ 0 \in x.leaves
  BY DEF Stacked, RouteType
<1>2. R!Made(x, k)
  BY <1>1, RouteTables, ServeAssumption DEF R!Made
<1>3. s \in [R!Indices -> StepOrNull] BY <1>0, <1>1 DEF RouteType
<1>4. w = [x EXCEPT !.value = NULL, !.slots = s, !.nvalues = k, !.max_idx = k - 1]
  <2>1. x.nvalues - 1 = k /\ x.max_idx - 1 = k - 1 /\ x.max_idx = x.idx BY <1>1
  <2>2. w = [x EXCEPT !.value = NULL, !.slots = s, !.nvalues = x.nvalues - 1,
                      !.max_idx = x.max_idx - 1]
    BY <1>1, <1>2 DEF R!Iter_Remove, RouteType
  <2>3. QED BY <2>1, <2>2
<1>5. s[k] = NULL /\ \A i \in R!Indices : i # k => s[i] = x.slots[i]
  BY <1>1, RouteTables DEF RouteType
<1> HIDE DEF s, k, w
<1>6. /\ w \in RouteType /\ w.idx = k /\ w.max_idx = k - 1 /\ w.nvalues = k
      /\ w.slots = s /\ w.leaves = x.leaves /\ w.dims = 0 /\ w.value = NULL
      /\ w.processing \in BOOLEAN
  <2>1. x.idx = k BY DEF k
  <2>2. NULL \in StepOrNull /\ k \in Int /\ k - 1 \in Int BY <1>1 DEF StepOrNull
  <2>3. QED BY <1>1, <1>3, <1>4, <2>1, <2>2 DEF RouteType
<1>7. CASE k = 0
  <2>1. y \in RouteType /\ y.end /\ y.value = NULL
    <3>1. CASE w.processing
      <4>1. y = [w EXCEPT !.end = TRUE] BY <1>0, <1>6, <1>7, <3>1 DEF R!Iter_Prev
      <4>2. QED BY <1>0, <1>6, <4>1 DEF RouteType
    <3>2. CASE ~w.processing
      <4> DEFINE m == -1
                 u == [w EXCEPT !.idx = m, !.value = NULL]
      <4>1. y = [u EXCEPT !.end = TRUE]
        BY <1>0, <1>6, <1>7, <3>2 DEF R!Iter_Prev
      <4>2. m \in Int OBVIOUS
      <4> HIDE DEF m
      <4>2a. u \in RouteType /\ u.value = NULL BY <1>0, <1>6, <4>2 DEF RouteType
      <4> HIDE DEF u
      <4>3. QED BY <4>1, <4>2a DEF RouteType
    <3>3. QED BY <1>6, <3>1, <3>2
  <2>2. QED BY <1>7, <2>1 DEF k, w
<1>8. CASE k # 0
  <2>1. k \in 1 .. 3 /\ k - 1 \in 0 .. 3 /\ k - 1 \in R!Indices /\ k - 1 # k
    BY <1>1, <1>8, RouteTables
  <2>2. y \in RouteType /\ y.idx = k - 1 /\ y.max_idx = k - 1 /\ y.nvalues = k
        /\ y.slots = s /\ y.leaves = x.leaves /\ y.value = s[k - 1] /\ ~y.end
    <3>1. /\ s[k - 1] \in StepOrNull /\ k - 1 \in Int
          /\ w.nvalues # 0 /\ w.idx # 0
      BY <1>3, <1>6, <2>1
    <3>2. CASE w.processing
      <4> DEFINE u == R!StepDown(w)
      <4>1. y = [u EXCEPT !.end = FALSE] BY <1>0, <3>1, <3>2 DEF R!Iter_Prev
      <4>2. u = [w EXCEPT !.idx = k - 1, !.value = s[k - 1]]
        BY <1>6 DEF R!StepDown
      <4> HIDE DEF u
      <4>3. /\ u \in RouteType /\ u.idx = k - 1 /\ u.max_idx = k - 1 /\ u.nvalues = k
            /\ u.slots = s /\ u.leaves = x.leaves /\ u.value = s[k - 1]
        BY <1>6, <3>1, <4>2 DEF RouteType
      <4>4. QED BY <4>1, <4>3 DEF RouteType
    <3>3. CASE ~w.processing
      <4> DEFINE u == [w EXCEPT !.value = NULL]
                 f == R!Fetch(u, w.max_idx)
                 p == [f EXCEPT !.processing = TRUE]
      <4>1. y = [p EXCEPT !.end = FALSE] BY <1>0, <3>1, <3>3 DEF R!Iter_Prev
      <4>2. /\ u \in RouteType /\ u.slots = s /\ u.leaves = x.leaves /\ u.dims = 0
            /\ u.max_idx = k - 1 /\ u.nvalues = k
        BY <1>0, <1>6 DEF RouteType
      <4> HIDE DEF u
      <4>3. R!Made(u, k - 1)
        BY <1>1, <2>1, <4>2, RouteTables, ServeAssumption DEF R!Made
      <4>4. f = [u EXCEPT !.idx = k - 1, !.value = s[k - 1]]
        BY <1>6, <4>2, <4>3 DEF R!Fetch
      <4> HIDE DEF f
      <4>5. /\ f \in RouteType /\ f.idx = k - 1 /\ f.max_idx = k - 1 /\ f.nvalues = k
            /\ f.slots = s /\ f.leaves = x.leaves /\ f.value = s[k - 1]
        BY <3>1, <4>2, <4>4 DEF RouteType
      <4>6. /\ p \in RouteType /\ p.idx = k - 1 /\ p.max_idx = k - 1 /\ p.nvalues = k
            /\ p.slots = s /\ p.leaves = x.leaves /\ p.value = s[k - 1]
        BY <4>5 DEF RouteType
      <4> HIDE DEF p
      <4>7. QED BY <4>1, <4>6 DEF RouteType
    <3>4. QED BY <1>6, <3>2, <3>3
  <2>3. \A i \in R!Indices : i > k - 1 => s[i] = NULL
    <3>1. \A i \in R!Indices : i > k => x.slots[i] = NULL BY DEF Stacked, k
    <3>2. QED BY <1>5, <2>1, <3>1, RouteTables, ServeAssumption
  <2>4. Stacked(y) BY <1>1, <2>1, <2>2, <2>3 DEF Stacked
  <2>5. \A i \in 0 .. y.idx : y.slots[i] = x.slots[i]
    BY <1>5, <2>1, <2>2, RouteTables
  <2>6. QED BY <1>8, <2>2, <2>4, <2>5 DEF k, w
<1>9. QED BY <1>7, <1>8
-----------------------------------------------------------------------------
\* The steps of an HTTP request, from the bottom of its route to the top.
HttpRoute(x) ==
  /\ Stacked(x) /\ x.slots[0] = "write"
  /\ x.idx = 1 => x.slots[1] \in {"prepare", "retrieve", "stats"}
  /\ x.idx >= 2 => x.slots[1] = "prepare" /\ x.slots[2] = "read"
  /\ x.idx = 3 => x.slots[3] = "accept"

CmdRoute(x) == Stacked(x) /\ x.idx = 0 /\ x.slots[0] = "cmd"

\* The step on top of the route of an HTTP request tells how many are below it.
LEMMA StepTop ==
  ASSUME NEW x, HttpRoute(x)
  PROVE  /\ x \in RouteType /\ x.idx \in 0 .. 3 /\ x.value # NULL /\ x.value # "cmd"
         /\ x.value = "write" <=> x.idx = 0
         /\ x.value \in {"prepare", "retrieve", "stats"} <=> x.idx = 1
         /\ x.value = "read" <=> x.idx = 2
         /\ x.value = "accept" <=> x.idx = 3
<1>1. /\ x \in RouteType /\ x.idx \in 0 .. 3 /\ x.value = x.slots[x.idx]
  BY DEF HttpRoute, Stacked
<1>2. NULL \notin Steps BY ServeAssumption
<1>3. CASE x.idx = 0
  <2>1. x.value = "write" BY <1>1, <1>3 DEF HttpRoute
  <2>2. QED BY <1>1, <1>2, <1>3, <2>1 DEF Steps
<1>4. CASE x.idx = 1
  <2>1. x.value \in {"prepare", "retrieve", "stats"} BY <1>1, <1>4 DEF HttpRoute
  <2>2. QED BY <1>1, <1>2, <1>4, <2>1 DEF Steps
<1>5. CASE x.idx = 2
  <2>1. x.value = "read" BY <1>1, <1>5 DEF HttpRoute
  <2>2. QED BY <1>1, <1>2, <1>5, <2>1 DEF Steps
<1>6. CASE x.idx = 3
  <2>1. x.value = "accept" BY <1>1, <1>6 DEF HttpRoute
  <2>2. QED BY <1>1, <1>2, <1>6, <2>1 DEF Steps
<1>7. QED BY <1>1, <1>3, <1>4, <1>5, <1>6

\* What is left when a step of an HTTP request is done.
LEMMA HttpPop ==
  ASSUME NEW x, HttpRoute(x), NEW y, y = R!Iter_Prev(R!Iter_Remove(x))
  PROVE  /\ y \in RouteType
         /\ x.idx = 0 => y.end /\ y.value = NULL
         /\ x.idx # 0 => HttpRoute(y) /\ y.idx = x.idx - 1 /\ ~y.end
         /\ x.idx = 2 => y.value = "prepare"
<1>1. Stacked(x) /\ x.idx \in 0 .. 3 BY DEF HttpRoute, Stacked
<1>2. /\ y \in RouteType
      /\ x.idx = 0 => y.end /\ y.value = NULL
      /\ x.idx # 0 => /\ Stacked(y) /\ y.idx = x.idx - 1 /\ ~y.end
                      /\ \A i \in 0 .. y.idx : y.slots[i] = x.slots[i]
  BY <1>1, RoutePop
<1>3. CASE x.idx = 0 BY <1>2, <1>3
<1>4. CASE x.idx = 1 BY <1>2, <1>4 DEF HttpRoute
<1>5. CASE x.idx = 2
  <2>1. y.idx = 1 /\ y.slots[0] = "write" /\ y.slots[1] = "prepare" /\ Stacked(y)
    BY <1>2, <1>5 DEF HttpRoute
  <2>2. y.value = "prepare" BY <2>1 DEF Stacked
  <2>3. QED BY <1>2, <1>5, <2>1, <2>2 DEF HttpRoute
<1>6. CASE x.idx = 3
  <2>1. /\ y.idx = 2 /\ y.slots[0] = "write" /\ y.slots[1] = "prepare"
        /\ y.slots[2] = "read" /\ Stacked(y)
    BY <1>2, <1>6 DEF HttpRoute
  <2>2. QED BY <1>2, <1>6, <2>1 DEF HttpRoute
<1>7. QED BY <1>1, <1>3, <1>4, <1>5, <1>6

\* Serveneka_Prepare puts the step that answers on top of the write.
LEMMA HttpPush ==
  ASSUME NEW x, HttpRoute(x), x.idx = 0, NEW v \in {"retrieve", "stats"},
         NEW y, y = R!Iter_Add(x, v)
  PROVE  HttpRoute(y) /\ y.idx = 1 /\ y.value = v
<1>1. Stacked(x) /\ x.idx < 3 /\ v \in Steps BY DEF HttpRoute, Steps
<1>2. /\ Stacked(y) /\ y.idx = 1 /\ y.slots[1] = v /\ y.slots[0] = x.slots[0]
  BY <1>1, RoutePush
<1>3. QED BY <1>2 DEF HttpRoute, Stacked

\* A new Span is empty.
LEMMA SpanCleared == Cleared(R!Span_Make)
<1> DEFINE none == [i \in R!Indices |-> NULL]
           top == -1
<1>1. none \in [R!Indices -> StepOrNull] /\ NULL \in StepOrNull BY DEF StepOrNull
<1>2. top \in Int OBVIOUS
<1>3. R!Span_Make =
        [slots |-> none, leaves |-> {0}, nvalues |-> 0, max_idx |-> top, dims |-> 0,
         idx |-> 0, value |-> NULL, processing |-> FALSE, end |-> FALSE]
  BY DEF R!Span_Make
<1>4. \A i \in R!Indices : none[i] = NULL OBVIOUS
<1>5. top = -1 OBVIOUS
<1> HIDE DEF none, top
<1>6. R!Span_Make \in RouteType BY <1>1, <1>2, <1>3 DEF RouteType
<1>7. QED BY <1>3, <1>4, <1>5, <1>6 DEF Cleared

\* The routes requests are made with.
LEMMA RouteGood ==
  ASSUME NEW r
  PROVE  /\ r \in Files => CmdRoute(Route(r))
         /\ r \notin Files => HttpRoute(Route(r)) /\ Route(r).idx \in {2, 3}
<1> DEFINE a == R!Iter_Add(R!Span_Make, "write")
           b == R!Iter_Add(a, "prepare")
           c == R!Iter_Add(b, "read")
           d == R!Iter_Add(c, "accept")
           e == R!Iter_Add(R!Span_Make, "cmd")
<1>1. Route(r) = IF r \in Files THEN e ELSE IF r \in TlsConns THEN d ELSE c
  BY ServeAssumption DEF Route
<1>2. {"write", "prepare", "read", "accept", "cmd"} \subseteq Steps BY DEF Steps
<1> HIDE DEF d, e
<1>3. Stacked(e) /\ e.idx = 0 /\ e.slots[0] = "cmd" BY <1>2, SpanCleared, RouteFirst DEF e
<1>4. Stacked(a) /\ a.idx = 0 /\ a.slots[0] = "write" BY <1>2, SpanCleared, RouteFirst
<1> HIDE DEF a
<1>5. Stacked(b) /\ b.idx = 1 /\ b.slots[0] = "write" /\ b.slots[1] = "prepare"
  <2>1. /\ Stacked(b) /\ b.idx = a.idx + 1 /\ b.slots[b.idx] = "prepare"
        /\ \A i \in 0 .. a.idx : b.slots[i] = a.slots[i]
    BY <1>2, <1>4, RoutePush
  <2>2. QED BY <1>4, <2>1
<1> HIDE DEF b
<1>6. /\ Stacked(c) /\ c.idx = 2 /\ c.slots[0] = "write" /\ c.slots[1] = "prepare"
      /\ c.slots[2] = "read"
  <2>1. /\ Stacked(c) /\ c.idx = b.idx + 1 /\ c.slots[c.idx] = "read"
        /\ \A i \in 0 .. b.idx : c.slots[i] = b.slots[i]
    BY <1>2, <1>5, RoutePush
  <2>2. QED BY <1>5, <2>1
<1> HIDE DEF c
<1>7. /\ Stacked(d) /\ d.idx = 3 /\ d.slots[0] = "write" /\ d.slots[1] = "prepare"
      /\ d.slots[2] = "read" /\ d.slots[3] = "accept"
  <2>1. /\ Stacked(d) /\ d.idx = c.idx + 1 /\ d.slots[d.idx] = "accept"
        /\ \A i \in 0 .. c.idx : d.slots[i] = c.slots[i]
    BY <1>2, <1>6, RoutePush DEF d
  <2>2. QED BY <1>6, <2>1
<1>8. CmdRoute(e) BY <1>3 DEF CmdRoute
<1>9. HttpRoute(c) BY <1>6 DEF HttpRoute
<1>10. HttpRoute(d) BY <1>7 DEF HttpRoute
<1>11. QED BY <1>1, <1>6, <1>7, <1>8, <1>9, <1>10
-----------------------------------------------------------------------------
Flags == {"SUCCESS", "MORE", "ERROR", "NOOP", "END"}
Logged == Int \union {NULL}

ReqType ==
  [live : BOOLEAN, idx : Int, flags : SUBSET Flags, events : SUBSET {"in", "out"},
   route : RouteType, read : Nat, parser : {"ready", "ended"}, sent : Seq(Int),
   file : {"none", "open", "closed"}, logged : Logged]

\* What a handler leaves alone.
SameButRoute(e, q) ==
  /\ e.live = q.live /\ e.idx = q.idx /\ e.events = q.events /\ e.read = q.read
  /\ e.parser = q.parser /\ e.sent = q.sent /\ e.file = q.file /\ e.logged = q.logged

\* Req_StepHandled takes the step off, and says END when it was the last one.
LEMMA HandledEffect ==
  ASSUME NEW q \in ReqType, HttpRoute(q.route), NEW e, e = Req_StepHandled(q)
  PROVE  /\ e \in ReqType /\ SameButRoute(e, q)
         /\ q.route.idx = 0 => /\ e.route.value = NULL
                               /\ e.flags = q.flags \union {"SUCCESS", "END"}
         /\ q.route.idx # 0 => /\ HttpRoute(e.route) /\ e.route.idx = q.route.idx - 1
                               /\ e.flags = q.flags \union {"SUCCESS"}
         /\ q.route.idx = 2 => e.route.value = "prepare"
<1> DEFINE y == R!Iter_Prev(R!Iter_Remove(q.route))
           f == q.flags \union {"SUCCESS"} \union IF y.end THEN {"END"} ELSE {}
<1>1. e = [q EXCEPT !.route = y, !.flags = f] BY DEF Req_StepHandled
<1>2. /\ y \in RouteType
      /\ q.route.idx = 0 => y.end /\ y.value = NULL
      /\ q.route.idx # 0 => HttpRoute(y) /\ y.idx = q.route.idx - 1 /\ ~y.end
      /\ q.route.idx = 2 => y.value = "prepare"
  BY HttpPop
<1> HIDE DEF y
<1>3. f \in SUBSET Flags BY DEF ReqType, Flags
<1>4. /\ y.end => f = q.flags \union {"SUCCESS", "END"}
      /\ ~y.end => f = q.flags \union {"SUCCESS"}
  OBVIOUS
<1> HIDE DEF f
<1>5. e \in ReqType /\ e.route = y /\ e.flags = f /\ SameButRoute(e, q)
  BY <1>1, <1>2, <1>3 DEF ReqType, SameButRoute
<1>6. QED BY <1>2, <1>4, <1>5

\* Req_SetRoute adds the step that answers.
LEMMA SetRouteEffect ==
  ASSUME NEW q \in ReqType, HttpRoute(q.route), q.route.idx = 0,
         NEW v \in {"retrieve", "stats"}, NEW e, e = Req_SetRoute(q, v)
  PROVE  /\ e \in ReqType /\ SameButRoute(e, q) /\ e.flags = q.flags \union {"MORE"}
         /\ HttpRoute(e.route) /\ e.route.value = v
<1> DEFINE y == R!Iter_Add(q.route, v)
           f == q.flags \union {"MORE"}
<1>1. e = [q EXCEPT !.route = y, !.flags = f] BY DEF Req_SetRoute
<1>2. HttpRoute(y) /\ y.value = v BY HttpPush
<1>3. y \in RouteType BY <1>2 DEF HttpRoute, Stacked
<1>4. f \in SUBSET Flags BY DEF ReqType, Flags
<1> HIDE DEF y
<1>5. f = q.flags \union {"MORE"} OBVIOUS
<1> HIDE DEF f
<1>6. e \in ReqType /\ e.route = y /\ e.flags = f /\ SameButRoute(e, q)
  BY <1>1, <1>3, <1>4 DEF ReqType, SameButRoute
<1>7. QED BY <1>2, <1>5, <1>6

\* HttpReq_Error leaves a route with the write alone.
LEMMA ErrorEffect ==
  ASSUME NEW q \in ReqType, NEW e, e = HttpReq_Error(q)
  PROVE  /\ e \in ReqType /\ SameButRoute(e, q)
         /\ e.flags = (q.flags \ {"NOOP"}) \union {"ERROR", "MORE"}
         /\ HttpRoute(e.route) /\ e.route.idx = 0
<1> DEFINE none == [i \in DOMAIN q.route.slots |-> NULL]
           top == -1
           w == [q.route EXCEPT !.slots = none, !.nvalues = 0, !.max_idx = top]
           y == R!Iter_Add(w, "write")
           f == (q.flags \ {"NOOP"}) \union {"ERROR", "MORE"}
<1>1. e = [q EXCEPT !.flags = f, !.route = y] BY DEF HttpReq_Error
<1>2. q.route \in RouteType /\ DOMAIN q.route.slots = R!Indices BY DEF ReqType, RouteType
<1>3. none \in [R!Indices -> StepOrNull] /\ \A i \in R!Indices : none[i] = NULL
  BY <1>2 DEF StepOrNull
<1>4. top \in Int /\ top = -1 OBVIOUS
<1>5. f \in SUBSET Flags BY DEF ReqType, Flags
<1>6. f = (q.flags \ {"NOOP"}) \union {"ERROR", "MORE"} OBVIOUS
<1> HIDE DEF none, top, f, y, w
<1>7. w \in RouteType /\ w.slots = none /\ w.nvalues = 0 /\ w.max_idx = top
  <2> DEFINE x == q.route
  <2>1. x \in RouteType /\ 0 \in Int BY <1>2
  <2>2. w = [x EXCEPT !.slots = none, !.nvalues = 0, !.max_idx = top] BY DEF w
  <2> HIDE DEF x
  <2>3. QED BY <1>3, <1>4, <2>1, <2>2 DEF RouteType
<1>8. Cleared(w) BY <1>3, <1>4, <1>7 DEF Cleared
<1>9. "write" \in Steps BY DEF Steps
<1>10. Stacked(y) /\ y.idx = 0 /\ y.slots[0] = "write" BY <1>8, <1>9, RouteFirst DEF y
<1>11. HttpRoute(y) /\ y \in RouteType BY <1>10 DEF HttpRoute, Stacked
<1>12. e \in ReqType /\ e.route = y /\ e.flags = f /\ SameButRoute(e, q)
  BY <1>1, <1>5, <1>11 DEF ReqType, SameButRoute
<1>13. QED BY <1>6, <1>10, <1>11, <1>12
-----------------------------------------------------------------------------
\* An HTTP request between two steps, n being the pieces that make it whole.
ConnGood(q, n) ==
  /\ q.route.value # NULL =>
       HttpRoute(q.route) /\ "END" \notin q.flags /\ q.sent = <<>>
  /\ q.route.value \in {"write", "prepare", "retrieve", "stats"} => q.read = n
  /\ q.route.value = NULL =>
       /\ "END" \in q.flags
       /\ q.sent # <<>> => q.read = n /\ Len(q.sent) = 1
       /\ \/ "ERROR" \in q.flags /\ "NOOP" \notin q.flags
          \/ q.sent = <<Status(q.flags)>> /\ q.file # "open" /\ "MORE" \notin q.flags
  /\ q.logged # NULL => q.route.value = NULL /\ q.logged = Status(q.flags)

CmdGood(q) == CmdRoute(q.route) /\ "END" \notin q.flags

PeerType ==
  [at : {"away", "backlog", "open", "gone"}, ask : Asks \union {"file"}, arrived : Nat]

Pcs == {"setup", "poll", "accept", "pass", "step", "body", "after", "halted"}

SrvType ==
  [pc : Pcs, cur : Reqs \union {NULL}, port : Int, left : Int, fixed : Int]

Types == req \in [Reqs -> ReqType] /\ peer \in [Reqs -> PeerType] /\ srv \in SrvType

ReqsGood ==
  /\ \A f \in Files : CmdGood(req[f])
  /\ \A c \in Conns : ConnGood(req[c], Pieces(c))

Tracked ==
  /\ \A r \in Reqs : req[r].live => req[r].idx \in Q!Indices /\ it.slots[req[r].idx] = r
  /\ \A i \in Q!Occupied(it) : req[it.slots[i]].live

FixedAt == {i \in Q!Occupied(it) : it.slots[i] \in Files}
Counted == srv.fixed = Cardinality(FixedAt)

Alive ==
  \A r \in Reqs : req[r].live =>
    /\ req[r].logged = NULL
    /\ r \in Conns => peer[r].at \in {"open", "gone"}

OnPass ==
  /\ srv.pc \in {"step", "body", "after"} =>
       /\ srv.cur \in Reqs /\ req[srv.cur].live
       /\ pass /\ ~it.end /\ it.idx = req[srv.cur].idx
  /\ srv.pc \in {"setup", "poll", "accept"} => ~pass

AtStep ==
  /\ srv.pc = "body" => req[srv.cur].route.value = "read"
  /\ srv.pc = "step" /\ req[srv.cur].route.value = NULL => Failed(srv.cur)

Ending ==
  \A r \in Reqs : req[r].live /\ "END" \in req[r].flags =>
                     r = srv.cur /\ srv.pc \in {"step", "after", "halted"}

ServeInv ==
  /\ QP!QInv /\ Types /\ ReqsGood /\ Tracked /\ Counted /\ Alive
  /\ OnPass /\ AtStep /\ Ending
-----------------------------------------------------------------------------
\* Queue_Add fills one empty slot, whose index the request is told.
LEMMA AddQueue ==
  ASSUME QP!QInv, NEW a \in Reqs, Q!Queue_Add(a), NEW i,
         i = IF selected >= 0 THEN Q!ShelfTop ELSE it.max_idx + 1
  PROVE  /\ QP!QInv' /\ i \in Q!Indices /\ it.slots[i] = NULL
         /\ it'.slots = [it.slots EXCEPT ![i] = a]
         /\ it'.idx = it.idx /\ it'.end = it.end /\ pass' = pass
         /\ a \notin Q!Queued
<1>1. QP!TablesAssumption BY QueueAssumptions
<1>2. QP!ItemsAssumption BY QueueAssumptions
<1>3. QP!Queue_Add(a) BY SameAdd
<1>4. QP!QInv' BY <1>1, <1>2, <1>3, QP!AddInv
<1>5. PICK k \in QP!Indices :
        /\ it.slots[k] = NULL
        /\ QP!Queue_Set(k, a)
        /\ \/ selected >= 0 /\ k = QP!ShelfTop
           \/ selected < 0 /\ k = it.max_idx + 1
  BY <1>1, <1>2, <1>3, QP!AddPlace
<1>6. selected \in Int
  <2>1. QP!TypeOK BY DEF QP!QInv
  <2>2. QP!Limit \in Nat BY <1>1, <1>2, QP!CapacityBounds
  <2>3. QED BY <2>1, <2>2 DEF QP!TypeOK
<1>7. k = i BY <1>5, <1>6, SameParts
<1>8. /\ it'.slots = [it.slots EXCEPT ![k] = a]
      /\ it'.idx = it.idx /\ it'.end = it.end
  BY <1>1, <1>2, <1>5, QP!SetEffect DEF QP!QInv
<1>9. pass' = pass /\ a \notin Q!Queued BY DEF Q!Queue_Add
<1>10. QED BY <1>4, <1>5, <1>7, <1>8, <1>9, SameParts

\* Queue_Remove empties the slot it is given.
LEMMA RemoveQueue ==
  ASSUME QP!QInv, NEW i \in Q!Occupied(it), Q!Queue_Remove(i)
  PROVE  /\ QP!QInv' /\ pass' = pass
         /\ it'.slots = [it.slots EXCEPT ![i] = NULL]
<1>1. QP!TablesAssumption BY QueueAssumptions
<1>2. QP!ItemsAssumption BY QueueAssumptions
<1>3. QP!Queue_Remove(i) /\ i \in QP!Occupied(it) BY SameRemove, SameParts
<1>4. QP!QInv' BY <1>1, <1>2, <1>3, QP!RemoveInv
<1>5. it'.slots = [it.slots EXCEPT ![i] = NULL] BY <1>1, <1>2, <1>3, QP!RemoveEffect
<1>6. QED BY <1>4, <1>5 DEF Q!Queue_Remove

\* Queue_Next returns a queued request or ends the pass, and moves none.
LEMMA PassQueue ==
  ASSUME QP!QInv, NEW ready \in SUBSET Q!Queued, Q!NextAmong(ready)
  PROVE  /\ QP!QInv' /\ Q!Queue_Next
         /\ it'.slots = it.slots
         /\ pass' = ~it'.end /\ it'.end \in BOOLEAN
         /\ ~it'.end => it'.idx \in Q!Occupied(it) /\ it'.value = it.slots[it'.idx]
<1>1. QP!TablesAssumption BY QueueAssumptions
<1>2. QP!ItemsAssumption BY QueueAssumptions
<1>3. Q!Queue_Next BY DEF Q!Queue_Next
<1>4. QP!Queue_Next BY <1>3, SameNext
<1>5. QP!QInv' BY <1>1, <1>2, <1>4, QP!NextInv
<1>6. /\ it' \in QP!ReelType(QP!Slot) /\ it'.slots = it.slots /\ pass' = ~it'.end
      /\ ~it'.end => it'.idx \in QP!Occupied(it) /\ it'.value = it.slots[it'.idx]
  BY <1>1, <1>2, <1>4, QP!NextEffect
<1>7. it'.end \in BOOLEAN BY <1>6 DEF QP!ReelType
<1>8. QED BY <1>3, <1>5, <1>6, <1>7, SameParts

\* What the queue holds: requests, each in one slot, as many as nvalues says.
LEMMA QueueTypes ==
  ASSUME QP!QInv
  PROVE  /\ it.slots \in [Q!Indices -> Reqs \union {NULL}]
         /\ Q!Indices \subseteq Nat /\ IsFiniteSet(Q!Occupied(it))
         /\ it.nvalues = Cardinality(Q!Occupied(it))
         /\ \A i, j \in Q!Occupied(it) : it.slots[i] = it.slots[j] => i = j
<1>1. QP!TablesAssumption BY QueueAssumptions
<1>2. QP!ItemsAssumption BY QueueAssumptions
<1>3. QP!TypeOK /\ QP!CountExact /\ QP!Distinct BY DEF QP!QInv
<1>4. it \in QP!ReelType(Reqs \union {NULL}) BY <1>3 DEF QP!TypeOK
<1>5. it.slots \in [QP!Indices -> Reqs \union {NULL}] BY <1>4 DEF QP!ReelType
<1>6. IsFiniteSet(QP!Occupied(it)) BY <1>1, <1>2, SameCount, QP!FiniteOccupied
<1>7. QP!Indices \subseteq Nat
  <2>1. QP!Limit \in Nat BY <1>1, <1>2, QP!CapacityBounds
  <2>2. QED BY <2>1 DEF QP!Indices
<1>8. QED BY <1>3, <1>5, <1>6, <1>7, SameParts, SameCount DEF QP!CountExact, QP!Distinct

\* What leaves the queue alone keeps its invariant.
LEMMA QueueStill ==
  ASSUME QP!QInv, UNCHANGED qvars
  PROVE  QP!QInv' /\ it' = it /\ pass' = pass
<1>1. QP!TablesAssumption BY QueueAssumptions
<1>2. QP!ItemsAssumption BY QueueAssumptions
<1>3. UNCHANGED QP!vars BY DEF QP!vars, qvars
<1>4. QP!QInv' BY <1>1, <1>2, <1>3, QP!StepInv
<1>5. QED BY <1>4 DEF qvars

\* How many pieces make a request whole depends on what it asks for alone.
LEMMA SamePieces ==
  ASSUME NEW c, peer'[c].ask = peer[c].ask
  PROVE  Pieces(c)' = Pieces(c)
BY DEF Pieces, HeadAt, Handshake

\* A step that changes the current request and stays with it keeps the invariant.
LEMMA MoveInv ==
  ASSUME ServeInv, srv.pc \in {"step", "body"}, NEW c, c = srv.cur,
         NEW e \in ReqType, e.live, e.idx = req[c].idx, e.logged = NULL,
         c \in Files => CmdGood(e), c \in Conns => ConnGood(e, Pieces(c)),
         req' = [req EXCEPT ![c] = e],
         NEW x \in {"step", "body", "after"}, srv' = [srv EXCEPT !.pc = x],
         x = "body" => e.route.value = "read",
         x = "step" /\ e.route.value = NULL => "ERROR" \in e.flags /\ "NOOP" \notin e.flags,
         UNCHANGED <<qvars, peer>>
  PROVE  ServeInv'
<1>1. QP!QInv' /\ it' = it /\ pass' = pass BY QueueStill DEF ServeInv
<1>2. /\ c \in Reqs /\ req[c].live /\ pass /\ ~it.end /\ it.idx = req[c].idx
      /\ req \in [Reqs -> ReqType] /\ peer \in [Reqs -> PeerType] /\ srv \in SrvType
  BY DEF ServeInv, OnPass, Types
<1>3. /\ req' \in [Reqs -> ReqType] /\ req'[c] = e
      /\ \A r \in Reqs : r # c => req'[r] = req[r]
  BY <1>2
<1>4. srv' \in SrvType /\ srv'.cur = c /\ srv'.pc = x /\ srv'.fixed = srv.fixed
  BY <1>2 DEF SrvType, Pcs
<1>5. Types' BY <1>2, <1>3, <1>4 DEF Types
<1>6. ReqsGood'
  <2>1. \A d \in Conns : Pieces(d)' = Pieces(d) BY SamePieces
  <2>2. \A f \in Files : CmdGood(req'[f]) BY <1>3 DEF ServeInv, ReqsGood, Reqs
  <2>3. \A d \in Conns : ConnGood(req'[d], Pieces(d)) BY <1>3 DEF ServeInv, ReqsGood, Reqs
  <2>4. QED BY <2>1, <2>2, <2>3 DEF ReqsGood
<1>7. \A r \in Reqs : /\ req'[r].live <=> req[r].live
                       /\ req'[r].idx = req[r].idx
  BY <1>2, <1>3
<1>8. Tracked'
  <2>1. Q!Occupied(it)' = Q!Occupied(it) BY <1>1 DEF Q!Occupied
  <2>2. \A i \in Q!Occupied(it) : it.slots[i] \in Reqs
    BY QueueTypes DEF ServeInv, Q!Occupied
  <2>3. QED BY <1>1, <1>7, <2>1, <2>2 DEF ServeInv, Tracked
<1>9. Counted' BY <1>1, <1>4 DEF ServeInv, Counted, FixedAt, Q!Occupied
<1>10. Alive'
  <2>1. peer' = peer OBVIOUS
  <2>2. \A r \in Reqs : req[r].live => req'[r].logged = NULL
    BY <1>3 DEF ServeInv, Alive
  <2>3. QED BY <1>7, <2>1, <2>2 DEF ServeInv, Alive
<1>11. OnPass' BY <1>1, <1>2, <1>3, <1>4 DEF OnPass
<1>12. AtStep' BY <1>3, <1>4 DEF AtStep, Failed
<1>13. Ending'
  <2> SUFFICES ASSUME NEW r \in Reqs, req'[r].live, "END" \in req'[r].flags
               PROVE  r = srv'.cur /\ srv'.pc \in {"step", "after", "halted"}
    BY DEF Ending
  <2>1. CASE r = c
    <3>1. "END" \in e.flags BY <1>3, <2>1
    <3>2. e.route.value # "read"
      <4>1. CASE c \in Files BY <3>1, <4>1 DEF CmdGood
      <4>2. CASE c \in Conns
        <5>1. e.route.value = NULL BY <3>1, <4>2 DEF ConnGood
        <5>2. NULL # "read" BY ServeAssumption DEF Steps
        <5>3. QED BY <5>1, <5>2
      <4>3. QED BY <1>2, <4>1, <4>2 DEF Reqs
    <3>3. QED BY <1>4, <2>1, <3>2
  <2>2. CASE r # c
    <3>1. req[r].live /\ "END" \in req[r].flags BY <1>3, <2>2
    <3>2. r = srv.cur BY <3>1 DEF ServeInv, Ending
    <3>3. QED BY <2>2, <3>2
  <2>3. QED BY <2>1, <2>2
<1>14. QED BY <1>1, <1>5, <1>6, <1>8, <1>9, <1>10, <1>11, <1>12, <1>13 DEF ServeInv

\* What a step makes of the request: whatever it waits for next, it stays good.
Outcome(e) ==
  /\ e \in ReqType /\ e.live /\ e.idx = req[srv.cur].idx /\ e.logged = NULL
  /\ srv.cur \in Files => CmdGood(e)
  /\ srv.cur \in Conns => ConnGood(e, Pieces(srv.cur))

\* The end of a step, Req_Handle going on or not.
LEMMA RanInv ==
  ASSUME ServeInv, srv.pc \in {"step", "body"}, NEW e, Outcome(e), NEW w, Ran(e, w)
  PROVE  ServeInv'
<1> DEFINE c == srv.cur
           v == StepFlags(e.route.value)
           p == IF "SUCCESS" \in e.flags /\ "END" \notin e.flags
                THEN [e EXCEPT !.events = v] ELSE e
           again == "MORE" \in p.flags /\ ReqCrit_Func(c, p, w)
           x == IF again THEN "step" ELSE "after"
<1>1. /\ req' = [req EXCEPT ![c] = p] /\ srv' = [srv EXCEPT !.pc = x]
      /\ UNCHANGED <<qvars, peer>>
  BY DEF Ran
<1>2. v \in SUBSET {"in", "out"} BY DEF StepFlags
<1> HIDE DEF v
<1>3. /\ p \in ReqType /\ p.live = e.live /\ p.idx = e.idx /\ p.logged = e.logged
      /\ p.route = e.route /\ p.flags = e.flags /\ p.sent = e.sent /\ p.read = e.read
      /\ p.file = e.file
  BY <1>2 DEF Outcome, ReqType
<1>4. /\ c \in Files => CmdGood(p)
      /\ c \in Conns => ConnGood(p, Pieces(c))
  BY <1>3 DEF Outcome, CmdGood, ConnGood
<1>5. x = "step" => "MORE" \in p.flags BY Zenon
<1>6. x \in {"step", "body", "after"} /\ x # "body" OBVIOUS
<1> HIDE DEF p, x
<1>7. p.route.value = NULL /\ "MORE" \in p.flags =>
         "ERROR" \in p.flags /\ "NOOP" \notin p.flags
  <2>1. CASE c \in Files
    <3>1. p.route.value = "cmd" BY <1>4, <2>1 DEF CmdGood, CmdRoute, Stacked
    <3>2. NULL # "cmd" BY ServeAssumption DEF Steps
    <3>3. QED BY <3>1, <3>2
  <2>2. CASE c \in Conns BY <1>4, <2>2 DEF ConnGood
  <2>3. QED BY <2>1, <2>2 DEF ServeInv, OnPass, Reqs
<1>8. p.live /\ p.idx = req[c].idx /\ p.logged = NULL BY <1>3 DEF Outcome
<1> HIDE DEF c
<1>9. c = srv.cur BY DEF c
<1>10. QED BY <1>1, <1>3, <1>4, <1>5, <1>6, <1>7, <1>8, <1>9, MoveInv

-----------------------------------------------------------------------------
\* The request a step starts from, its last step's flags cleared.
LEMMA CurrentGood ==
  ASSUME ServeInv, srv.pc \in {"step", "body"}, NEW c, c = srv.cur, NEW q, q = Current
  PROVE  /\ c \in Reqs /\ q \in ReqType /\ SameButRoute(q, req[c])
         /\ q.route = req[c].route /\ q.flags = req[c].flags \ {"MORE", "SUCCESS"}
         /\ q.live /\ q.logged = NULL
         /\ c \in Conns => ConnGood(req[c], Pieces(c))
         /\ c \in Files => CmdGood(req[c])
         /\ srv.pc = "body" => req[c].route.value = "read"
<1>1. c \in Reqs /\ req[c].live BY DEF ServeInv, OnPass
<1>2. req[c] \in ReqType /\ req[c].logged = NULL BY <1>1 DEF ServeInv, Types, Alive
<1> DEFINE f == req[c].flags \ {"MORE", "SUCCESS"}
<1>3. q = [req[c] EXCEPT !.flags = f] BY DEF Current
<1>4. f \in SUBSET Flags BY <1>2 DEF ReqType
<1>5. q \in ReqType /\ SameButRoute(q, req[c]) /\ q.route = req[c].route /\ q.flags = f
  BY <1>2, <1>3, <1>4 DEF ReqType, SameButRoute
<1>6. q.live /\ q.logged = NULL BY <1>1, <1>2, <1>5 DEF SameButRoute
<1>7. QED BY <1>1, <1>5, <1>6 DEF ServeInv, ReqsGood, AtStep

\* The value of the running step tells a connection and where its route stands.
LEMMA RunningConn ==
  ASSUME ServeInv, srv.pc \in {"step", "body"}, NEW c, c = srv.cur,
         NEW v \in Steps \ {"cmd"}, req[c].route.value = v
  PROVE  /\ c \in Conns /\ c \notin Files
         /\ HttpRoute(req[c].route) /\ "END" \notin req[c].flags /\ req[c].sent = <<>>
         /\ v \in {"write", "prepare", "retrieve", "stats"} => req[c].read = Pieces(c)
         /\ v = "write" => req[c].route.idx = 0
         /\ v \in {"prepare", "retrieve", "stats"} => req[c].route.idx = 1
         /\ v = "read" => req[c].route.idx = 2
         /\ v = "accept" => req[c].route.idx = 3
<1>1. c \in Reqs BY DEF ServeInv, OnPass
<1>2. c \notin Files
  <2> SUFFICES ASSUME c \in Files PROVE FALSE
    OBVIOUS
  <2>1. req[c].route.value = "cmd"
    BY DEF ServeInv, ReqsGood, CmdGood, CmdRoute, Stacked
  <2>2. QED BY <2>1
<1>3. c \in Conns /\ ConnGood(req[c], Pieces(c)) BY <1>1, <1>2 DEF Reqs, ServeInv, ReqsGood
<1>4. v # NULL BY ServeAssumption
<1>5. HttpRoute(req[c].route) /\ "END" \notin req[c].flags /\ req[c].sent = <<>>
  BY <1>3, <1>4 DEF ConnGood
<1>6. v \in {"write", "prepare", "retrieve", "stats"} => req[c].read = Pieces(c)
  BY <1>3 DEF ConnGood
<1>7. QED BY <1>2, <1>3, <1>5, <1>6, StepTop

\* A command read keeps the invariant.
LEMMA CmdInv == ASSUME ServeInv, CmdFile_HandleInput PROVE ServeInv'
<1> DEFINE c == srv.cur
           q == Current
           e == [q EXCEPT !.read = peer[c].arrived]
<1>1. srv.pc = "step" /\ req[c].route.value = "cmd" /\ Ran(e, TRUE)
  BY DEF CmdFile_HandleInput, Running
<1>2. /\ c \in Reqs /\ q \in ReqType /\ SameButRoute(q, req[c])
      /\ q.route = req[c].route /\ q.flags = req[c].flags \ {"MORE", "SUCCESS"}
      /\ q.live /\ q.logged = NULL
      /\ c \in Conns => ConnGood(req[c], Pieces(c))
      /\ c \in Files => CmdGood(req[c])
  BY <1>1, CurrentGood
<1> HIDE DEF q
<1>3. peer[c].arrived \in Nat BY <1>2 DEF ServeInv, Types, PeerType
<1>4. /\ e \in ReqType /\ e.live = q.live /\ e.idx = q.idx /\ e.logged = q.logged
      /\ e.route = q.route /\ e.flags = q.flags
  BY <1>2, <1>3 DEF ReqType
<1> HIDE DEF e
<1>5. c \notin Conns
  <2> SUFFICES ASSUME c \in Conns PROVE FALSE
    OBVIOUS
  <2>1. NULL # "cmd" BY ServeAssumption DEF Steps
  <2>2. HttpRoute(req[c].route) BY <1>1, <1>2, <2>1 DEF ConnGood
  <2>3. QED BY <1>1, <2>2, StepTop
<1>6. Outcome(e)
  <2>1. c \in Files => CmdGood(e) BY <1>2, <1>4 DEF CmdGood
  <2>2. QED BY <1>2, <1>4, <1>5, <2>1 DEF Outcome, SameButRoute
<1>7. QED BY <1>1, <1>6, RanInv

\* A step that ends with the route where it was: an outcome as good as the request was.
LEMMA StaysGood ==
  ASSUME ServeInv, srv.pc \in {"step", "body"}, NEW c, c = srv.cur,
         NEW v \in Steps \ {"cmd"}, req[c].route.value = v,
         NEW e \in ReqType, e.live, e.idx = req[c].idx, e.logged = NULL,
         e.route = req[c].route, e.sent = <<>>, "END" \notin e.flags,
         v \in {"write", "prepare", "retrieve", "stats"} => e.read = Pieces(c)
  PROVE  Outcome(e)
<1>1. c \in Conns /\ c \notin Files /\ HttpRoute(req[c].route) BY RunningConn
<1>2. v # NULL BY ServeAssumption
<1>3. ConnGood(e, Pieces(c)) BY <1>1, <1>2 DEF ConnGood
<1>4. QED BY <1>1, <1>3 DEF Outcome

\* A step that was handled, and was not the last.
LEMMA HandledGood ==
  ASSUME ServeInv, srv.pc \in {"step", "body"}, NEW c, c = srv.cur, c \in Conns,
         NEW q \in ReqType, HttpRoute(q.route), q.route.idx # 0,
         q.live, q.idx = req[c].idx, q.logged = NULL, q.sent = <<>>, "END" \notin q.flags,
         q.route.idx # 3 => q.read = Pieces(c),
         NEW e, e = Req_StepHandled(q)
  PROVE  Outcome(e) /\ HttpRoute(e.route) /\ e.route.idx = q.route.idx - 1
         /\ "END" \notin e.flags
<1>1. /\ e \in ReqType /\ SameButRoute(e, q) /\ HttpRoute(e.route)
      /\ e.route.idx = q.route.idx - 1 /\ e.flags = q.flags \union {"SUCCESS"}
  BY HandledEffect
<1>2. q.route.idx \in 0 .. 3 BY StepTop
<1>3. "END" \notin e.flags BY <1>1
<1>4. e.route.value # NULL BY <1>1, StepTop
<1>5. e.route.value \in {"write", "prepare", "retrieve", "stats"} => e.route.idx \in {0, 1}
  BY <1>1, StepTop
<1>6. e.route.idx \in {0, 1} => e.read = Pieces(c)
  BY <1>1, <1>2 DEF SameButRoute
<1>7. ConnGood(e, Pieces(c)) BY <1>1, <1>3, <1>4, <1>5, <1>6 DEF ConnGood, SameButRoute
<1>8. c \notin Files BY ServeAssumption
<1>9. QED BY <1>1, <1>3, <1>7, <1>8 DEF Outcome, SameButRoute

\* An Error and the end of its step leave the request failed, its route empty.
LEMMA FailedGood ==
  ASSUME ServeInv, srv.pc \in {"step", "body"}, NEW c, c = srv.cur, c \in Conns,
         NEW q \in ReqType, HttpRoute(q.route), q.route.idx = 0,
         q.live, q.idx = req[c].idx, q.logged = NULL,
         "ERROR" \in q.flags, "NOOP" \notin q.flags,
         q.sent # <<>> => q.read = Pieces(c) /\ Len(q.sent) = 1,
         NEW e, e = Req_StepHandled(q)
  PROVE  Outcome(e)
<1>1. /\ e \in ReqType /\ SameButRoute(e, q) /\ e.route.value = NULL
      /\ e.flags = q.flags \union {"SUCCESS", "END"}
  BY HandledEffect
<1>2. NULL \notin Steps /\ c \notin Files BY ServeAssumption
<1>3. "END" \in e.flags /\ "ERROR" \in e.flags /\ "NOOP" \notin e.flags BY <1>1
<1>4. NULL \notin {"write", "prepare", "retrieve", "stats"} BY <1>2 DEF Steps
<1>5. /\ e.logged = NULL /\ e.live /\ e.idx = q.idx
      /\ e.sent # <<>> => e.read = Pieces(c) /\ Len(e.sent) = 1
  BY <1>1 DEF SameButRoute
<1>6. ConnGood(e, Pieces(c)) BY <1>1, <1>3, <1>4, <1>5 DEF ConnGood
<1>7. QED BY <1>1, <1>2, <1>5, <1>6 DEF Outcome

\* The handshake of TLS keeps the invariant.
LEMMA AcceptInv == ASSUME ServeInv, HttpReq_TlsAccept PROVE ServeInv'
<1> DEFINE c == srv.cur
           q == Current
           r == [q EXCEPT !.read = 1]
           e == Req_StepHandled(r)
<1>1. /\ srv.pc = "step" /\ req[c].route.value = "accept" /\ "accept" \in Steps \ {"cmd"}
      /\ Ran(q, TRUE) \/ Ran(e, TRUE)
  BY DEF HttpReq_TlsAccept, Running, Steps
<1>2. /\ c \in Conns /\ HttpRoute(req[c].route) /\ req[c].route.idx = 3
      /\ "END" \notin req[c].flags /\ req[c].sent = <<>>
  BY <1>1, RunningConn
<1>3. /\ q \in ReqType /\ SameButRoute(q, req[c]) /\ q.route = req[c].route
      /\ q.flags = req[c].flags \ {"MORE", "SUCCESS"} /\ q.live /\ q.logged = NULL
  BY <1>1, CurrentGood
<1>4. q.idx = req[c].idx /\ q.sent = <<>> /\ "END" \notin q.flags
  BY <1>2, <1>3 DEF SameButRoute
<1> HIDE DEF q
<1>5. /\ r \in ReqType /\ r.route = q.route /\ r.flags = q.flags /\ r.live = q.live
      /\ r.idx = q.idx /\ r.logged = q.logged /\ r.sent = q.sent
  BY <1>3 DEF ReqType
<1> HIDE DEF r
<1>6. CASE Ran(q, TRUE)
  <2>1. Outcome(q) BY <1>1, <1>2, <1>3, <1>4, StaysGood
  <2>2. QED BY <1>1, <1>6, <2>1, RanInv
<1>7. CASE Ran(e, TRUE)
  <2>1. /\ r.live /\ r.idx = req[c].idx /\ r.logged = NULL /\ r.sent = <<>>
        /\ "END" \notin r.flags /\ HttpRoute(r.route) /\ r.route.idx = 3
        /\ r.route.idx # 0
    BY <1>2, <1>3, <1>4, <1>5
  <2> HIDE DEF c
  <2>2. Outcome(e) BY <1>1, <1>2, <1>5, <2>1, HandledGood DEF c
  <2>3. QED BY <1>1, <1>7, <2>2, RanInv
<1>8. QED BY <1>1, <1>6, <1>7

\* HttpReq_ParseBody on the request as it was read so far.
LEMMA BodyInv ==
  ASSUME ServeInv, srv.pc \in {"step", "body"}, NEW c, c = srv.cur,
         req[c].route.value = "read",
         NEW q \in ReqType, q.route = req[c].route, q.live, q.idx = req[c].idx,
         q.logged = NULL, q.sent = <<>>, "END" \notin q.flags,
         HttpReq_ParseBody(q)
  PROVE  ServeInv'
<1> DEFINE f == HttpReq_Error(q)
           g == Req_StepHandled(f)
           e == Req_StepHandled(q)
<1>1. /\ c \in Conns /\ c \notin Files /\ HttpRoute(q.route) /\ q.route.idx = 2
      /\ "read" \in Steps \ {"cmd"}
  <2>1. "read" \in Steps \ {"cmd"} BY DEF Steps
  <2>2. QED BY <2>1, RunningConn
<1>2. \/ Ran(g, TRUE)
      \/ q.read = Pieces(c) /\ Ran(e, TRUE)
      \/ /\ req' = [req EXCEPT ![c] = q]
         /\ srv' = [srv EXCEPT !.pc = "body"]
         /\ UNCHANGED <<qvars, peer>>
  BY DEF HttpReq_ParseBody
<1>3. CASE Ran(g, TRUE)
  <2>1. /\ f \in ReqType /\ SameButRoute(f, q) /\ HttpRoute(f.route) /\ f.route.idx = 0
        /\ f.flags = (q.flags \ {"NOOP"}) \union {"ERROR", "MORE"}
    BY ErrorEffect
  <2> HIDE DEF f
  <2>2. /\ "ERROR" \in f.flags /\ "NOOP" \notin f.flags /\ f.sent = <<>>
        /\ f.live /\ f.idx = req[c].idx /\ f.logged = NULL
    BY <2>1 DEF SameButRoute
  <2>3. Outcome(g) BY <1>1, <2>1, <2>2, FailedGood
  <2>4. QED BY <1>3, <2>3, RanInv
<1>4. CASE q.read = Pieces(c) /\ Ran(e, TRUE)
  <2>1. Outcome(e) BY <1>1, <1>4, HandledGood
  <2>2. QED BY <1>4, <2>1, RanInv
<1>5. CASE /\ req' = [req EXCEPT ![c] = q]
           /\ srv' = [srv EXCEPT !.pc = "body"]
           /\ UNCHANGED <<qvars, peer>>
  <2>1. Outcome(q) BY <1>1, StaysGood
  <2>2. ConnGood(q, Pieces(c)) BY <1>1, <2>1 DEF Outcome
  <2>3. QED BY <1>1, <1>5, <2>2, MoveInv
<1>6. QED BY <1>2, <1>3, <1>4, <1>5

\* Reading and parsing the head keeps the invariant.
LEMMA ReadInv == ASSUME ServeInv, HttpReq_ReadToRbl PROVE ServeInv'
<1> DEFINE c == srv.cur
<1>1. PICK n \in Current.read .. peer[c].arrived :
        LET q   == [Current EXCEPT !.read = n]
            ran == n > Current.read \/ c \in TlsConns
        IN  IF ~ran \/ q.parser = "ended" THEN Ran(q, TRUE)
            ELSE IF n < HeadAt(c) THEN Ran([q EXCEPT !.parser = "ended"], TRUE)
            ELSE IF Asked = "malformed"
            THEN Ran([q EXCEPT !.flags = @ \union {"ERROR"}], TRUE)
            ELSE HttpReq_ParseBody(q)
  BY DEF HttpReq_ReadToRbl
<1> DEFINE p == Current
           q == [p EXCEPT !.read = n]
           ended == [q EXCEPT !.parser = "ended"]
           f == q.flags \union {"ERROR"}
           failed == [q EXCEPT !.flags = f]
<1>2. Ran(q, TRUE) \/ Ran(ended, TRUE) \/ Ran(failed, TRUE) \/ HttpReq_ParseBody(q)
  BY <1>1, Zenon
<1>3. srv.pc = "step" /\ req[c].route.value = "read" /\ "read" \in Steps \ {"cmd"}
  BY DEF HttpReq_ReadToRbl, Running, Steps
<1>4. /\ c \in Conns /\ HttpRoute(req[c].route)
      /\ "END" \notin req[c].flags /\ req[c].sent = <<>>
  BY <1>3, RunningConn
<1>5. /\ p \in ReqType /\ SameButRoute(p, req[c]) /\ p.route = req[c].route
      /\ p.flags = req[c].flags \ {"MORE", "SUCCESS"} /\ p.live /\ p.logged = NULL
  BY <1>3, CurrentGood
<1>6. /\ p.idx = req[c].idx /\ p.sent = <<>> /\ "END" \notin p.flags
      /\ p.read \in Nat /\ n \in Nat
  <2>1. p.read \in Nat BY <1>5 DEF ReqType
  <2>2. n \in Nat BY <1>1, <2>1
  <2>3. QED BY <1>4, <1>5, <2>1, <2>2 DEF SameButRoute
<1> HIDE DEF p, c
<1>7. /\ q \in ReqType /\ q.route = p.route /\ q.flags = p.flags /\ q.live = p.live
      /\ q.idx = p.idx /\ q.logged = p.logged /\ q.sent = p.sent
  BY <1>5, <1>6 DEF ReqType
<1> HIDE DEF q
<1>8. f \in SUBSET Flags /\ "END" \notin f BY <1>6, <1>7 DEF ReqType, Flags
<1> HIDE DEF f
<1>9. /\ ended \in ReqType /\ ended.route = q.route /\ ended.flags = q.flags
      /\ ended.live = q.live /\ ended.idx = q.idx /\ ended.logged = q.logged
      /\ ended.sent = q.sent
  BY <1>7 DEF ReqType
<1>10. /\ failed \in ReqType /\ failed.route = q.route /\ failed.flags = f
       /\ failed.live = q.live /\ failed.idx = q.idx /\ failed.logged = q.logged
       /\ failed.sent = q.sent
  BY <1>7, <1>8 DEF ReqType
<1> HIDE DEF ended, failed
<1>11. c = srv.cur BY DEF c
<1>12. CASE Ran(q, TRUE)
  <2>1. Outcome(q)
    <3>1. /\ ServeInv /\ srv.pc \in {"step", "body"} /\ c = srv.cur
          /\ "read" \in Steps \ {"cmd"} /\ req[c].route.value = "read"
      BY <1>3, <1>11
    <3>2. /\ q \in ReqType /\ q.live /\ q.idx = req[c].idx /\ q.logged = NULL
          /\ q.route = req[c].route /\ q.sent = <<>> /\ "END" \notin q.flags
      BY <1>5, <1>6, <1>7
    <3>3. "read" \in {"write", "prepare", "retrieve", "stats"} => q.read = Pieces(c)
      OBVIOUS
    <3>4. QED BY ONLY <3>1, <3>2, <3>3, StaysGood
  <2>2. QED BY <1>3, <1>12, <2>1, RanInv
<1>13. CASE Ran(ended, TRUE)
  <2>1. /\ ended.live /\ ended.idx = req[c].idx /\ ended.logged = NULL
        /\ ended.sent = <<>> /\ "END" \notin ended.flags /\ ended.route = req[c].route
    BY <1>5, <1>6, <1>7, <1>9
  <2>2. Outcome(ended) BY <1>3, <1>9, <1>11, <2>1, StaysGood
  <2>3. QED BY <1>3, <1>13, <2>2, RanInv
<1>14. CASE Ran(failed, TRUE)
  <2>1. /\ failed.live /\ failed.idx = req[c].idx /\ failed.logged = NULL
        /\ failed.sent = <<>> /\ "END" \notin failed.flags /\ failed.route = req[c].route
    BY <1>5, <1>6, <1>7, <1>8, <1>10
  <2>2. Outcome(failed) BY <1>3, <1>10, <1>11, <2>1, StaysGood
  <2>3. QED BY <1>3, <1>14, <2>2, RanInv
<1>15. CASE HttpReq_ParseBody(q)
  BY <1>3, <1>5, <1>6, <1>7, <1>11, <1>15, BodyInv
<1>16. QED BY <1>2, <1>12, <1>13, <1>14, <1>15

\* The rest of a body keeps the invariant.
LEMMA BodyArrivesInv == ASSUME ServeInv, BodyArrives PROVE ServeInv'
<1> DEFINE c == srv.cur
           p == Current
           n == peer[c].arrived
           q == [p EXCEPT !.read = n]
<1>1. srv.pc = "body" /\ HttpReq_ParseBody(q) BY DEF BodyArrives
<1>2. /\ c \in Reqs /\ p \in ReqType /\ SameButRoute(p, req[c]) /\ p.route = req[c].route
      /\ p.flags = req[c].flags \ {"MORE", "SUCCESS"} /\ p.live /\ p.logged = NULL
      /\ req[c].route.value = "read" /\ "read" \in Steps \ {"cmd"}
  <2>1. "read" \in Steps \ {"cmd"} BY DEF Steps
  <2>2. QED BY <1>1, <2>1, CurrentGood
<1>3. "END" \notin req[c].flags /\ req[c].sent = <<>> BY <1>1, <1>2, RunningConn
<1>4. n \in Nat BY <1>2 DEF ServeInv, Types, PeerType
<1>5. p.idx = req[c].idx /\ p.sent = <<>> /\ "END" \notin p.flags
  BY <1>2, <1>3 DEF SameButRoute
<1> HIDE DEF p, n
<1>6. /\ q \in ReqType /\ q.route = p.route /\ q.flags = p.flags /\ q.live = p.live
      /\ q.idx = p.idx /\ q.logged = p.logged /\ q.sent = p.sent
  BY <1>2, <1>4 DEF ReqType
<1> HIDE DEF q
<1>7. QED BY <1>1, <1>2, <1>5, <1>6, BodyInv

\* Choosing the step that answers keeps the invariant.
LEMMA PrepareInv == ASSUME ServeInv, Serveneka_Prepare PROVE ServeInv'
<1> DEFINE c == srv.cur
           q == Current
           h == Req_StepHandled(q)
           v == IF Asked = "stats" THEN "stats" ELSE "retrieve"
           e == Req_SetRoute(h, v)
<1>1. /\ srv.pc = "step" /\ req[c].route.value = "prepare" /\ "prepare" \in Steps \ {"cmd"}
      /\ Ran(e, TRUE)
  BY DEF Serveneka_Prepare, Running, Steps
<1>2. /\ c \in Conns /\ HttpRoute(req[c].route) /\ req[c].route.idx = 1
      /\ "END" \notin req[c].flags /\ req[c].sent = <<>> /\ req[c].read = Pieces(c)
  BY <1>1, RunningConn
<1>3. /\ q \in ReqType /\ SameButRoute(q, req[c]) /\ q.route = req[c].route
      /\ q.flags = req[c].flags \ {"MORE", "SUCCESS"} /\ q.live /\ q.logged = NULL
  BY <1>1, CurrentGood
<1>4. q.idx = req[c].idx /\ q.sent = <<>> /\ "END" \notin q.flags /\ q.read = Pieces(c)
  BY <1>2, <1>3 DEF SameButRoute
<1>5. v \in {"retrieve", "stats"} OBVIOUS
<1> HIDE DEF q, v
<1>6. /\ h \in ReqType /\ SameButRoute(h, q) /\ HttpRoute(h.route) /\ h.route.idx = 0
      /\ h.flags = q.flags \union {"SUCCESS"}
  BY <1>2, <1>3, HandledEffect
<1> HIDE DEF h
<1>7. /\ e \in ReqType /\ SameButRoute(e, h) /\ e.flags = h.flags \union {"MORE"}
      /\ HttpRoute(e.route) /\ e.route.value = v
  BY <1>5, <1>6, SetRouteEffect
<1> HIDE DEF e
<1>8. /\ e.live /\ e.idx = req[c].idx /\ e.logged = NULL /\ e.sent = <<>>
      /\ e.read = Pieces(c) /\ "END" \notin e.flags
  BY <1>3, <1>4, <1>6, <1>7 DEF SameButRoute
<1>9. e.route.value # NULL /\ c \notin Files BY <1>2, <1>7, StepTop, ServeAssumption
<1>10. ConnGood(e, Pieces(c)) BY <1>7, <1>8, <1>9 DEF ConnGood
<1>11. Outcome(e) BY <1>2, <1>7, <1>8, <1>9, <1>10 DEF Outcome
<1>12. QED BY <1>1, <1>11, RanInv

\* A request for stats, which stays as it is, keeps the invariant.
LEMMA StatsInv == ASSUME ServeInv, HttpReq_Stats PROVE ServeInv'
<1> DEFINE c == srv.cur
           q == Current
<1>1. /\ srv.pc = "step" /\ req[c].route.value = "stats" /\ "stats" \in Steps \ {"cmd"}
      /\ Ran(q, TRUE)
  BY DEF HttpReq_Stats, Running, Steps
<1>2. "END" \notin req[c].flags /\ req[c].sent = <<>> /\ req[c].read = Pieces(c)
  BY <1>1, RunningConn
<1>3. /\ q \in ReqType /\ SameButRoute(q, req[c]) /\ q.route = req[c].route
      /\ q.flags = req[c].flags \ {"MORE", "SUCCESS"} /\ q.live /\ q.logged = NULL
  BY <1>1, CurrentGood
<1> HIDE DEF q
<1>4. q.idx = req[c].idx /\ q.sent = <<>> /\ "END" \notin q.flags /\ q.read = Pieces(c)
  BY <1>2, <1>3 DEF SameButRoute
<1>5. Outcome(q) BY <1>1, <1>3, <1>4, StaysGood
<1>6. QED BY <1>1, <1>5, RanInv

\* Opening the file keeps the invariant, whatever is found.
LEMMA RetrieveInv == ASSUME ServeInv, HttpStatic_RetrieveFile PROVE ServeInv'
<1> DEFINE c == srv.cur
           q == Current
           f1 == q.flags \union {"NOOP", "ERROR"}
           f2 == q.flags \union {"NOOP"}
           m == [q EXCEPT !.flags = f1]
           k == [q EXCEPT !.flags = f2, !.file = "closed"]
           h == HttpReq_Error(q)
           u == [h EXCEPT !.file = "open"]
           o == [q EXCEPT !.file = "open"]
<1>1. /\ srv.pc = "step" /\ req[c].route.value = "retrieve" /\ "retrieve" \in Steps \ {"cmd"}
      /\ \/ Ran(Req_StepHandled(m), TRUE) \/ Ran(Req_StepHandled(k), TRUE)
         \/ Ran(Req_StepHandled(u), TRUE) \/ Ran(Req_StepHandled(o), TRUE)
  <2>1. \/ Ran(Req_StepHandled(m), TRUE) \/ Ran(Req_StepHandled(k), TRUE)
        \/ Ran(Req_StepHandled(u), TRUE) \/ Ran(Req_StepHandled(o), TRUE)
    <3>1. CASE Asked = "missing" BY <3>1 DEF HttpStatic_RetrieveFile
    <3>2. CASE Asked = "cached" BY <3>2 DEF HttpStatic_RetrieveFile
    <3>3. CASE Asked = "unreadable" BY <3>3 DEF HttpStatic_RetrieveFile
    <3>4. CASE Asked \notin {"missing", "cached", "unreadable"}
      BY <3>4 DEF HttpStatic_RetrieveFile
    <3>5. QED BY <3>1, <3>2, <3>3, <3>4
  <2>2. QED BY <2>1 DEF HttpStatic_RetrieveFile, Running, Steps
<1>2. /\ c \in Conns /\ HttpRoute(req[c].route) /\ req[c].route.idx = 1
      /\ "END" \notin req[c].flags /\ req[c].sent = <<>> /\ req[c].read = Pieces(c)
  BY <1>1, RunningConn
<1>3. /\ q \in ReqType /\ SameButRoute(q, req[c]) /\ q.route = req[c].route
      /\ q.flags = req[c].flags \ {"MORE", "SUCCESS"} /\ q.live /\ q.logged = NULL
  BY <1>1, CurrentGood
<1>4. /\ q.idx = req[c].idx /\ q.sent = <<>> /\ "END" \notin q.flags /\ q.read = Pieces(c)
      /\ HttpRoute(q.route) /\ q.route.idx = 1
  BY <1>2, <1>3 DEF SameButRoute
<1> HIDE DEF q
<1>5. /\ f1 \in SUBSET Flags /\ "END" \notin f1
      /\ f2 \in SUBSET Flags /\ "END" \notin f2
  BY <1>3, <1>4 DEF ReqType, Flags
<1> HIDE DEF f1, f2
<1>6. c = srv.cur OBVIOUS
<1> HIDE DEF c
<1> DEFINE Handled(r) ==
             /\ r \in ReqType /\ HttpRoute(r.route) /\ r.route.idx = 1 /\ r.live
             /\ r.idx = req[c].idx /\ r.logged = NULL /\ r.sent = <<>>
             /\ "END" \notin r.flags /\ r.read = Pieces(c)
<1>7. ASSUME NEW r, Handled(r), Ran(Req_StepHandled(r), TRUE) PROVE ServeInv'
  <2>1. r.route.idx # 0 BY <1>7
  <2>2. Outcome(Req_StepHandled(r)) BY <1>1, <1>2, <1>6, <1>7, <2>1, HandledGood
  <2>3. QED BY <1>1, <1>7, <2>2, RanInv
<1>8. Handled(m) BY <1>3, <1>4, <1>5 DEF ReqType
<1>9. Handled(k) BY <1>3, <1>4, <1>5 DEF ReqType
<1>10. Handled(o) BY <1>3, <1>4 DEF ReqType
<1> HIDE DEF m, k, o
<1>11. CASE Ran(Req_StepHandled(u), TRUE)
  <2>1. /\ h \in ReqType /\ SameButRoute(h, q) /\ HttpRoute(h.route) /\ h.route.idx = 0
        /\ h.flags = (q.flags \ {"NOOP"}) \union {"ERROR", "MORE"}
    BY <1>3, ErrorEffect
  <2> HIDE DEF h
  <2>2. /\ "ERROR" \in h.flags /\ "NOOP" \notin h.flags /\ h.sent = <<>>
        /\ h.live /\ h.idx = req[c].idx /\ h.logged = NULL
    BY <1>3, <1>4, <2>1 DEF SameButRoute
  <2>3. /\ u \in ReqType /\ HttpRoute(u.route) /\ u.route.idx = 0
        /\ "ERROR" \in u.flags /\ "NOOP" \notin u.flags /\ u.sent = <<>>
        /\ u.live /\ u.idx = req[c].idx /\ u.logged = NULL
    BY <2>1, <2>2 DEF ReqType
  <2> HIDE DEF u
  <2>4. Outcome(Req_StepHandled(u)) BY <1>1, <1>2, <1>6, <2>3, FailedGood
  <2>5. QED BY <1>1, <1>11, <2>4, RanInv
<1>12. QED BY <1>1, <1>7, <1>8, <1>9, <1>10, <1>11

\* The SUCCESS, END and MORE of a step do not change the status.
LEMMA StatusSame ==
  ASSUME NEW S, NEW T, "NOOP" \in S <=> "NOOP" \in T, "ERROR" \in S <=> "ERROR" \in T
  PROVE  Status(S) = Status(T) /\ Status(S) \in Int
<1>1. S \intersect {"NOOP", "ERROR"} = T \intersect {"NOOP", "ERROR"} OBVIOUS
<1>2. {"NOOP", "ERROR"} \subseteq S <=> {"NOOP", "ERROR"} \subseteq T OBVIOUS
<1>3. QED BY <1>1, <1>2 DEF Status

\* The process ends: what was is left as it is.
LEMMA HaltInv == ASSUME ServeInv, srv.pc = "step", Halt PROVE ServeInv'
<1>1. srv' = [srv EXCEPT !.pc = "halted"] /\ UNCHANGED <<qvars, req, peer>> BY DEF Halt
<1>2. QP!QInv' /\ it' = it /\ pass' = pass BY <1>1, QueueStill DEF ServeInv
<1>3. /\ srv' \in SrvType /\ srv'.pc = "halted" /\ srv'.cur = srv.cur
      /\ srv'.fixed = srv.fixed
  BY <1>1 DEF ServeInv, Types, SrvType, Pcs
<1>4. Types' BY <1>1, <1>3 DEF ServeInv, Types
<1>5. ReqsGood'
  <2>1. \A d \in Conns : Pieces(d)' = Pieces(d) BY <1>1, SamePieces
  <2>2. QED BY <1>1, <2>1 DEF ServeInv, ReqsGood
<1>6. Tracked' /\ Counted' /\ Alive' 
  BY <1>1, <1>2, <1>3 DEF ServeInv, Tracked, Counted, FixedAt, Alive, Q!Occupied
<1>7. OnPass' /\ AtStep' BY <1>3 DEF OnPass, AtStep
<1>8. Ending' BY <1>1, <1>3 DEF ServeInv, Ending
<1>9. QED BY <1>2, <1>4, <1>5, <1>6, <1>7, <1>8 DEF ServeInv

\* Sending the answer keeps the invariant: it is the one status, sent last.
LEMMA WriteInv == ASSUME ServeInv, HttpReq_Write PROVE ServeInv'
<1> DEFINE c == srv.cur
           q == Current
           sent == Append(q.sent, Status(q.flags))
           t == [q EXCEPT !.sent = sent]
           k == CloseFile(t)
           e == Req_StepHandled(k)
           h == HttpReq_Error(t)
           kh == CloseFile(h)
<1>1. /\ srv.pc = "step" /\ req[c].route.value = "write" /\ "write" \in Steps \ {"cmd"}
      /\ \/ Ran(e, TRUE)
         \/ \E w \in BOOLEAN : Ran(Req_StepHandled(kh), w)
         \/ Halt
  BY DEF HttpReq_Write, Running, Steps
<1>2. /\ c \in Conns /\ HttpRoute(req[c].route) /\ req[c].route.idx = 0
      /\ "END" \notin req[c].flags /\ req[c].sent = <<>> /\ req[c].read = Pieces(c)
  BY <1>1, RunningConn
<1>3. /\ q \in ReqType /\ SameButRoute(q, req[c]) /\ q.route = req[c].route
      /\ q.flags = req[c].flags \ {"MORE", "SUCCESS"} /\ q.live /\ q.logged = NULL
  BY <1>1, CurrentGood
<1>4. /\ q.idx = req[c].idx /\ q.sent = <<>> /\ "MORE" \notin q.flags /\ q.read = Pieces(c)
      /\ HttpRoute(q.route) /\ q.route.idx = 0
  BY <1>2, <1>3 DEF SameButRoute
<1> HIDE DEF q
<1>5. sent = <<Status(q.flags)>> /\ sent \in Seq(Int) /\ Len(sent) = 1
  BY <1>4, StatusSame
<1> HIDE DEF sent
<1>6. /\ t \in ReqType /\ t.route = q.route /\ t.flags = q.flags /\ t.live
      /\ t.idx = q.idx /\ t.logged = NULL /\ t.sent = sent /\ t.read = Pieces(c)
  BY <1>3, <1>4, <1>5 DEF ReqType
<1> HIDE DEF t
<1>7. c = srv.cur OBVIOUS
<1> HIDE DEF c
<1>8. ASSUME NEW x \in ReqType, NEW y, y = CloseFile(x)
      PROVE  /\ y \in ReqType /\ y.file # "open" /\ y.route = x.route /\ y.flags = x.flags
             /\ x.live => y.live
             /\ y.idx = x.idx /\ y.logged = x.logged /\ y.sent = x.sent /\ y.read = x.read
  <2> DEFINE g == IF x.file = "open" THEN "closed" ELSE x.file
  <2>1. g \in {"none", "closed"} BY DEF ReqType
  <2>2. y = [x EXCEPT !.file = g] BY <1>8 DEF CloseFile
  <2> HIDE DEF g
  <2>3. QED BY <2>1, <2>2 DEF ReqType
<1>9. CASE Ran(e, TRUE)
  <2>1. /\ k \in ReqType /\ k.file # "open" /\ k.route = t.route /\ k.flags = t.flags
        /\ k.live /\ k.idx = t.idx /\ k.logged = t.logged /\ k.sent = t.sent
        /\ k.read = t.read
    BY <1>6, <1>8
  <2> HIDE DEF k
  <2>2. HttpRoute(k.route) /\ k.route.idx = 0 BY <1>4, <1>6, <2>1
  <2>3. /\ e \in ReqType /\ SameButRoute(e, k) /\ e.route.value = NULL
        /\ e.flags = k.flags \union {"SUCCESS", "END"}
    BY <2>1, <2>2, HandledEffect
  <2> HIDE DEF e
  <2>4. /\ "MORE" \notin e.flags /\ "END" \in e.flags
        /\ "NOOP" \in e.flags <=> "NOOP" \in q.flags
        /\ "ERROR" \in e.flags <=> "ERROR" \in q.flags
    BY <1>4, <1>6, <2>1, <2>3
  <2>5. Status(e.flags) = Status(q.flags) BY <2>4, StatusSame
  <2>6. /\ e.live /\ e.idx = req[c].idx /\ e.logged = NULL /\ e.read = Pieces(c)
        /\ e.file # "open" /\ e.sent = <<Status(e.flags)>> /\ Len(e.sent) = 1
    BY <1>4, <1>5, <1>6, <2>1, <2>3, <2>5 DEF SameButRoute
  <2>7. NULL \notin Steps /\ c \notin Files BY <1>2, ServeAssumption
  <2>8. ConnGood(e, Pieces(c)) BY <2>3, <2>4, <2>6, <2>7 DEF ConnGood, Steps
  <2>9. Outcome(e) BY <1>2, <1>7, <2>3, <2>6, <2>7, <2>8 DEF Outcome
  <2>10. QED BY <1>1, <1>9, <2>9, RanInv
<1>10. CASE \E w \in BOOLEAN : Ran(Req_StepHandled(kh), w)
  <2>1. /\ h \in ReqType /\ SameButRoute(h, t) /\ HttpRoute(h.route) /\ h.route.idx = 0
        /\ h.flags = (t.flags \ {"NOOP"}) \union {"ERROR", "MORE"}
    BY <1>6, ErrorEffect
  <2> HIDE DEF h
  <2>2. /\ "ERROR" \in h.flags /\ "NOOP" \notin h.flags /\ h.sent = sent
        /\ h.read = Pieces(c) /\ h.live /\ h.idx = req[c].idx /\ h.logged = NULL
    BY <1>4, <1>6, <2>1 DEF SameButRoute
  <2>3. /\ kh \in ReqType /\ kh.route = h.route /\ kh.flags = h.flags
        /\ kh.live /\ kh.idx = h.idx /\ kh.logged = h.logged /\ kh.sent = h.sent
        /\ kh.read = h.read
    BY <1>8, <2>1, <2>2
  <2> HIDE DEF kh
  <2>4. /\ HttpRoute(kh.route) /\ kh.route.idx = 0
        /\ "ERROR" \in kh.flags /\ "NOOP" \notin kh.flags
        /\ kh.idx = req[c].idx /\ kh.logged = NULL
        /\ kh.read = Pieces(c) /\ Len(kh.sent) = 1
    BY <1>5, <2>1, <2>2, <2>3
  <2>5. Outcome(Req_StepHandled(kh)) BY <1>1, <1>2, <1>7, <2>3, <2>4, FailedGood
  <2>6. QED BY <1>1, <1>10, <2>5, RanInv
<1>11. CASE Halt BY <1>1, <1>11, HaltInv
<1>12. QED BY <1>1, <1>9, <1>10, <1>11

\* Every step of a request keeps the invariant.
LEMMA StepsInv == ASSUME ServeInv, Step PROVE ServeInv'
<1>1. CASE NullStep BY <1>1, HaltInv DEF NullStep, Running
<1>2. QED
  BY <1>1, CmdInv, AcceptInv, ReadInv, BodyArrivesInv, PrepareInv, StatsInv,
     RetrieveInv, WriteInv DEF Step
-----------------------------------------------------------------------------
\* What leaves the queue and the requests alone, and no client for another.
LEMMA StillInv ==
  ASSUME ServeInv, UNCHANGED <<qvars, req>>,
         peer' \in [Reqs -> PeerType],
         \A r \in Reqs : /\ peer'[r].ask = peer[r].ask
                         /\ peer[r].at \in {"open", "gone"} => peer'[r].at \in {"open", "gone"},
         srv' \in SrvType, srv'.fixed = srv.fixed,
         OnPass', AtStep', Ending'
  PROVE  ServeInv'
<1>1. QP!QInv' /\ it' = it /\ pass' = pass BY QueueStill DEF ServeInv
<1>2. Types' BY DEF ServeInv, Types
<1>3. ReqsGood'
  <2>1. \A d \in Conns : Pieces(d)' = Pieces(d) BY SamePieces DEF Reqs
  <2>2. QED BY <2>1 DEF ServeInv, ReqsGood
<1>4. Tracked' /\ Counted'
  BY <1>1 DEF ServeInv, Tracked, Counted, FixedAt, Q!Occupied
<1>5. Alive' BY DEF ServeInv, Alive
<1>6. QED BY <1>1, <1>2, <1>3, <1>4, <1>5 DEF ServeInv

\* A step of the server's loop outside any request.
LEMMA LoopInv ==
  ASSUME ServeInv, UNCHANGED <<qvars, req, peer>>,
         NEW x \in {"poll", "accept", "pass"}, srv' \in SrvType,
         srv'.pc = x, srv'.cur = srv.cur, srv'.fixed = srv.fixed,
         x # "pass" => ~pass,
         \/ srv.pc \in {"setup", "poll", "accept"}
         \/ srv.pc = "after" /\ "END" \notin req[srv.cur].flags
  PROVE  ServeInv'
<1>1. it' = it /\ pass' = pass BY QueueStill DEF ServeInv
<1>2. OnPass' BY <1>1 DEF OnPass
<1>3. AtStep' BY DEF AtStep
<1>4. Ending' BY DEF ServeInv, Ending
<1>5. peer' \in [Reqs -> PeerType] BY DEF ServeInv, Types
<1>6. QED BY <1>2, <1>3, <1>4, <1>5, StillInv

\* The loop of the server, outside any request, keeps the invariant.
LEMMA LoopsInv ==
  ASSUME ServeInv, Listen \/ Poll \/ NextPort \/ Keep
  PROVE  ServeInv'
<1>1. srv \in SrvType BY DEF ServeInv, Types
<1>2. srv.pc \in {"setup", "poll", "accept"} => ~pass BY DEF ServeInv, OnPass
<1>2a. ACCEPT_MAX \in Int /\ 1 \in Int /\ {"accept", "pass"} \subseteq Pcs
  BY ServeAssumption DEF Pcs
<1>3. CASE Listen
  <2>1. srv.pc = "setup" /\ srv' = [srv EXCEPT !.pc = "poll"] /\ UNCHANGED <<qvars, req, peer>>
    BY <1>3 DEF Listen
  <2>2. /\ srv' \in SrvType /\ srv'.pc = "poll" /\ srv'.cur = srv.cur
        /\ srv'.fixed = srv.fixed
    BY <1>1, <2>1 DEF SrvType, Pcs
  <2>3. QED BY <1>2, <2>1, <2>2, LoopInv
<1>4. CASE Poll
  <2>1. /\ srv.pc = "poll" /\ UNCHANGED <<qvars, req, peer>>
        /\ \/ srv' = [srv EXCEPT !.pc = "accept", !.port = 1, !.left = ACCEPT_MAX]
           \/ srv' = [srv EXCEPT !.pc = "pass"]
    BY <1>4 DEF Poll
  <2>2. /\ srv' \in SrvType /\ srv'.pc \in {"accept", "pass"} /\ srv'.cur = srv.cur
        /\ srv'.fixed = srv.fixed
    BY <1>1, <1>2a, <2>1 DEF SrvType
  <2>3. QED BY <1>2, <2>1, <2>2, LoopInv
<1>5. CASE NextPort
  <2>1. /\ srv.pc = "accept" /\ UNCHANGED <<qvars, req, peer>>
        /\ \/ srv' = [srv EXCEPT !.port = srv.port + 1, !.left = ACCEPT_MAX]
           \/ srv' = [srv EXCEPT !.pc = "pass"]
    BY <1>5 DEF NextPort
  <2>2. srv.port + 1 \in Int BY <1>1 DEF SrvType
  <2>3. /\ srv' \in SrvType /\ srv'.pc \in {"accept", "pass"} /\ srv'.cur = srv.cur
        /\ srv'.fixed = srv.fixed
    BY <1>1, <1>2a, <2>1, <2>2 DEF SrvType
  <2>4. QED BY <1>2, <2>1, <2>3, LoopInv
<1>6. CASE Keep
  <2>1. /\ srv.pc = "after" /\ "END" \notin req[srv.cur].flags
        /\ srv' = [srv EXCEPT !.pc = "pass"] /\ UNCHANGED <<qvars, req, peer>>
    BY <1>6 DEF Keep
  <2>2. /\ srv' \in SrvType /\ srv'.pc = "pass" /\ srv'.cur = srv.cur
        /\ srv'.fixed = srv.fixed
    BY <1>1, <2>1 DEF SrvType, Pcs
  <2>3. QED BY <2>1, <2>2, LoopInv
<1>7. QED BY <1>3, <1>4, <1>5, <1>6

\* The clients: what one sends or writes, and that it leaves.
LEMMA PeersInv ==
  ASSUME ServeInv,
         \/ \E c \in Conns : Send(c) \/ Leave(c)
         \/ \E f \in Files : Command(f)
  PROVE  ServeInv'
<1>1. PICK r \in Reqs :
        \/ peer' = [peer EXCEPT ![r].arrived = @ + 1]
        \/ peer' = [peer EXCEPT ![r].at = "gone"]
  BY DEF Send, Leave, Command, Reqs
<1>2. UNCHANGED <<qvars, req, srv>> BY DEF Send, Leave, Command
<1>3. peer \in [Reqs -> PeerType] /\ peer[r] \in PeerType BY DEF ServeInv, Types
<1> DEFINE a == [peer[r] EXCEPT !.arrived = peer[r].arrived + 1]
           g == [peer[r] EXCEPT !.at = "gone"]
<1>4. peer' = [peer EXCEPT ![r] = a] \/ peer' = [peer EXCEPT ![r] = g]
  BY <1>1, <1>3
<1>5. /\ a \in PeerType /\ a.ask = peer[r].ask /\ a.at = peer[r].at
      /\ g \in PeerType /\ g.ask = peer[r].ask /\ g.at = "gone"
  <2>1. peer[r].arrived + 1 \in Nat BY <1>3 DEF PeerType
  <2>2. QED BY <1>3, <2>1 DEF PeerType
<1> HIDE DEF a, g
<1>6. peer' \in [Reqs -> PeerType] BY <1>3, <1>4, <1>5
<1>7. \A s \in Reqs : /\ peer'[s].ask = peer[s].ask
                      /\ peer[s].at \in {"open", "gone"} => peer'[s].at \in {"open", "gone"}
  BY <1>3, <1>4, <1>5
<1>8. OnPass' /\ AtStep' /\ Ending'
  <2>1. it' = it /\ pass' = pass BY <1>2, QueueStill DEF ServeInv
  <2>2. QED BY <1>2, <2>1 DEF ServeInv, OnPass, AtStep, Ending, Failed
<1>9. srv' \in SrvType /\ srv'.fixed = srv.fixed BY <1>2 DEF ServeInv, Types
<1>10. QED BY <1>2, <1>6, <1>7, <1>8, <1>9, StillInv

\* A request just made.
FreshReq(x, i, b) ==
  [live |-> b, idx |-> i, flags |-> {}, events |-> {}, route |-> x, read |-> 0,
   parser |-> "ready", sent |-> <<>>, file |-> "none", logged |-> NULL]

\* Its fields are each of their type.
LEMMA FreshType ==
  ASSUME NEW x \in RouteType, NEW i \in Int, NEW b, b \in BOOLEAN, NEW e,
         e = FreshReq(x, i, b)
  PROVE  /\ e \in ReqType /\ e.live = b /\ e.idx = i /\ e.logged = NULL /\ e.flags = {}
         /\ e.route = x /\ e.sent = <<>>
<1> DEFINE none == <<>>
           empty == {}
           p == "ready"
           f == "none"
           n == 0
<1>1. /\ none \in Seq(Int) /\ empty \in SUBSET Flags /\ empty \in SUBSET {"in", "out"}
      /\ p \in {"ready", "ended"} /\ f \in {"none", "open", "closed"} /\ n \in Nat
      /\ NULL \in Logged
  BY DEF Logged
<1>2. e = [live |-> b, idx |-> i, flags |-> empty, events |-> empty, route |-> x,
           read |-> n, parser |-> p, sent |-> none, file |-> f, logged |-> NULL]
  BY DEF FreshReq
<1>3. empty = {} /\ none = <<>> OBVIOUS
<1> HIDE DEF none, empty, p, f, n
<1>4. e \in ReqType BY <1>1, <1>2 DEF ReqType
<1>5. e.idx = i /\ e.flags = empty /\ e.route = x /\ e.sent = none /\ e.logged = NULL
  BY <1>2
<1>6. e.live = b BY <1>2
<1>7. QED BY <1>3, <1>4, <1>5, <1>6

\* It waits for its first step.
LEMMA MadeGood ==
  ASSUME NEW r, NEW e, e.route = Route(r), e.flags = {}, e.sent = <<>>, e.logged = NULL
  PROVE  /\ r \in Files => CmdGood(e)
         /\ r \in Conns => \A n : ConnGood(e, n)
<1> DEFINE x == Route(r)
<1>1. /\ r \in Files => CmdRoute(x)
      /\ r \notin Files => HttpRoute(x) /\ x.idx \in {2, 3}
  BY RouteGood
<1>2. e.route = x OBVIOUS
<1> HIDE DEF x
<1>3. r \in Files => CmdGood(e) BY <1>1, <1>2 DEF CmdGood
<1>4. r \in Conns => \A n : ConnGood(e, n)
  <2> SUFFICES ASSUME r \in Conns, NEW n PROVE ConnGood(e, n)
    OBVIOUS
  <2>1. HttpRoute(x) /\ x.idx \in {2, 3} BY <1>1, ServeAssumption
  <2>2. x.value # NULL /\ x.value \notin {"write", "prepare", "retrieve", "stats"}
    BY <2>1, StepTop
  <2>3. QED BY <1>2, <2>1, <2>2 DEF ConnGood
<1>5. QED BY <1>3, <1>4

\* Every route is that of a command file or of a connection.
LEMMA RouteTyped == \A r : Route(r) \in RouteType
BY RouteGood DEF CmdRoute, HttpRoute, Stacked

\* Adding an element to a finite set counts one more.
LEMMA Grown ==
  ASSUME NEW S, IsFiniteSet(S), NEW x, x \notin S, NEW T, T = S \union {x}
  PROVE  Cardinality(T) = Cardinality(S) + 1
BY FS_AddElement

\* Making a request live, tracked at the index the queue gave it, keeps the invariant.
LEMMA AddReqInv ==
  ASSUME ServeInv, NEW a \in Reqs, Q!Queue_Add(a), NEW i,
         i = IF selected >= 0 THEN Q!ShelfTop ELSE it.max_idx + 1,
         NEW e \in ReqType, e.live, e.idx = i, e.logged = NULL, e.flags = {},
         a \in Files => CmdGood(e), a \in Conns => \A n : ConnGood(e, n),
         req' = [req EXCEPT ![a] = e],
         peer' \in [Reqs -> PeerType],
         \A s \in Reqs : /\ peer'[s].ask = peer[s].ask
                         /\ peer[s].at \in {"open", "gone"} => peer'[s].at \in {"open", "gone"},
         a \in Conns => peer'[a].at \in {"open", "gone"},
         srv' \in SrvType, srv'.pc = srv.pc, srv'.cur = srv.cur,
         srv.pc \in {"setup", "accept"},
         a \in Files => srv'.fixed = srv.fixed + 1,
         a \notin Files => srv'.fixed = srv.fixed
  PROVE  ServeInv'
<1>1. /\ QP!QInv' /\ i \in Q!Indices /\ it.slots[i] = NULL
      /\ it'.slots = [it.slots EXCEPT ![i] = a]
      /\ it'.idx = it.idx /\ it'.end = it.end /\ pass' = pass
      /\ a \notin Q!Queued
  BY AddQueue DEF ServeInv
<1>2. /\ it.slots \in [Q!Indices -> Reqs \union {NULL}]
      /\ Q!Indices \subseteq Nat /\ IsFiniteSet(Q!Occupied(it))
  BY QueueTypes DEF ServeInv
<1>3. NULL \notin Reqs BY ServeAssumption
<1>4. req \in [Reqs -> ReqType] BY DEF ServeInv, Types
<1>5. /\ req' \in [Reqs -> ReqType] /\ req'[a] = e
      /\ \A r \in Reqs : r # a => req'[r] = req[r]
  BY <1>4
<1>6. it'.slots[i] = a /\ \A j \in Q!Indices : j # i => it'.slots[j] = it.slots[j]
  BY <1>1, <1>2
<1>7. Q!Occupied(it') = Q!Occupied(it) \union {i} /\ i \notin Q!Occupied(it)
  BY <1>1, <1>2, <1>3, <1>6 DEF Q!Occupied
<1>8. \A j \in Q!Occupied(it) : /\ j \in Q!Indices /\ j # i /\ it'.slots[j] = it.slots[j]
                                 /\ it.slots[j] \in Reqs /\ it.slots[j] # a
  BY <1>1, <1>2, <1>6, <1>7 DEF Q!Occupied, Q!Queued
<1>9. Types' BY <1>5 DEF Types
<1>10. ReqsGood'
  <2>1. \A d \in Conns : Pieces(d)' = Pieces(d) BY SamePieces DEF Reqs
  <2>2. \A f \in Files : CmdGood(req'[f]) BY <1>5 DEF ServeInv, ReqsGood, Reqs
  <2>3. \A d \in Conns : ConnGood(req'[d], Pieces(d)) BY <1>5 DEF ServeInv, ReqsGood, Reqs
  <2>4. QED BY <2>1, <2>2, <2>3 DEF ReqsGood
<1>11. Tracked'
  <2>1. ASSUME NEW r \in Reqs, req'[r].live
        PROVE  req'[r].idx \in Q!Indices /\ it'.slots[req'[r].idx] = r
    <3>1. CASE r = a BY <1>1, <1>5, <1>6, <3>1
    <3>2. CASE r # a
      <4>1. req[r].idx \in Q!Indices /\ it.slots[req[r].idx] = r
        BY <1>5, <2>1, <3>2 DEF ServeInv, Tracked
      <4>2. req[r].idx # i BY <1>1, <1>3, <4>1
      <4>3. QED BY <1>5, <1>6, <3>2, <4>1, <4>2
    <3>3. QED BY <3>1, <3>2
  <2>2. ASSUME NEW j \in Q!Occupied(it') PROVE req'[it'.slots[j]].live
    <3>1. CASE j = i BY <1>5, <1>6, <3>1
    <3>2. CASE j # i
      <4>1. j \in Q!Occupied(it) BY <1>7, <2>2, <3>2
      <4>2. req[it.slots[j]].live BY <4>1 DEF ServeInv, Tracked
      <4>3. QED BY <1>5, <1>8, <4>1, <4>2
    <3>3. QED BY <3>1, <3>2
  <2>3. Q!Occupied(it)' = Q!Occupied(it') BY DEF Q!Occupied
  <2>4. QED BY <2>1, <2>2, <2>3 DEF Tracked
<1>12. Counted'
  <2>1. IsFiniteSet(FixedAt)
    <3>1. FixedAt \subseteq Q!Occupied(it) BY DEF FixedAt
    <3>2. QED BY <1>2, <3>1, FS_Subset
  <2>2. FixedAt' = {j \in Q!Occupied(it') : it'.slots[j] \in Files}
    BY DEF FixedAt, Q!Occupied
  <2>3. CASE a \in Files
    <3>1. FixedAt' = FixedAt \union {i} /\ i \notin FixedAt
      BY <1>6, <1>7, <1>8, <2>2, <2>3 DEF FixedAt
    <3>2. Cardinality(FixedAt') = Cardinality(FixedAt) + 1
      BY <2>1, <3>1, Grown
    <3>3. QED BY <2>3, <3>2 DEF ServeInv, Counted
  <2>4. CASE a \notin Files
    <3>1. FixedAt' = FixedAt BY <1>6, <1>7, <1>8, <2>2, <2>4 DEF FixedAt
    <3>2. QED BY <2>4, <3>1 DEF ServeInv, Counted
  <2>5. QED BY <2>3, <2>4
<1>13. Alive'
  <2> SUFFICES ASSUME NEW r \in Reqs, req'[r].live
               PROVE  /\ req'[r].logged = NULL
                      /\ r \in Conns => peer'[r].at \in {"open", "gone"}
    BY DEF Alive
  <2>1. CASE r = a BY <1>5, <2>1
  <2>2. CASE r # a BY <1>5, <2>2 DEF ServeInv, Alive
  <2>3. QED BY <2>1, <2>2
<1>14. OnPass' BY <1>1 DEF ServeInv, OnPass
<1>15. AtStep' BY DEF AtStep
<1>16. Ending'
  <2> SUFFICES ASSUME NEW r \in Reqs, req'[r].live, "END" \in req'[r].flags
               PROVE  FALSE
    BY DEF Ending
  <2>1. CASE r = a BY <1>5, <2>1
  <2>2. CASE r # a BY <1>5, <2>2 DEF ServeInv, Ending
  <2>3. QED BY <2>1, <2>2
<1>17. QED
  BY <1>1, <1>9, <1>10, <1>11, <1>12, <1>13, <1>14, <1>15, <1>16 DEF ServeInv

\* What MadeReq makes is live, good and told the index the queue gives.
LEMMA NewReq ==
  ASSUME ServeInv, NEW a \in Reqs, Q!Queue_Add(a), NEW e, e = MadeReq(a), NEW i,
         i = IF selected >= 0 THEN Q!ShelfTop ELSE it.max_idx + 1
  PROVE  /\ e \in ReqType /\ e.live /\ e.idx = i /\ e.logged = NULL /\ e.flags = {}
         /\ a \in Files => CmdGood(e)
         /\ a \in Conns => \A n : ConnGood(e, n)
<1> DEFINE x == Route(a)
<1>1. e = FreshReq(x, i, TRUE)
  BY DEF MadeReq, Req_Make, FreshReq
<1>2. i \in Int
  <2>1. i \in Q!Indices BY AddQueue DEF ServeInv
  <2>2. QED BY <2>1, QueueTypes DEF ServeInv
<1>3. TRUE \in BOOLEAN /\ x \in RouteType BY RouteTyped
<1>4. x = Route(a) OBVIOUS
<1> HIDE DEF x
<1>5. e \in ReqType BY ONLY <1>1, <1>2, <1>3, FreshType
<1>6. /\ e.live /\ e.idx = i /\ e.logged = NULL /\ e.flags = {}
      /\ e.route = x /\ e.sent = <<>>
  BY <1>1 DEF FreshReq
<1>7. QED BY <1>4, <1>5, <1>6, MadeGood

\* Adding a command file keeps the invariant, the fixed ones being counted.
LEMMA EndpointInv ==
  ASSUME ServeInv, NEW f \in Files, Serve_AddEndpoint(f)
  PROVE  ServeInv'
<1> DEFINE i == IF selected >= 0 THEN Q!ShelfTop ELSE it.max_idx + 1
           e == MadeReq(f)
<1>1. /\ srv.pc = "setup" /\ Q!Queue_Add(f) /\ peer' = peer
      /\ req' = [req EXCEPT ![f] = e] /\ srv' = [srv EXCEPT !.fixed = srv.fixed + 1]
  BY DEF Serve_AddEndpoint
<1>2. f \in Reqs /\ f \notin Conns BY ServeAssumption DEF Reqs
<1>3. /\ e \in ReqType /\ e.live /\ e.idx = i /\ e.logged = NULL /\ e.flags = {}
      /\ CmdGood(e)
  BY <1>1, <1>2, NewReq
<1>4. i = IF selected >= 0 THEN Q!ShelfTop ELSE it.max_idx + 1 OBVIOUS
<1> HIDE DEF e, i
<1>5. srv \in SrvType /\ peer \in [Reqs -> PeerType] BY DEF ServeInv, Types
<1>6. /\ srv' \in SrvType /\ srv'.pc = srv.pc /\ srv'.cur = srv.cur
      /\ srv'.fixed = srv.fixed + 1
  <2>1. srv.fixed + 1 \in Int BY <1>5 DEF SrvType
  <2>2. QED BY <1>1, <1>5, <2>1 DEF SrvType
<1>7. QED BY <1>1, <1>2, <1>3, <1>4, <1>5, <1>6, AddReqInv

\* Accepting a connection keeps the invariant.
LEMMA AcceptedInv ==
  ASSUME ServeInv, NEW c \in Conns, Accept(c)
  PROVE  ServeInv'
<1> DEFINE i == IF selected >= 0 THEN Q!ShelfTop ELSE it.max_idx + 1
           e == MadeReq(c)
           o == [peer[c] EXCEPT !.at = "open"]
<1>1. /\ srv.pc = "accept" /\ Q!Queue_Add(c)
      /\ req' = [req EXCEPT ![c] = e] /\ srv' = [srv EXCEPT !.left = srv.left - 1]
  BY DEF Accept
<1>2. c \in Reqs /\ c \notin Files BY ServeAssumption DEF Reqs
<1>3. /\ e \in ReqType /\ e.live /\ e.idx = i /\ e.logged = NULL /\ e.flags = {}
      /\ \A n : ConnGood(e, n)
  BY <1>1, <1>2, NewReq
<1>4. i = IF selected >= 0 THEN Q!ShelfTop ELSE it.max_idx + 1 OBVIOUS
<1> HIDE DEF e, i
<1>5. srv \in SrvType /\ peer \in [Reqs -> PeerType] BY DEF ServeInv, Types
<1>6. /\ srv' \in SrvType /\ srv'.pc = srv.pc /\ srv'.cur = srv.cur
      /\ srv'.fixed = srv.fixed
  <2>1. srv.left - 1 \in Int BY <1>5 DEF SrvType
  <2>2. QED BY <1>1, <1>5, <2>1 DEF SrvType
<1>7. peer' = [peer EXCEPT ![c] = o] BY <1>2, <1>5 DEF Accept
<1>8. o \in PeerType /\ o.ask = peer[c].ask /\ o.at = "open"
  <2>1. peer[c] \in PeerType BY <1>2, <1>5
  <2>2. QED BY <2>1 DEF PeerType
<1> HIDE DEF o
<1>9. peer' \in [Reqs -> PeerType] BY <1>5, <1>7, <1>8
<1>10. /\ peer'[c].at = "open"
       /\ \A s \in Reqs : /\ peer'[s].ask = peer[s].ask
                          /\ peer[s].at \in {"open", "gone"} => peer'[s].at \in {"open", "gone"}
  BY <1>2, <1>5, <1>7, <1>8
<1>11. QED BY <1>1, <1>2, <1>3, <1>4, <1>6, <1>9, <1>10, AddReqInv

\* Queue_Next keeps the invariant: the request it returns is live, at its index.
LEMMA PassInv == ASSUME ServeInv, Pass PROVE ServeInv'
<1> DEFINE ready == {r \in Q!Queued : ReqCrit_Func(r, req[r], TRUE)}
           r == it'.value
           failed == req[r].flags \intersect {"ERROR", "NOOP"} = {"ERROR"}
<1>1. srv.pc = "pass" /\ Q!NextAmong(ready) /\ UNCHANGED <<req, peer>>
  BY DEF Pass
<1>2. ready \in SUBSET Q!Queued OBVIOUS
<1> HIDE DEF ready
<1>3. /\ QP!QInv' /\ it'.slots = it.slots
      /\ pass' = ~it'.end /\ it'.end \in BOOLEAN
      /\ ~it'.end => it'.idx \in Q!Occupied(it) /\ it'.value = it.slots[it'.idx]
  BY <1>1, <1>2, PassQueue DEF ServeInv
<1>4. srv \in SrvType /\ req \in [Reqs -> ReqType] BY DEF ServeInv, Types
<1>5. \A j \in Q!Occupied(it) : j \in Q!Indices /\ it.slots[j] \in Reqs
  BY QueueTypes DEF Q!Occupied, ServeInv
<1>6. ~it'.end => r \in Reqs /\ req[r].live /\ req[r].idx = it'.idx
  <2> SUFFICES ASSUME ~it'.end PROVE r \in Reqs /\ req[r].live /\ req[r].idx = it'.idx
    OBVIOUS
  <2>1. it'.idx \in Q!Occupied(it) /\ it.slots[it'.idx] = r BY <1>3
  <2>2. r \in Reqs /\ req[r].live BY <1>5, <2>1 DEF ServeInv, Tracked
  <2>3. req[r].idx \in Q!Indices /\ it.slots[req[r].idx] = r
    BY <2>2 DEF ServeInv, Tracked
  <2>4. r # NULL BY <2>2, ServeAssumption
  <2>5. req[r].idx \in Q!Occupied(it) BY <2>3, <2>4 DEF Q!Occupied
  <2>6. QED BY <2>1, <2>2, <2>3, <2>5, QueueTypes DEF ServeInv
<1>7. \/ /\ it'.end /\ srv' = [srv EXCEPT !.pc = "poll"]
      \/ /\ ~it'.end
         /\ \/ srv' = [srv EXCEPT !.cur = r, !.pc = "after"]
            \/ srv' = [srv EXCEPT !.cur = r, !.pc = "step"]
  BY <1>3 DEF Pass
<1>8. /\ srv' \in SrvType /\ srv'.fixed = srv.fixed
      /\ it'.end => srv'.pc = "poll" 
      /\ ~it'.end => srv'.cur = r /\ srv'.pc \in {"step", "after"}
  BY <1>4, <1>6, <1>7 DEF SrvType, Pcs
<1>9. \A s \in Reqs : ~(req[s].live /\ "END" \in req[s].flags)
  BY <1>1 DEF ServeInv, Ending
<1>10. Types' BY <1>1, <1>8 DEF ServeInv, Types
<1>11. ReqsGood'
  <2>1. \A d \in Conns : Pieces(d)' = Pieces(d) BY <1>1, SamePieces
  <2>2. QED BY <1>1, <2>1 DEF ServeInv, ReqsGood
<1>12. Tracked' /\ Counted'
  BY <1>1, <1>3, <1>8 DEF ServeInv, Tracked, Counted, FixedAt, Q!Occupied
<1>13. Alive' BY <1>1 DEF ServeInv, Alive
<1>14. OnPass'
  <2>1. CASE it'.end BY <1>3, <1>8, <2>1 DEF OnPass
  <2>2. CASE ~it'.end BY <1>1, <1>3, <1>6, <1>8, <2>2 DEF OnPass
  <2>3. QED BY <1>3, <2>1, <2>2
<1>15. AtStep'
  <2>1. ~it'.end => req[r].route.value # NULL
    <3> SUFFICES ASSUME ~it'.end PROVE req[r].route.value # NULL
      OBVIOUS
    <3>1. r \in Reqs /\ "END" \notin req[r].flags BY <1>6, <1>9
    <3>2. CASE r \in Files
      <4>1. req[r].route.value = "cmd" BY <3>2 DEF ServeInv, ReqsGood, CmdGood, CmdRoute, Stacked
      <4>2. QED BY <4>1, ServeAssumption DEF Steps
    <3>3. CASE r \in Conns BY <3>1, <3>3 DEF ServeInv, ReqsGood, ConnGood
    <3>4. QED BY <3>1, <3>2, <3>3 DEF Reqs
  <2>2. QED BY <1>1, <1>3, <1>8, <2>1 DEF AtStep
<1>16. Ending' BY <1>1, <1>9 DEF Ending
<1>17. QED
  BY <1>3, <1>10, <1>11, <1>12, <1>13, <1>14, <1>15, <1>16 DEF ServeInv

\* The request of a connection that is not accepted yet is good, and not live.
LEMMA NotYet ==
  ASSUME NEW r, NEW e, e = [Req_Make(r) EXCEPT !.live = FALSE]
  PROVE  /\ e \in ReqType /\ ~e.live
         /\ r \in Files => CmdGood(e)
         /\ r \in Conns => \A n : ConnGood(e, n)
<1> DEFINE x == Route(r)
           m == Req_Make(r)
<1>1. m = FreshReq(x, 0, TRUE) BY DEF Req_Make, FreshReq
<1>2. TRUE \in BOOLEAN /\ x \in RouteType /\ 0 \in Int BY RouteTyped
<1>3. x = Route(r) /\ e = [m EXCEPT !.live = FALSE] OBVIOUS
<1> HIDE DEF x, m
<1>4. m \in ReqType BY <1>1, <1>2, FreshType
<1>5. m.logged = NULL /\ m.flags = {} /\ m.route = x /\ m.sent = <<>>
  BY <1>1 DEF FreshReq
<1>6. /\ e \in ReqType /\ ~e.live /\ e.logged = m.logged /\ e.flags = m.flags
      /\ e.route = m.route /\ e.sent = m.sent
  BY <1>3, <1>4 DEF ReqType
<1>7. QED BY <1>3, <1>5, <1>6, MadeGood

\* Finalizing a request removes that one from the queue, and no other.
LEMMA FinalizeInv == ASSUME ServeInv, Finalize PROVE ServeInv'
<1> DEFINE c == srv.cur
           i == req[c].idx
           l == Status(req[c].flags)
           d == [req[c] EXCEPT !.live = FALSE]
           e == [d EXCEPT !.logged = l]
<1>1. /\ srv.pc = "after" /\ "END" \in req[c].flags
      /\ Q!Queue_Remove(i) /\ peer' = peer
      /\ srv' = [srv EXCEPT !.pc = "pass"]
  BY DEF Finalize
<1>2. /\ c \in Reqs /\ req[c].live
      /\ req \in [Reqs -> ReqType] /\ srv \in SrvType /\ peer \in [Reqs -> PeerType]
  BY <1>1 DEF ServeInv, OnPass, Types
<1>3. req' = [req EXCEPT ![c] = e] BY <1>2 DEF Finalize
<1>4. c \in Conns /\ c \notin Files
  <2>1. c \notin Files BY <1>1 DEF ServeInv, ReqsGood, CmdGood
  <2>2. QED BY <1>2, <2>1 DEF Reqs
<1>5. l \in Logged /\ l \in Int /\ l = Status(req[c].flags)
  BY DEF Status, Logged
<1>6. c = srv.cur /\ i = req[c].idx OBVIOUS
<1> HIDE DEF c, l, i
<1>7. /\ e \in ReqType /\ ~e.live /\ e.logged = l /\ e.flags = req[c].flags
      /\ e.route = req[c].route /\ e.sent = req[c].sent /\ e.read = req[c].read
      /\ e.file = req[c].file
  <2>1. req[c] \in ReqType BY <1>2
  <2>2. /\ d \in ReqType /\ ~d.live /\ d.flags = req[c].flags
        /\ d.route = req[c].route /\ d.sent = req[c].sent /\ d.read = req[c].read
        /\ d.file = req[c].file
    BY <2>1 DEF ReqType
  <2> HIDE DEF d
  <2>3. QED BY <1>5, <2>2 DEF ReqType
<1> HIDE DEF e
<1>8. ConnGood(e, Pieces(c))
  <2>1. ConnGood(req[c], Pieces(c)) BY <1>4 DEF ServeInv, ReqsGood
  <2>2. e.route.value = NULL BY <1>1, <1>7, <2>1 DEF ConnGood
  <2>3. QED BY <1>5, <1>7, <2>1, <2>2 DEF ConnGood
<1>9. i \in Q!Occupied(it) /\ it.slots[i] = c
  <2>1. i \in Q!Indices /\ it.slots[i] = c BY <1>2, <1>6 DEF ServeInv, Tracked
  <2>2. c # NULL BY <1>2, ServeAssumption
  <2>3. QED BY <2>1, <2>2 DEF Q!Occupied
<1>10. QP!QInv' /\ pass' = pass /\ it'.slots = [it.slots EXCEPT ![i] = NULL]
  BY <1>1, <1>9, RemoveQueue DEF ServeInv
<1>11. /\ it.slots \in [Q!Indices -> Reqs \union {NULL}]
       /\ IsFiniteSet(Q!Occupied(it))
       /\ \A j, k \in Q!Occupied(it) : it.slots[j] = it.slots[k] => j = k
  BY QueueTypes DEF ServeInv
<1>12. /\ i \in Q!Indices /\ it'.slots[i] = NULL
       /\ \A j \in Q!Indices : j # i => it'.slots[j] = it.slots[j]
  BY <1>9, <1>10, <1>11 DEF Q!Occupied
<1>13. Q!Occupied(it') = Q!Occupied(it) \ {i} BY <1>12 DEF Q!Occupied
<1>14. \A j \in Q!Occupied(it) : j \in Q!Indices /\ it.slots[j] \in Reqs
  BY <1>11 DEF Q!Occupied
<1>15. /\ req' \in [Reqs -> ReqType] /\ req'[c] = e
       /\ \A r \in Reqs : r # c => req'[r] = req[r]
  BY <1>2, <1>3, <1>7
<1>16. /\ srv' \in SrvType /\ srv'.pc = "pass" /\ srv'.cur = c /\ srv'.fixed = srv.fixed
  BY <1>1, <1>2, <1>6 DEF SrvType, Pcs
<1>17. Types' BY <1>1, <1>2, <1>15, <1>16 DEF Types
<1>18. ReqsGood'
  <2>1. \A s \in Conns : Pieces(s)' = Pieces(s) BY <1>1, SamePieces
  <2>2. \A f \in Files : CmdGood(req'[f]) BY <1>4, <1>15 DEF ServeInv, ReqsGood, Reqs
  <2>3. \A s \in Conns : ConnGood(req'[s], Pieces(s))
    BY <1>8, <1>15 DEF ServeInv, ReqsGood, Reqs
  <2>4. QED BY <2>1, <2>2, <2>3 DEF ReqsGood
<1>19. Tracked'
  <2>1. ASSUME NEW r \in Reqs, req'[r].live
        PROVE  req'[r].idx \in Q!Indices /\ it'.slots[req'[r].idx] = r
    <3>1. r # c BY <1>7, <1>15, <2>1
    <3>2. req[r].idx \in Q!Indices /\ it.slots[req[r].idx] = r
      BY <1>15, <2>1, <3>1 DEF ServeInv, Tracked
    <3>3. req[r].idx # i BY <1>9, <3>1, <3>2
    <3>4. QED BY <1>12, <1>15, <3>1, <3>2, <3>3
  <2>2. ASSUME NEW j \in Q!Occupied(it') PROVE req'[it'.slots[j]].live
    <3>1. j \in Q!Occupied(it) /\ j # i BY <1>13, <2>2
    <3>2. req[it.slots[j]].live BY <3>1 DEF ServeInv, Tracked
    <3>3. it'.slots[j] = it.slots[j] /\ it.slots[j] # c /\ it.slots[j] \in Reqs
      BY <1>9, <1>11, <1>12, <1>14, <3>1
    <3>4. QED BY <1>15, <3>2, <3>3
  <2>3. Q!Occupied(it)' = Q!Occupied(it') BY DEF Q!Occupied
  <2>4. QED BY <2>1, <2>2, <2>3 DEF Tracked
<1>20. Counted'
  <2>1. FixedAt' = {j \in Q!Occupied(it') : it'.slots[j] \in Files}
    BY DEF FixedAt, Q!Occupied
  <2>2. FixedAt' = FixedAt BY <1>4, <1>9, <1>12, <1>13, <1>14, <2>1 DEF FixedAt
  <2>3. QED BY <1>16, <2>2 DEF ServeInv, Counted
<1>21. Alive'
  <2> SUFFICES ASSUME NEW r \in Reqs, req'[r].live
               PROVE  /\ req'[r].logged = NULL
                      /\ r \in Conns => peer'[r].at \in {"open", "gone"}
    BY DEF Alive
  <2>1. r # c BY <1>7, <1>15
  <2>2. QED BY <1>1, <1>15, <2>1 DEF ServeInv, Alive
<1>22. OnPass' BY <1>16 DEF OnPass
<1>23. AtStep' BY <1>16 DEF AtStep
<1>24. Ending'
  <2> SUFFICES ASSUME NEW r \in Reqs, req'[r].live, "END" \in req'[r].flags
               PROVE  FALSE
    BY DEF Ending
  <2>1. r # c BY <1>7, <1>15
  <2>2. QED BY <1>6, <1>15, <2>1 DEF ServeInv, Ending
<1>25. QED
  BY <1>10, <1>17, <1>18, <1>19, <1>20, <1>21, <1>22, <1>23, <1>24 DEF ServeInv

\* A client that connects, or comes back, has a request of its own.
LEMMA ConnectInv ==
  ASSUME ServeInv, NEW c \in Conns, Connect(c)
  PROVE  ServeInv'
<1> DEFINE e == [Req_Make(c) EXCEPT !.live = FALSE]
<1>1. PICK ask \in Asks :
        peer' = [peer EXCEPT ![c] = [at |-> "backlog", ask |-> ask, arrived |-> 0]]
  BY DEF Connect
<1> DEFINE p == [at |-> "backlog", ask |-> ask, arrived |-> 0]
<1>2. /\ req' = [req EXCEPT ![c] = e] /\ peer' = [peer EXCEPT ![c] = p]
      /\ UNCHANGED <<qvars, srv>>
  BY <1>1 DEF Connect
<1>3. c \in Reqs /\ c \notin Files BY ServeAssumption DEF Reqs
<1>4. /\ req \in [Reqs -> ReqType] /\ srv \in SrvType /\ peer \in [Reqs -> PeerType]
  BY DEF ServeInv, Types
<1>5. p \in PeerType BY DEF PeerType
<1>6. e \in ReqType /\ ~e.live /\ \A n : ConnGood(e, n) BY NotYet
<1> HIDE DEF e, p
<1>12. /\ req' \in [Reqs -> ReqType] /\ req'[c] = e
       /\ \A r \in Reqs : r # c => req'[r] = req[r]
  BY <1>2, <1>3, <1>4, <1>6
<1>13. /\ peer' \in [Reqs -> PeerType]
       /\ \A r \in Reqs : r # c => peer'[r] = peer[r]
  BY <1>2, <1>3, <1>4, <1>5
<1>14. ~req[c].live BY <1>3 DEF ServeInv, Alive, Connect
<1>15. \A r \in Reqs : req[r].live => r # c BY <1>14
<1>16. \A r \in Reqs : req'[r].live => r # c /\ req[r].live /\ req'[r] = req[r]
  BY <1>6, <1>12
<1>17. QP!QInv' /\ it' = it /\ pass' = pass BY <1>2, QueueStill DEF ServeInv
<1>18. srv' = srv BY <1>2
<1>19. \A j \in Q!Occupied(it) : it.slots[j] \in Reqs
  BY QueueTypes DEF ServeInv, Q!Occupied
<1>20. Types' BY <1>4, <1>12, <1>13, <1>18 DEF Types
<1>21. ReqsGood'
  <2>1. \A f \in Files : CmdGood(req'[f]) BY <1>3, <1>12 DEF ServeInv, ReqsGood, Reqs
  <2>2. ASSUME NEW d \in Conns PROVE ConnGood(req'[d], Pieces(d)')
    <3>1. CASE d = c BY <1>6, <1>12, <3>1
    <3>2. CASE d # c
      <4>1. peer'[d].ask = peer[d].ask /\ req'[d] = req[d]
        BY <1>12, <1>13, <3>2 DEF Reqs
      <4>2. Pieces(d)' = Pieces(d) BY <4>1, SamePieces
      <4>3. QED BY <4>1, <4>2 DEF ServeInv, ReqsGood
    <3>3. QED BY <3>1, <3>2
  <2>3. QED BY <2>1, <2>2 DEF ReqsGood
<1>22. Tracked'
  <2>1. \A r \in Reqs : req'[r].live =>
           req'[r].idx \in Q!Indices /\ it'.slots[req'[r].idx] = r
    BY <1>16, <1>17 DEF ServeInv, Tracked
  <2>2. \A j \in Q!Occupied(it) : req'[it'.slots[j]].live
    BY <1>12, <1>15, <1>17, <1>19 DEF ServeInv, Tracked
  <2>3. Q!Occupied(it)' = Q!Occupied(it) BY <1>17 DEF Q!Occupied
  <2>4. QED BY <2>1, <2>2, <2>3 DEF Tracked
<1>23. Counted' BY <1>17, <1>18 DEF ServeInv, Counted, FixedAt, Q!Occupied
<1>24. Alive' BY <1>13, <1>16 DEF ServeInv, Alive
<1>25. OnPass' BY <1>12, <1>15, <1>17, <1>18 DEF ServeInv, OnPass
<1>26. AtStep'
  <2>1. srv.pc \in {"step", "body"} => srv.cur \in Reqs /\ srv.cur # c
    BY <1>15 DEF ServeInv, OnPass
  <2>2. srv.pc \in {"step", "body"} => req'[srv.cur] = req[srv.cur] BY <1>12, <2>1
  <2>3. QED BY <1>18, <2>2 DEF ServeInv, AtStep, Failed
<1>27. Ending' BY <1>16, <1>18 DEF ServeInv, Ending
<1>28. QED
  BY <1>17, <1>20, <1>21, <1>22, <1>23, <1>24, <1>25, <1>26, <1>27 DEF ServeInv

\* The invariant holds before the first request.
LEMMA InitInv == Init => ServeInv
<1> SUFFICES ASSUME Init PROVE ServeInv
  OBVIOUS
<1>1. QP!TablesAssumption BY QueueAssumptions
<1>2. QP!ItemsAssumption BY QueueAssumptions
<1>3. QP!Init BY SameInit DEF Init
<1>4. QP!QInv BY <1>1, <1>2, <1>3, QP!InitInv
<1>5. \A j \in Q!Indices : it.slots[j] = NULL /\ ~pass
  BY DEF Init, Q!Init, Q!Span_Make
<1>6. Q!Occupied(it) = {} BY <1>5 DEF Q!Occupied
<1>7. /\ req \in [Reqs -> ReqType] /\ \A r \in Reqs : ~req[r].live
      /\ ReqsGood
  <2> DEFINE e(r) == [Req_Make(r) EXCEPT !.live = FALSE]
  <2>1. req = [r \in Reqs |-> e(r)] BY DEF Init
  <2>2. ASSUME NEW r \in Reqs
        PROVE  /\ e(r) \in ReqType /\ ~e(r).live
               /\ r \in Files => CmdGood(e(r))
               /\ r \in Conns => \A n : ConnGood(e(r), n)
    BY NotYet
  <2> HIDE DEF e
  <2>3. \A r \in Reqs : req[r] = e(r) BY <2>1
  <2>4. req \in [Reqs -> ReqType] BY <2>1, <2>2
  <2>5. QED BY <2>2, <2>3, <2>4 DEF ReqsGood, Reqs
<1>8. peer \in [Reqs -> PeerType]
  <2> DEFINE p(r) == [at |-> IF r \in Files THEN "open" ELSE "away",
                      ask |-> "file", arrived |-> 0]
  <2>1. peer = [r \in Reqs |-> p(r)] BY DEF Init
  <2>2. \A r \in Reqs : p(r) \in PeerType
    BY DEF PeerType
  <2> HIDE DEF p
  <2>3. QED BY <2>1, <2>2
<1>9. srv = [pc |-> "setup", cur |-> NULL, port |-> 1, left |-> 0, fixed |-> 0]
  BY DEF Init
<1>10. srv \in SrvType /\ srv.pc = "setup" /\ srv.fixed = 0 BY <1>9 DEF SrvType, Pcs
<1>11. Tracked /\ Alive /\ Ending BY <1>6, <1>7 DEF Tracked, Alive, Ending
<1>12. Counted
  <2>1. FixedAt = {} BY <1>6 DEF FixedAt
  <2>2. QED BY <1>10, <2>1, FS_EmptySet DEF Counted
<1>13. OnPass /\ AtStep
  <2>1. ~pass BY DEF Init, Q!Init
  <2>2. QED BY <1>10, <2>1 DEF OnPass, AtStep
<1>14. QED BY <1>4, <1>7, <1>8, <1>10, <1>11, <1>12, <1>13 DEF ServeInv, Types

\* Nothing happens.
LEMMA SameInv == ASSUME ServeInv, UNCHANGED vars PROVE ServeInv'
<1>1. UNCHANGED <<qvars, req, peer, srv>> BY DEF vars
<1>2. it' = it /\ pass' = pass BY <1>1, QueueStill DEF ServeInv
<1>3. OnPass' /\ AtStep' /\ Ending'
  BY <1>1, <1>2 DEF ServeInv, OnPass, AtStep, Ending, Failed
<1>4. peer' \in [Reqs -> PeerType] /\ srv' \in SrvType /\ srv'.fixed = srv.fixed
  BY <1>1 DEF ServeInv, Types
<1>5. QED BY <1>1, <1>3, <1>4, StillInv

\* The invariant is inductive.
LEMMA StepKeeps == ServeInv /\ [Next]_vars => ServeInv'
<1> SUFFICES ASSUME ServeInv, [Next]_vars PROVE ServeInv'
  OBVIOUS
<1>1. CASE UNCHANGED vars BY <1>1, SameInv
<1>2. CASE Server
  <2>1. CASE Listen \/ Poll \/ NextPort \/ Keep BY <2>1, LoopsInv
  <2>2. QED
    BY <1>2, <2>1, EndpointInv, AcceptedInv, PassInv, StepsInv, FinalizeInv DEF Server
<1>3. CASE \E c \in Conns : Connect(c) BY <1>3, ConnectInv
<1>4. CASE \/ \E c \in Conns : Send(c) \/ Leave(c)
           \/ \E f \in Files : Command(f)
  BY <1>4, PeersInv
<1>5. QED BY <1>1, <1>2, <1>3, <1>4 DEF Next

\* Every reachable state of the server satisfies the inductive invariant.
THEOREM ServeInvariant == Spec => []ServeInv
<1>1. Init => ServeInv BY InitInv
<1>2. ServeInv /\ [Next]_vars => ServeInv' BY StepKeeps
<1>3. QED BY <1>1, <1>2, PTL DEF Spec

\* The queue holds exactly the live requests, each at the index it was told.
THEOREM ServeQueueExact == Spec => []QueueExact
<1>1. ServeInv => QueueExact
  <2> SUFFICES ASSUME ServeInv PROVE QueueExact
    OBVIOUS
  <2>1. \A r \in Live : r \in Reqs /\ req[r].idx \in Q!Indices /\ it.slots[req[r].idx] = r
    BY DEF ServeInv, Tracked, Live
  <2>2. \A r \in Live : r \in Q!Queued
    BY <2>1, ServeAssumption DEF Q!Queued, Q!Occupied
  <2>3. \A r \in Q!Queued : r \in Live
    <3>1. \A i \in Q!Occupied(it) : it.slots[i] \in Reqs
      BY QueueTypes DEF ServeInv, Q!Occupied
    <3>2. QED BY <3>1 DEF ServeInv, Tracked, Live, Q!Queued
  <2>4. Q!Queued = Live BY <2>2, <2>3
  <2>5. QED BY <2>1, <2>4 DEF QueueExact
<1>2. QED BY <1>1, ServeInvariant, PTL

\* poll() waits for five seconds exactly when no connection is being served.
THEOREM ServeWaitsWhenIdle == Spec => []WaitsWhenIdle
<1>1. ServeInv => WaitsWhenIdle
  <2> SUFFICES ASSUME ServeInv PROVE WaitsWhenIdle
    OBVIOUS
  <2> DEFINE occ == Q!Occupied(it)
             fix == FixedAt
  <2>1. /\ IsFiniteSet(occ) /\ it.nvalues = Cardinality(occ) /\ srv.fixed = Cardinality(fix)
    BY QueueTypes DEF ServeInv, Counted
  <2>2. fix \subseteq occ BY DEF FixedAt
  <2>3. \A r \in Live : req[r].idx \in occ /\ it.slots[req[r].idx] = r
    BY ServeAssumption DEF ServeInv, Tracked, Live, Q!Occupied
  <2>4. \A i \in occ : it.slots[i] \in Live
    <3>1. \A i \in occ : it.slots[i] \in Reqs
      BY QueueTypes DEF ServeInv, Q!Occupied
    <3>2. QED BY <3>1 DEF ServeInv, Tracked, Live
  <2>5. fix = {i \in occ : it.slots[i] \in Files} BY DEF FixedAt
  <2> HIDE DEF occ, fix
  <2>6. Cardinality(occ) \in Nat /\ Cardinality(fix) \in Nat
    BY <2>1, <2>2, FS_Subset, FS_CardinalityType
  <2>7. ASSUME it.nvalues <= srv.fixed PROVE Live \subseteq Files
    <3>1. Cardinality(fix) <= Cardinality(occ) BY <2>1, <2>2, FS_Subset
    <3>2. Cardinality(fix) = Cardinality(occ) BY <2>1, <2>6, <2>7, <3>1
    <3>3. fix = occ BY <2>1, <2>2, <3>2, FS_Subset
    <3>4. QED BY <2>3, <2>5, <3>3
  <2>8. ASSUME Live \subseteq Files PROVE it.nvalues <= srv.fixed
    <3>1. fix = occ BY <2>4, <2>5, <2>8
    <3>2. QED BY <2>1, <2>6, <3>1
  <2>9. QED BY <2>7, <2>8 DEF WaitsWhenIdle
<1>2. QED BY <1>1, ServeInvariant, PTL

\* Nothing is sent before the whole request was read, nor a second status line.
THEOREM ServeAnswersWhole == Spec => []AnswersWhole
<1>1. ServeInv => AnswersWhole
  <2> SUFFICES ASSUME ServeInv, NEW c \in Conns, req[c].sent # <<>>
               PROVE  req[c].read = Pieces(c) /\ Len(req[c].sent) = 1
    BY DEF AnswersWhole
  <2>1. ConnGood(req[c], Pieces(c)) BY DEF ServeInv, ReqsGood
  <2>2. QED BY <2>1 DEF ConnGood
<1>2. QED BY <1>1, ServeInvariant, PTL

\* What is freed was answered once, with the status logged, and its file is closed.
THEOREM ServeFreedAnswered == Spec => []FreedAnswered
<1>1. ServeInv => FreedAnswered
  <2> SUFFICES ASSUME ServeInv, NEW c \in Conns, req[c].logged # NULL, ~Failed(c)
               PROVE  req[c].sent = <<req[c].logged>> /\ req[c].file # "open"
    BY DEF FreedAnswered
  <2>1. ConnGood(req[c], Pieces(c)) BY DEF ServeInv, ReqsGood
  <2>2. QED BY <2>1 DEF ConnGood, Failed
<1>2. QED BY <1>1, ServeInvariant, PTL

\* Only an Error leaves a request with an empty route to run.
THEOREM ServeEmptyAfterError == Spec => []EmptyAfterError
<1>1. ServeInv => EmptyAfterError BY DEF ServeInv, AtStep, EmptyAfterError
<1>2. QED BY <1>1, ServeInvariant, PTL

\* Every step of the server is a step of the Queue, or leaves it alone.
LEMMA QueueStep == ServeInv /\ [Next]_vars => [Q!Next]_(Q!vars)
<1> SUFFICES ASSUME ServeInv, [Next]_vars, ~(UNCHANGED (Q!vars)) PROVE Q!Next
  OBVIOUS
<1>0. ~(UNCHANGED qvars) BY DEF Q!vars, qvars
<1>1. CASE \E a \in Reqs : Q!Queue_Add(a) BY <1>1 DEF Q!Next
<1>2. CASE Pass
  <2> DEFINE ready == {r \in Q!Queued : ReqCrit_Func(r, req[r], TRUE)}
  <2>1. ready \in SUBSET Q!Queued /\ Q!NextAmong(ready) BY <1>2 DEF Pass
  <2> HIDE DEF ready
  <2>2. Q!Queue_Next BY <2>1, PassQueue DEF ServeInv
  <2>3. QED BY <2>2 DEF Q!Next
<1>3. CASE Finalize
  <2> DEFINE i == req[srv.cur].idx
  <2>1. Q!Queue_Remove(i) /\ srv.pc = "after" BY <1>3 DEF Finalize
  <2>2. /\ srv.cur \in Reqs /\ i \in Q!Indices /\ it.slots[i] = srv.cur
        /\ pass /\ ~it.end /\ it.idx = i
    BY <2>1 DEF ServeInv, OnPass, Tracked
  <2>3. i \in Q!Occupied(it) BY <2>2, ServeAssumption DEF Q!Occupied
  <2>4. Q!Removable(i) BY <2>2 DEF Q!Removable
  <2>5. QED BY <2>1, <2>3, <2>4 DEF Q!Next
<1>4. CASE Step
  BY <1>0, <1>4 DEF Step, CmdFile_HandleInput, HttpReq_TlsAccept, HttpReq_ReadToRbl, BodyArrives,
     Serveneka_Prepare, HttpReq_Stats, HttpStatic_RetrieveFile, HttpReq_Write, NullStep,
     HttpReq_ParseBody, Halt, Ran
<1>5. CASE Listen \/ Poll \/ NextPort \/ Keep
  BY <1>0, <1>5 DEF Listen, Poll, NextPort, Keep
<1>6. CASE \/ \E c \in Conns : Connect(c) \/ Send(c) \/ Leave(c)
           \/ \E f \in Files : Command(f)
  BY <1>0, <1>6 DEF Connect, Send, Leave, Command
<1>7. CASE \/ \E f \in Files : Serve_AddEndpoint(f)
           \/ \E c \in Conns : Accept(c)
  BY <1>1, <1>7 DEF Serve_AddEndpoint, Accept, Reqs
<1>8. QED BY <1>0, <1>2, <1>3, <1>4, <1>5, <1>6, <1>7 DEF Next, Server, vars

\* The server uses the queue as Queue expects of its client: ~pass when it adds,
\* and what it removes is the item the pass stands on.
THEOREM ServeQueueProtocol == Spec => QueueProtocol
<1>1. Init => Q!Init BY DEF Init
<1>2. ServeInv /\ [Next]_vars => [Q!Next]_(Q!vars) BY QueueStep
<1>3. QED BY <1>1, <1>2, ServeInvariant, PTL DEF Spec, QueueProtocol, Q!Spec
====
