---------------------------- MODULE BuildProofs ----------------------------
(***************************************************************************)
(* Proofs about the build tool, for all modules and the files in them, all *)
(* entries that are picked, and any number of edits, stops and seconds.    *)
(*                                                                         *)
(* First the order in which modules are registered, which is defined by    *)
(* recursion over what is still to be parsed: that there is such an order, *)
(* that parsing ends, and what is in it.  Then an inductive invariant of   *)
(* bootstrap and the build it runs, part by part.                          *)
(***************************************************************************)
EXTENDS Bootstrap, FiniteSetTheorems, WellFoundedInduction, TLAPS

(* The order is a function of what is registered and what is named.        *)
IsOrder(f, options) ==
  f = [p \in Parsing |-> IF p.todo = <<>> THEN p.seen ELSE f[Register(p, options)]]

(* A function that is one; RegisterAll chooses it so.                      *)
OrderOf(options) == CHOOSE f : IsOrder(f, options)

(* The source is registered first.                                         *)
Start(src) == [seen |-> <<>>, todo |-> <<src>>]

(* What a set has that is closed under registering, from p on.             *)
Closed(S, options) ==
  \A q \in S : q.todo # <<>> => Register(q, options) \in S
Reach(p, options) ==
  {q \in Parsing : \A S \in SUBSET Parsing : p \in S /\ Closed(S, options) => q \in S}
Ends(p, options) == {q \in Reach(p, options) : q.todo = <<>>}

\* One more is in the set of a sequence it is appended to.
LEMMA AppendedSet ==
  ASSUME NEW S, NEW s \in Seq(S), NEW e
  PROVE  /\ ToSet(Append(s, e)) = ToSet(s) \union {e}
         /\ Len(Append(s, e)) = Len(s) + 1 /\ Append(s, e)[Len(s) + 1] = e
         /\ \A i \in 1 .. Len(s) : Append(s, e)[i] = s[i]
<1> DEFINE t == Append(s, e)
<1>1. Len(s) \in Nat /\ DOMAIN s = 1 .. Len(s)
  OBVIOUS
<1>2. DOMAIN t = 1 .. Len(s) + 1 /\ Len(t) = Len(s) + 1
  OBVIOUS
<1>3. t[Len(s) + 1] = e /\ \A i \in 1 .. Len(s) : t[i] = s[i]
  OBVIOUS
<1> HIDE DEF t
<1>4. ToSet(t) = ToSet(s) \union {e}
  BY <1>1, <1>2, <1>3 DEF ToSet
<1>5. QED BY <1>2, <1>3, <1>4 DEF t

\* A sequence has its first element and those after it.
LEMMA HeadAndTail ==
  ASSUME NEW S, NEW s \in Seq(S), s # <<>>
  PROVE  ToSet(s) = {Head(s)} \union ToSet(Tail(s))
<1> DEFINE t == Tail(s)
<1>1. Len(s) \in Nat /\ Len(s) > 0 /\ DOMAIN s = 1 .. Len(s) /\ Head(s) = s[1]
  OBVIOUS
<1>2. DOMAIN t = 1 .. Len(s) - 1 /\ \A i \in 1 .. Len(s) - 1 : t[i] = s[i + 1]
  OBVIOUS
<1> HIDE DEF t
<1>3. ASSUME NEW i \in 1 .. Len(s) PROVE s[i] = s[1] \/ \E j \in 1 .. Len(s) - 1 : s[i] = t[j]
  <2>1. i # 1 => i - 1 \in 1 .. Len(s) - 1 /\ t[i - 1] = s[i]
    BY <1>1, <1>2
  <2>2. QED BY <2>1
<1>4. \A j \in 1 .. Len(s) - 1 : j + 1 \in 1 .. Len(s)
  BY <1>1
<1>5. 1 \in 1 .. Len(s)
  BY <1>1
<1>6. ToSet(s) = {s[i] : i \in 1 .. Len(s)} /\ ToSet(t) = {t[i] : i \in 1 .. Len(s) - 1}
  BY <1>1, <1>2 DEF ToSet
<1>7. QED BY <1>1, <1>2, <1>3, <1>4, <1>5, <1>6 DEF t

\* Two sequences joined have the elements of both.
LEMMA JoinedSet ==
  ASSUME NEW S, NEW s \in Seq(S), NEW t \in Seq(S)
  PROVE  ToSet(s \o t) = ToSet(s) \union ToSet(t)
<1> DEFINE u == s \o t
<1>1. Len(s) \in Nat /\ Len(t) \in Nat /\ DOMAIN s = 1 .. Len(s) /\ DOMAIN t = 1 .. Len(t)
  OBVIOUS
<1>2. DOMAIN u = 1 .. Len(s) + Len(t)
  OBVIOUS
<1>3. \A i \in 1 .. Len(s) + Len(t) : u[i] = IF i <= Len(s) THEN s[i] ELSE t[i - Len(s)]
  OBVIOUS
<1> HIDE DEF u
<1>4. ASSUME NEW i \in DOMAIN u PROVE u[i] \in ToSet(s) \union ToSet(t)
  <2>1. CASE i <= Len(s)
    BY <1>1, <1>2, <1>3, <2>1 DEF ToSet
  <2>2. CASE i > Len(s)
    <3>1. i - Len(s) \in DOMAIN t /\ u[i] = t[i - Len(s)]
      BY <1>1, <1>2, <1>3, <2>2
    <3>2. QED BY <3>1 DEF ToSet
  <2>3. QED BY <1>1, <1>2, <2>1, <2>2
<1>5. ASSUME NEW i \in DOMAIN s PROVE s[i] \in ToSet(u)
  <2>1. i \in DOMAIN u /\ u[i] = s[i]
    BY <1>1, <1>2, <1>3
  <2>2. QED BY <2>1 DEF ToSet
<1>6. ASSUME NEW i \in DOMAIN t PROVE t[i] \in ToSet(u)
  <2>1. i + Len(s) \in DOMAIN u /\ u[i + Len(s)] = t[i]
    BY <1>1, <1>2, <1>3
  <2>2. QED BY <2>1 DEF ToSet
<1>7. QED BY <1>4, <1>5, <1>6 DEF ToSet, u

\* To register one module goes from one state of the parsing to another.
LEMMA RegisterType ==
  ASSUME NEW options, \A m \in Modules : Needs(m, options) \in Seq(Modules),
         NEW p \in Parsing, p.todo # <<>>
  PROVE  Register(p, options) \in Parsing
<1>1. p.seen \in Seq(Modules) /\ p.todo \in Seq(Modules) /\ p = [seen |-> p.seen, todo |-> p.todo]
  BY DEF Parsing
<1> DEFINE h == Head(p.todo)
           t == Tail(p.todo)
<1>2. h \in Modules /\ t \in Seq(Modules)
  BY <1>1
<1> HIDE DEF h, t
<1>3. Append(p.seen, h) \in Seq(Modules) /\ Needs(h, options) \o t \in Seq(Modules)
  BY <1>1, <1>2
<1>4. CASE h \in ToSet(p.seen)
  <2>1. Register(p, options) = [seen |-> p.seen, todo |-> t]
    BY <1>1, <1>4 DEF Register, h, t
  <2>2. QED BY <1>1, <1>2, <2>1 DEF Parsing
<1>5. CASE h \notin ToSet(p.seen)
  <2>1. Register(p, options) = [seen |-> Append(p.seen, h), todo |-> Needs(h, options) \o t]
    BY <1>5 DEF Register, h, t
  <2>2. QED BY <1>3, <2>1 DEF Parsing
<1>6. QED BY <1>4, <1>5

\* What registering can come to is the same from one step to the next.
LEMMA SameEnd ==
  ASSUME NEW options, \A m \in Modules : Needs(m, options) \in Seq(Modules),
         NEW p \in Parsing, p.todo # <<>>
  PROVE  Ends(p, options) = Ends(Register(p, options), options)
<1> DEFINE r == Register(p, options)
<1>1. r \in Parsing
  BY RegisterType
<1> HIDE DEF r
<1>2. ASSUME NEW q \in Reach(p, options), q.todo = <<>>
      PROVE  q \in Reach(r, options)
  <2> SUFFICES ASSUME NEW S \in SUBSET Parsing, r \in S, Closed(S, options)
               PROVE  q \in S
    BY <1>2 DEF Reach
  <2>1. S \union {p} \in SUBSET Parsing /\ Closed(S \union {p}, options)
    BY DEF Closed, r
  <2>2. q \in S \union {p}
    BY <1>2, <2>1 DEF Reach
  <2>3. QED BY <1>2, <2>2
<1>3. ASSUME NEW q \in Reach(r, options)
      PROVE  q \in Reach(p, options)
  <2> SUFFICES ASSUME NEW S \in SUBSET Parsing, p \in S, Closed(S, options)
               PROVE  q \in S
    BY <1>3 DEF Reach
  <2>1. r \in S
    BY DEF Closed, r
  <2>2. QED BY <1>3, <2>1 DEF Reach
<1>4. QED BY <1>2, <1>3 DEF Ends, r

\* So there is an order, whether registering ends or not.
LEMMA OrderExists ==
  ASSUME NEW options, \A m \in Modules : Needs(m, options) \in Seq(Modules)
  PROVE  IsOrder(OrderOf(options), options)
<1> DEFINE f == [p \in Parsing |-> (CHOOSE q \in Ends(p, options) : TRUE).seen]
<1>1. ASSUME NEW p \in Parsing, p.todo = <<>>
      PROVE  f[p] = p.seen
  <2>1. {p} \in SUBSET Parsing /\ p \in {p} /\ Closed({p}, options)
    BY <1>1 DEF Closed
  <2>2. Ends(p, options) = {p}
    BY <1>1, <2>1 DEF Ends, Reach
  <2>3. QED BY <2>2
<1>2. ASSUME NEW p \in Parsing, p.todo # <<>>
      PROVE  f[p] = f[Register(p, options)]
  <2>1. Register(p, options) \in Parsing
    BY <1>2, RegisterType
  <2>2. Ends(p, options) = Ends(Register(p, options), options)
    BY <1>2, SameEnd
  <2>3. QED BY <2>1, <2>2
<1> HIDE DEF f
<1>3. f = [p \in Parsing |-> f[p]]
  BY DEF f
<1>4. IsOrder(f, options)
  BY <1>1, <1>2, <1>3 DEF IsOrder
<1>5. QED BY <1>4 DEF OrderOf

\* The least member of a set of naturals.
LEMMA LeastNatural ==
  ASSUME NEW S, S \subseteq Nat, S # {}
  PROVE  \E i \in S : \A j \in S : i <= j
<1> DEFINE Less == {p \in Nat \X Nat : p[1] < p[2]}
<1>1. IsWellFoundedOn(Less, Nat)
  BY NatLessThanWellFounded DEF OpToRel
<1> HIDE DEF Less
<1>2. PICK i \in S : \A j \in S : <<j, i>> \notin Less
  BY <1>1, WFMin
<1>3. ASSUME NEW j \in S PROVE i <= j
  <2>1. ~(j < i) BY <1>2, <1>3 DEF Less
  <2>2. QED BY <2>1
<1>4. QED BY <1>3

\* Registering ends: each step registers one more module, or leaves less to
\* look at.
LEMMA RegisterEnds ==
  ASSUME IsFiniteSet(Modules),
         NEW options, \A m \in Modules : Needs(m, options) \in Seq(Modules),
         NEW start \in Parsing
  PROVE  Ends(start, options) # {}
<1> DEFINE Unseen(p) == Modules \ ToSet(p.seen)
           Bad == {p \in Parsing : Ends(p, options) = {}}
           Counts == {Cardinality(Unseen(p)) : p \in Bad}
<1>1. \A p \in Parsing : IsFiniteSet(Unseen(p)) /\ Cardinality(Unseen(p)) \in Nat
  BY FS_Subset, FS_CardinalityType
<1> SUFFICES ASSUME start \in Bad PROVE FALSE
  OBVIOUS
<1>2. PICK k \in Counts : \A j \in Counts : k <= j
  <2>1. Counts \subseteq Nat /\ Counts # {}
    BY <1>1
  <2>2. QED BY <2>1, LeastNatural
<1> DEFINE Worst == {p \in Bad : Cardinality(Unseen(p)) = k}
           Lengths == {Len(p.todo) : p \in Worst}
<1>3. PICK n \in Lengths : \A j \in Lengths : n <= j
  <2>1. \A p \in Parsing : Len(p.todo) \in Nat
    BY DEF Parsing
  <2>2. Lengths \subseteq Nat /\ Lengths # {}
    BY <1>2, <2>1
  <2> HIDE DEF Lengths
  <2>3. QED BY <2>2, LeastNatural
<1>4. PICK p \in Worst : Len(p.todo) = n
  BY <1>3
<1>5. p \in Parsing /\ p.seen \in Seq(Modules) /\ p.todo \in Seq(Modules)
      /\ p = [seen |-> p.seen, todo |-> p.todo]
  BY <1>4 DEF Parsing
<1>6. p.todo # <<>>
  <2> SUFFICES ASSUME p.todo = <<>> PROVE FALSE
    OBVIOUS
  <2>1. p \in Ends(p, options)
    BY <1>5 DEF Ends, Reach
  <2>2. QED BY <1>4, <2>1
<1> DEFINE r == Register(p, options)
           h == Head(p.todo)
<1>7. r \in Bad
  BY <1>4, <1>5, <1>6, RegisterType, SameEnd
<1>8. h \in Modules /\ Tail(p.todo) \in Seq(Modules) /\ Len(Tail(p.todo)) < Len(p.todo)
  BY <1>5, <1>6
<1>9. CASE h \in ToSet(p.seen)
  <2>1. r.seen = p.seen /\ r.todo = Tail(p.todo)
    BY <1>5, <1>9 DEF Register
  <2>2. r \in Worst
    BY <1>4, <1>7, <2>1
  <2>3. Len(r.todo) \in Lengths
    BY <2>2
  <2>4. n <= Len(r.todo)
    BY <1>3, <2>3
  <2>5. Len(p.todo) \in Nat /\ Len(r.todo) \in Nat
    BY <1>5, <1>8, <2>1
  <2>6. QED BY <1>4, <1>8, <2>1, <2>4, <2>5
<1>10. CASE h \notin ToSet(p.seen)
  <2>1. r.seen = Append(p.seen, h)
    BY <1>10 DEF Register
  <2>2. ToSet(r.seen) = ToSet(p.seen) \union {h}
    BY <1>5, <1>8, <2>1, AppendedSet
  <2>3. Unseen(r) = Unseen(p) \ {h} /\ h \in Unseen(p)
    BY <1>8, <1>10, <2>2
  <2>4. Cardinality(Unseen(r)) = Cardinality(Unseen(p)) - 1
    <3> HIDE DEF Unseen
    <3>1. IsFiniteSet(Unseen(p))
      BY <1>1, <1>5
    <3>2. QED BY <2>3, <3>1, FS_RemoveElement
  <2>5. Cardinality(Unseen(r)) \in Counts
    BY <1>7
  <2>6. k <= Cardinality(Unseen(r)) /\ Cardinality(Unseen(p)) = k /\ k \in Nat
    BY <1>1, <1>2, <1>4, <1>5, <2>5
  <2>7. QED BY <2>4, <2>6
<1>11. QED BY <1>9, <1>10

\* The order is what registering comes to.
LEMMA OrderIsAnEnd ==
  ASSUME IsFiniteSet(Modules), NEW src \in Modules,
         NEW options, \A m \in Modules : Needs(m, options) \in Seq(Modules)
  PROVE  \E q \in Ends(Start(src), options) : RegisterAll(src, options) = q.seen
<1> DEFINE f == OrderOf(options)
           p == Start(src)
<1>1. RegisterAll(src, options) = f[p]
  BY DEF RegisterAll, OrderOf, IsOrder, Start
<1>2. f = [q \in Parsing |-> IF q.todo = <<>> THEN q.seen ELSE f[Register(q, options)]]
  BY OrderExists DEF IsOrder
<1>3. p \in Parsing
  BY DEF Start, Parsing
<1>4. PICK q \in Ends(p, options) : TRUE
  BY <1>3, RegisterEnds
<1> HIDE DEF f, p
<1> DEFINE Kept == {x \in Parsing : f[x] = f[p]}
<1>5. Closed(Kept, options)
  <2> SUFFICES ASSUME NEW x \in Kept, x.todo # <<>>
               PROVE  Register(x, options) \in Kept
    BY DEF Closed
  <2>1. f[x] = f[Register(x, options)]
    BY <1>2
  <2>2. Register(x, options) \in Parsing
    BY RegisterType
  <2>3. QED BY <2>1, <2>2
<1>6. q \in Kept
  BY <1>3, <1>4, <1>5 DEF Ends, Reach
<1>7. f[q] = q.seen
  BY <1>2, <1>4 DEF Ends, Reach
<1>8. QED BY <1>1, <1>4, <1>6, <1>7 DEF p

(* What is listed is named on some module's lines, but for the first.      *)
Named(m, options) == \E n \in Modules : m \in ToSet(Needs(n, options))

(* An order in which every module that is built is once, the source first, *)
(* with all that is named.                                                 *)
Listed(o, src, options) ==
  /\ o \in Seq(Modules) /\ o # <<>> /\ o[1] = src
  /\ \A i, j \in 1 .. Len(o) : o[i] = o[j] => i = j
  /\ \A i \in 2 .. Len(o) : Named(o[i], options)
  /\ \A m \in ToSet(o) : ToSet(Needs(m, options)) \subseteq ToSet(o)

(* So far.                                                                 *)
Listing(p, src, options) ==
  /\ \A i, j \in 1 .. Len(p.seen) : p.seen[i] = p.seen[j] => i = j
  /\ \/ p = Start(src)
     \/ p.seen # <<>> /\ p.seen[1] = src /\ \A m \in ToSet(p.todo) : Named(m, options)
  /\ \A i \in 2 .. Len(p.seen) : Named(p.seen[i], options)
  /\ \A m \in ToSet(p.seen) :
       ToSet(Needs(m, options)) \subseteq ToSet(p.seen) \union ToSet(p.todo)

\* To register one module keeps what is listed so far as it should be.
LEMMA ListingStep ==
  ASSUME NEW src \in Modules,
         NEW options, \A m \in Modules : Needs(m, options) \in Seq(Modules),
         NEW p \in Parsing, p.todo # <<>>, Listing(p, src, options)
  PROVE  Listing(Register(p, options), src, options)
<1> DEFINE h == Head(p.todo)
           t == Tail(p.todo)
           r == Register(p, options)
<1>1. p.seen \in Seq(Modules) /\ p.todo \in Seq(Modules) /\ p = [seen |-> p.seen, todo |-> p.todo]
  BY DEF Parsing
<1>2. h \in Modules /\ t \in Seq(Modules)
  BY <1>1
<1>3. ToSet(p.todo) = {h} \union ToSet(t)
  BY <1>1, HeadAndTail
<1>4. Len(p.seen) \in Nat /\ (p.seen = <<>> <=> Len(p.seen) = 0)
      /\ DOMAIN p.seen = 1 .. Len(p.seen)
  BY <1>1
<1>5. p = Start(src) => p.seen = <<>> /\ h = src /\ t = <<>>
  BY DEF Start
<1> HIDE DEF h, t
<1>6. CASE h \in ToSet(p.seen)
  <2>1. r = [seen |-> p.seen, todo |-> t]
    BY <1>1, <1>6 DEF Register, h, t
  <2>2. r.seen = p.seen /\ r.todo = t
    BY <2>1
  <2>3. p # Start(src)
    <3> SUFFICES ASSUME p = Start(src) PROVE FALSE
      OBVIOUS
    <3>1. ToSet(p.seen) = {}
      BY <1>4, <1>5 DEF ToSet
    <3>2. QED BY <1>6, <3>1
  <2>4. ToSet(r.todo) \subseteq ToSet(p.todo)
        /\ ToSet(r.seen) \union ToSet(r.todo) = ToSet(p.seen) \union ToSet(p.todo)
    BY <1>3, <1>6, <2>2
  <2> HIDE DEF r
  <2>5. p.seen # <<>> /\ p.seen[1] = src /\ \A m \in ToSet(r.todo) : Named(m, options)
    BY <2>3, <2>4 DEF Listing
  <2>6. /\ \A i, j \in 1 .. Len(r.seen) : r.seen[i] = r.seen[j] => i = j
        /\ \A i \in 2 .. Len(r.seen) : Named(r.seen[i], options)
    BY <2>2 DEF Listing
  <2>7. \A m \in ToSet(r.seen) :
          ToSet(Needs(m, options)) \subseteq ToSet(r.seen) \union ToSet(r.todo)
    BY <2>2, <2>4 DEF Listing
  <2>8. QED BY <2>2, <2>5, <2>6, <2>7 DEF Listing, r
<1>7. CASE h \notin ToSet(p.seen)
  <2> DEFINE d == Needs(h, options)
             s == Append(p.seen, h)
  <2>1. r.seen = s /\ r.todo = d \o t
    BY <1>7 DEF Register, h, t
  <2>2. d \in Seq(Modules)
    BY <1>2
  <2>3. ToSet(d \o t) = ToSet(d) \union ToSet(t)
    BY <1>2, <2>2, JoinedSet
  <2>4. /\ ToSet(s) = ToSet(p.seen) \union {h} /\ s \in Seq(Modules)
        /\ Len(s) = Len(p.seen) + 1 /\ s[Len(p.seen) + 1] = h
        /\ \A i \in 1 .. Len(p.seen) : s[i] = p.seen[i]
    BY <1>1, <1>2, AppendedSet
  <2> HIDE DEF d, s, r
  <2>5. \A i \in 1 .. Len(p.seen) : p.seen[i] # h
    BY <1>4, <1>7 DEF ToSet
  <2>6. \A i, j \in 1 .. Len(s) : s[i] = s[j] => i = j
    <3> SUFFICES ASSUME NEW i \in 1 .. Len(s), NEW j \in 1 .. Len(s), s[i] = s[j]
                 PROVE  i = j
      OBVIOUS
    <3>0. \A k \in 1 .. Len(s) :
            k # Len(p.seen) + 1 => k \in 1 .. Len(p.seen) /\ s[k] = p.seen[k] /\ s[k] # h
      <4>1. \A k \in 1 .. Len(s) : k # Len(p.seen) + 1 => k \in 1 .. Len(p.seen)
        BY <1>4, <2>4
      <4>2. QED BY <2>4, <2>5, <4>1
    <3>1. CASE i = Len(p.seen) + 1
      BY <2>4, <3>0, <3>1
    <3>2. CASE j = Len(p.seen) + 1
      BY <2>4, <3>0, <3>2
    <3>3. CASE i # Len(p.seen) + 1 /\ j # Len(p.seen) + 1
      BY <3>0, <3>3 DEF Listing
    <3>4. QED BY <3>1, <3>2, <3>3
  <2>7. \A m \in ToSet(d) : Named(m, options)
    BY <1>2 DEF Named, d
  <2>8. s # <<>> /\ s[1] = src /\ \A m \in ToSet(d \o t) : Named(m, options)
    <3>1. s # <<>>
      BY <1>4, <2>4
    <3>2. CASE p = Start(src)
      <4>1. Len(p.seen) = 0
        BY <1>4, <1>5, <3>2
      <4>2. ToSet(t) = {}
        BY <1>5, <3>2 DEF ToSet
      <4>3. QED BY <1>5, <2>3, <2>4, <2>7, <3>1, <3>2, <4>1, <4>2
    <3>3. CASE p # Start(src)
      <4>1. p.seen # <<>> /\ p.seen[1] = src /\ \A m \in ToSet(p.todo) : Named(m, options)
        BY <3>3 DEF Listing
      <4>2. 1 \in 1 .. Len(p.seen)
        BY <1>4, <4>1
      <4>3. QED BY <1>3, <2>3, <2>4, <2>7, <3>1, <4>1, <4>2
    <3>4. QED BY <3>2, <3>3
  <2>9. \A i \in 2 .. Len(s) : Named(s[i], options)
    <3> SUFFICES ASSUME NEW i \in 2 .. Len(s) PROVE Named(s[i], options)
      OBVIOUS
    <3>1. CASE i = Len(p.seen) + 1
      <4>1. p # Start(src)
        BY <1>4, <1>5, <3>1
      <4>2. Named(h, options)
        BY <1>3, <4>1 DEF Listing
      <4>3. QED BY <2>4, <3>1, <4>2
    <3>2. CASE i # Len(p.seen) + 1
      <4>1. i \in 2 .. Len(p.seen) /\ i \in 1 .. Len(p.seen)
        BY <1>4, <2>4, <3>2
      <4>2. QED BY <2>4, <4>1 DEF Listing
    <3>3. QED BY <3>1, <3>2
  <2>10. \A m \in ToSet(s) :
           ToSet(Needs(m, options)) \subseteq ToSet(s) \union ToSet(d \o t)
    BY <1>3, <2>3, <2>4 DEF Listing, d
  <2>11. r.seen # <<>> /\ r.seen[1] = src /\ \A m \in ToSet(r.todo) : Named(m, options)
    BY <2>1, <2>8
  <2>12. /\ \A i, j \in 1 .. Len(r.seen) : r.seen[i] = r.seen[j] => i = j
         /\ \A i \in 2 .. Len(r.seen) : Named(r.seen[i], options)
    BY <2>1, <2>6, <2>9
  <2>13. \A m \in ToSet(r.seen) :
           ToSet(Needs(m, options)) \subseteq ToSet(r.seen) \union ToSet(r.todo)
    BY <2>1, <2>10
  <2>14. QED BY <2>11, <2>12, <2>13 DEF Listing, r
<1>8. QED BY <1>6, <1>7

\* The order of a build has every module once, the source first, with all
\* that is named by one of it.
LEMMA OrderIsListed ==
  ASSUME IsFiniteSet(Modules), NEW src \in Modules,
         NEW options, \A m \in Modules : Needs(m, options) \in Seq(Modules)
  PROVE  Listed(RegisterAll(src, options), src, options)
<1>1. PICK q \in Ends(Start(src), options) : RegisterAll(src, options) = q.seen
  BY OrderIsAnEnd
<1> DEFINE S == {p \in Parsing : Listing(p, src, options)}
<1>2. Closed(S, options)
  BY RegisterType, ListingStep DEF Closed
<1>3. Start(src) \in S
  <2>1. Start(src) \in Parsing
    BY DEF Start, Parsing
  <2>2. Len(Start(src).seen) = 0 /\ ToSet(Start(src).seen) = {}
    BY DEF Start, ToSet
  <2>3. QED BY <2>1, <2>2 DEF Listing
<1>4. q \in S /\ q.todo = <<>>
  BY <1>1, <1>2, <1>3 DEF Ends, Reach
<1>5. q # Start(src)
  <2>1. Start(src).todo = <<src>> /\ <<src>> # <<>>
    BY DEF Start
  <2>2. QED BY <1>4, <2>1
<1>6. ToSet(q.todo) = {}
  BY <1>4 DEF ToSet
<1>7. q.seen \in Seq(Modules)
  BY <1>4 DEF Parsing
<1>8. QED BY <1>1, <1>4, <1>5, <1>6, <1>7 DEF Listing, Listed
-----------------------------------------------------------------------------
(* The order of the build that runs, and what of it is built.              *)
Order == RegisterAll(ctx.src, ctx.options)
Passed == {Order[i] : i \in Len(ctx.order) + 1 .. Len(Order)}

(* What a BuildCtx has.                                                    *)
BuildFields == {"pc", "src", "options", "order", "time", "todo", "at"}

(* The versions and times there are, and the places of bootstrap and of a  *)
(* build.                                                                  *)
Typed ==
  /\ clock \in 1 .. MAX_TIME /\ stops \in 0 .. BUILD_STOPS /\ raced \in BOOLEAN /\ taint \in BOOLEAN
  /\ DOMAIN file = DOMAIN Member /\ DOMAIN obj = DOMAIN Member /\ DOMAIN lib = Modules
  /\ DOMAIN exe = UNION {Execs(m) : m \in Modules}
  /\ \A f \in DOMAIN file : file[f].ver \in 0 .. MAX_EDITS /\ file[f].time \in 0 .. clock
  /\ \A f \in DOMAIN obj : obj[f].time \in -1 .. clock
  /\ \A m \in Modules : lib[m].time \in -1 .. clock
  /\ \A f \in DOMAIN exe : exe[f].time \in -1 .. clock
  /\ selected \in 0 .. 10
  /\ DOMAIN boot = {"at", "cmds"} /\ boot.at \in {"menu", "base", "cmd"}
  /\ DOMAIN ctx = BuildFields
  /\ ctx.pc \in {"idle", "module", "sources", "link", "execs", "done"}

(* The commands left are those of an entry that was picked: builds and     *)
(* programs, or to clean.                                                  *)
PickedCmds == UNION {ToSet(entry.cmds) : entry \in Picked}
Cleans(cmds) == \A c \in ToSet(cmds) : c.run = "clean"
Makes(cmds) == \A c \in ToSet(cmds) : c.run # "clean"

Commanded ==
  /\ boot.cmds \in Seq(PickedCmds)
  /\ boot.at = "base" => Makes(boot.cmds)
  /\ boot.at = "cmd" => Makes(boot.cmds) \/ Cleans(boot.cmds)
  /\ ctx.pc # "idle" => Commands("build")

(* Where a build is in its order, and in the module it is at.              *)
Underway ==
  ctx.pc # "idle" =>
    /\ \E c \in Builds : ctx.src = c.src /\ ctx.options = c.options
    /\ ctx.order \in Seq(Modules) /\ Len(ctx.order) <= Len(Order)
    /\ \A i \in 1 .. Len(ctx.order) : ctx.order[i] = Order[i]
    /\ ctx.pc = "done" <=> ctx.order = <<>>
    /\ ctx.pc \in {"sources", "link"} => ctx.todo \subseteq Objects(Module, ctx.options)
    /\ ctx.pc = "link" => \E f \in Objects(Module, ctx.options) : ctx.at = <<f>> /\ f \notin ctx.todo
    /\ ctx.pc = "execs" => ctx.todo \subseteq Execs(Module)

(* The library of the module is being filled.                              *)
Filling == ctx.pc \in {"sources", "link"}

(* There is a library of every module that is built, and of base, which    *)
(* bootstrap makes first.                                                  *)
Ready ==
  ctx.pc # "idle" =>
    /\ \A m \in Passed : HasTarget(m) => Exists(lib[m])
    /\ ctx.pc = "sources" => ctx.todo = Objects(Module, ctx.options) \/ Exists(lib[Module])
    /\ ctx.pc = "execs" /\ HasTarget(Module) => Exists(lib[Module])

BaseThere ==
  boot.at = "cmd" /\ boot.cmds # <<>> /\ Makes(boot.cmds) =>
    Exists(lib["base"]) \/ (Filling /\ Module = "base")

(* Of the files of a module, what was read is the last version.            *)
LastIn(fl, files) == {<<f, fl[f].ver>> : f \in files}
Good(fl, reads, files, own) ==
  /\ LastIn(fl, files) \subseteq reads
  /\ \A p \in reads : p[1] \in own => p \in LastIn(fl, own)

(* What the objects of a library have read.                                *)
HeldBy(l) == UNION {l.members[n] : n \in DOMAIN l.members}

(* An object of the source f of a module, and its library, that are good.  *)
GoodObj(fl, reads, f, m, options) == Good(fl, reads, {f} \union Headers[m], Own(m, options))
GoodLib(fl, l, m, options) == Good(fl, HeldBy(l), Own(m, options), Own(m, options))

(* A file of the module was saved no earlier, so that what is of that time *)
(* is not left as it is.                                                   *)
Late(fl, time, files) == \E g \in files : fl[g].time >= time

(* What is left as it is, is good.                                         *)
SoundObj(fl, o, f, m, options) ==
  Exists(o) => Late(fl, o.time, Gathered(m, options)) \/ GoodObj(fl, o.reads, f, m, options)
SoundLib(fl, l, m, options) ==
  Exists(l) => Late(fl, l.time, Gathered(m, options)) \/ GoodLib(fl, l, m, options)

Sound ==
  ~raced =>
    \A c \in Builds : \A m \in Deps(c) :
      /\ \A f \in Objects(m, c.options) : SoundObj(file, obj[f], f, m, c.options)
      /\ ~(Filling /\ Module = m) => SoundLib(file, lib[m], m, c.options)

(* The members of the library that is filled.                              *)
Filled(fl, l, fs, m, options) ==
  /\ \A f \in fs : /\ Member[f] \in DOMAIN l.members
                   /\ GoodObj(fl, l.members[Member[f]], f, m, options)
  /\ \A n \in DOMAIN l.members : \E f \in fs : n = Member[f]
  /\ fs = {} => ~Exists(l)

(* What the build knows of the times of files, and has built, is as they   *)
(* are.                                                                    *)
Known(fl, times, m, options) ==
  Objects(m, options) # {} =>
    times[m] \in Int /\ \A g \in Gathered(m, options) : fl[g].time <= times[m]

Current ==
  ~raced /\ ctx.pc # "idle" =>
    /\ \A m \in ToSet(Order) : Known(file, ctx.time, m, ctx.options)
    /\ \A m \in Passed : HasTarget(m) => GoodLib(file, lib[m], m, ctx.options)
    /\ ctx.pc = "sources" =>
         Filled(file, lib[Module], Objects(Module, ctx.options) \ ctx.todo, Module, ctx.options)
    /\ ctx.pc = "link" =>
         /\ Filled(file, lib[Module], Objects(Module, ctx.options) \ (ctx.todo \union {ctx.at[1]}),
                   Module, ctx.options)
         /\ GoodObj(file, obj[ctx.at[1]].reads, ctx.at[1], Module, ctx.options)
    /\ ctx.pc = "execs" /\ HasTarget(Module) => GoodLib(file, lib[Module], Module, ctx.options)

(* After a clean build, everything there is was read as it is.             *)
UpToDate(fl, reads) == \A p \in reads : p[2] = fl[p[1]].ver
Empty ==
  /\ \A f \in DOMAIN obj : obj[f].reads = {}
  /\ \A m \in Modules : HeldBy(lib[m]) = {}
  /\ \A f \in DOMAIN exe : exe[f].reads = {}

Untainted ==
  ~taint =>
    /\ \A f \in DOMAIN obj : UpToDate(file, obj[f].reads)
    /\ \A m \in Modules : UpToDate(file, HeldBy(lib[m]))
    /\ \A f \in DOMAIN exe : UpToDate(file, exe[f].reads)
    /\ ctx.pc = "idle" => Empty \/ Exists(lib["base"])

(* The inductive invariant; and with it, where a module is of the same     *)
(* files in every build, what is skipped and what a build has made.        *)
BuildInv == Typed /\ Commanded /\ Underway /\ Ready /\ BaseThere /\ Untainted
CurrentInv == BuildInv /\ Sound /\ Current
-----------------------------------------------------------------------------
\* What a build that was picked has by the assumption, and its order.
LEMMA PickedBuild ==
  ASSUME NEW c \in Builds
  PROVE  /\ c.src \in Modules
         /\ \A m \in Modules : Needs(m, c.options) \in Seq(Modules)
         /\ Listed(RegisterAll(c.src, c.options), c.src, c.options)
         /\ Deps(c) = ToSet(RegisterAll(c.src, c.options)) /\ Deps(c) \subseteq Modules
<1>1. /\ IsFiniteSet(Modules) /\ c.src \in Modules
      /\ \A m \in Modules : Needs(m, c.options) \in Seq(Modules)
  BY BuildAssumption
<1>2. Listed(RegisterAll(c.src, c.options), c.src, c.options)
  BY <1>1, OrderIsListed
<1>3. RegisterAll(c.src, c.options) \in Seq(Modules)
  BY <1>2 DEF Listed
<1>4. ToSet(RegisterAll(c.src, c.options)) \subseteq Modules
  BY <1>3 DEF ToSet
<1>5. QED BY <1>1, <1>2, <1>4 DEF Deps

\* A module that two builds make is of the same files in both.
LEMMA SameFiles ==
  ASSUME SameSources, NEW c \in Builds, NEW d \in Builds, NEW m \in Deps(c), m \in Deps(d)
  PROVE  /\ Gathered(m, c.options) = Gathered(m, d.options)
         /\ Objects(m, c.options) = Objects(m, d.options)
         /\ Own(m, c.options) = Own(m, d.options)
<1>1. Dest(m, c.options) = Dest(m, d.options)
  BY DEF SameSources
<1>2. QED BY <1>1 DEF Gathered, Objects, Own

\* An object is of one module.
LEMMA OwnObjects ==
  ASSUME NEW c \in Builds, NEW d \in Builds, NEW m \in Deps(c), NEW n \in Deps(d),
         NEW f \in Objects(m, c.options), f \in Objects(n, d.options)
  PROVE  m = n
BY BuildAssumption

\* The files of a module are files.
LEMMA OwnFiles ==
  ASSUME NEW c \in Builds, NEW m \in Modules
  PROVE  /\ Own(m, c.options) \subseteq Gathered(m, c.options)
         /\ Objects(m, c.options) \subseteq Gathered(m, c.options)
         /\ Headers[m] \subseteq Own(m, c.options)
         /\ Gathered(m, c.options) \subseteq DOMAIN Member
<1>1. Gathered(m, c.options) \subseteq DOMAIN Member
  BY BuildAssumption
<1>2. QED BY <1>1 DEF Own, Objects, Gathered

\* Where a build stands.
LEMMA Standing ==
  ASSUME Underway, ctx.pc # "idle"
  PROVE  /\ \E c \in Builds : /\ ctx.src = c.src /\ ctx.options = c.options
                              /\ Deps(c) = ToSet(Order)
         /\ Listed(Order, ctx.src, ctx.options) /\ ToSet(Order) \subseteq Modules
         /\ Passed \subseteq ToSet(Order) /\ (ctx.pc = "done" => Passed = ToSet(Order))
         /\ Len(ctx.order) \in Nat
         /\ ctx.pc # "done" => /\ Len(ctx.order) > 0 /\ Module = Order[Len(ctx.order)]
                               /\ Module \in ToSet(Order) /\ Module \notin Passed
<1>1. PICK c \in Builds : ctx.src = c.src /\ ctx.options = c.options
  BY DEF Underway
<1>2. /\ Listed(Order, ctx.src, ctx.options) /\ Deps(c) = ToSet(Order) /\ Deps(c) \subseteq Modules
  BY <1>1, PickedBuild DEF Order
<1>3. Order \in Seq(Modules) /\ \A i, j \in 1 .. Len(Order) : Order[i] = Order[j] => i = j
  BY <1>2 DEF Listed
<1>4. Len(Order) \in Nat /\ DOMAIN Order = 1 .. Len(Order)
  BY <1>3
<1>5. /\ ctx.order \in Seq(Modules) /\ Len(ctx.order) <= Len(Order)
      /\ \A i \in 1 .. Len(ctx.order) : ctx.order[i] = Order[i]
      /\ ctx.pc = "done" <=> ctx.order = <<>>
  BY DEF Underway
<1>6. Len(ctx.order) \in Nat /\ (ctx.order = <<>> <=> Len(ctx.order) = 0)
  BY <1>5
<1>7. ToSet(Order) = {Order[i] : i \in 1 .. Len(Order)}
  BY <1>4 DEF ToSet
<1>8. Passed \subseteq ToSet(Order)
  BY <1>4, <1>6, <1>7 DEF Passed
<1>9. ctx.pc = "done" => Passed = ToSet(Order)
  BY <1>4, <1>5, <1>6, <1>7 DEF Passed
<1>10. ASSUME ctx.pc # "done"
       PROVE  /\ Len(ctx.order) > 0 /\ Module = Order[Len(ctx.order)]
              /\ Module \in ToSet(Order) /\ Module \notin Passed
  <2>1. Len(ctx.order) > 0 /\ Len(ctx.order) \in 1 .. Len(ctx.order) /\ Len(ctx.order) \in 1 .. Len(Order)
    BY <1>4, <1>5, <1>6, <1>10
  <2>2. Module = Order[Len(ctx.order)]
    BY <1>5, <2>1 DEF Module, Last
  <2>3. Module \in ToSet(Order)
    BY <1>7, <2>1, <2>2
  <2>4. ASSUME NEW j \in Len(ctx.order) + 1 .. Len(Order) PROVE Order[j] # Module
    <3>1. j \in 1 .. Len(Order) /\ j # Len(ctx.order)
      BY <1>4, <1>6, <2>1
    <3>2. QED BY <1>3, <2>1, <2>2, <3>1
  <2>5. QED BY <2>1, <2>2, <2>3, <2>4 DEF Passed
<1>11. QED BY <1>1, <1>2, <1>6, <1>8, <1>9, <1>10

\* A module has a library as a target just when it has objects.
LEMMA TargetHasObjects ==
  ASSUME Underway, ctx.pc \notin {"idle", "done"}
  PROVE  HasTarget(Module) <=> Objects(Module, ctx.options) # {}
<1>1. PICK c \in Builds : ctx.options = c.options /\ Deps(c) = ToSet(Order)
  BY Standing
<1>2. Module \in Deps(c)
  BY <1>1, Standing
<1>3. QED BY <1>1, <1>2, BuildAssumption DEF HasTarget

\* What is newer than the newest file is later than all.
LEMMA NewestIs ==
  ASSUME NEW files, files \subseteq DOMAIN file, files # {},
         \A f \in DOMAIN file : file[f].time \in 0 .. clock, clock \in Nat
  PROVE  /\ Newest(files) \in 0 .. clock
         /\ \A f \in files : file[f].time <= Newest(files)
<1> DEFINE times == {file[f].time : f \in files}
<1>1. times \subseteq Nat /\ times # {} /\ \A t \in times : t \in 0 .. clock
  OBVIOUS
<1> HIDE DEF times
<1>2. PICK t \in times : \A u \in times : u <= t
  <2> DEFINE left == {clock - u : u \in times}
  <2>1. left \subseteq Nat /\ left # {}
    <3>1. \A u \in times : clock - u \in Nat
      BY <1>1
    <3>2. QED BY <1>1, <3>1
  <2>2. PICK k \in left : \A l \in left : k <= l
    <3> HIDE DEF left
    <3>1. QED BY <2>1, LeastNatural
  <2>3. PICK t \in times : k = clock - t
    BY <2>2
  <2>4. ASSUME NEW u \in times PROVE u <= t
    <3>1. k <= clock - u BY <2>2
    <3>2. u \in Nat /\ t \in Nat BY <1>1
    <3>3. QED BY <2>3, <3>1, <3>2
  <2>5. QED BY <2>4
<1>3. Newest(files) \in times /\ \A f \in files : file[f].time <= Newest(files)
  <2>1. \A f \in files : file[f].time <= t
    BY <1>2 DEF times
  <2>2. QED BY <1>2, <2>1 DEF Newest, times
<1>4. QED BY <1>1, <1>3

\* So there is no file of the module that is later.
LEMMA RecentIsNotLate ==
  ASSUME Typed, Underway, Current, ~raced, ctx.pc \notin {"idle", "done"},
         NEW thing, thing.time \in Int, Recent(thing), HasTarget(Module)
  PROVE  Exists(thing) /\ ~Late(file, thing.time, Gathered(Module, ctx.options))
<1>1. PICK c \in Builds : ctx.src = c.src /\ ctx.options = c.options /\ Deps(c) = ToSet(Order)
  BY Standing
<1>2. Module \in ToSet(Order) /\ Module \in Modules
  BY Standing
<1> DEFINE files == Gathered(Module, ctx.options)
<1>3. files \subseteq DOMAIN file
  BY <1>1, <1>2, OwnFiles DEF Typed
<1>4. Known(file, ctx.time, Module, ctx.options)
  BY <1>2 DEF Current
<1>5. ctx.time[Module] \in Int /\ \A g \in files : file[g].time <= ctx.time[Module]
  BY <1>4, TargetHasObjects DEF Known
<1>6. Exists(thing) /\ thing.time > ctx.time[Module]
  BY DEF Recent, Time_Greater
<1>7. \A g \in files : file[g].time \in Nat /\ ~(file[g].time >= thing.time)
  BY <1>3, <1>5, <1>6, BuildAssumption DEF Typed
<1>8. QED BY <1>6, <1>7 DEF Late

-----------------------------------------------------------------------------
(* A step of the build, or one that leaves it.                             *)
BuildStep == BuildSteps /\ UNCHANGED <<selected, boot>>

\* A step of the build keeps versions and times in their ranges.
LEMMA TypedBuildStep ==
  ASSUME Typed, BuildStep
  PROVE  Typed'
<1> USE DEF Typed, BuildStep
<1>1. CASE SkipRecent
  BY <1>1 DEF SkipRecent, NextModule, BuildFields
<1>2. CASE BuildCtx_BuildModule
  <2>1. \A m \in Modules : lib'[m] = NoLib \/ lib'[m] = lib[m]
    BY <1>2 DEF BuildCtx_BuildModule
  <2>2. \A m \in Modules : lib'[m].time \in -1 .. clock
    <3>1. NoLib.time = -1 /\ -1 \in -1 .. clock
      BY BuildAssumption DEF NoLib
    <3>2. QED BY <2>1, <3>1
  <2>3. DOMAIN lib' = Modules
    BY <1>2 DEF BuildCtx_BuildModule
  <2>4. DOMAIN ctx' = BuildFields /\ ctx'.pc = "sources"
    BY <1>2 DEF BuildCtx_BuildModule, BuildFields
  <2>5. UNCHANGED <<clock, file, obj, exe, stops, raced, taint, selected, boot>>
    BY <1>2 DEF BuildCtx_BuildModule
  <2>6. QED BY <2>2, <2>3, <2>4, <2>5
<1>3. ASSUME NEW f \in ctx.todo, BuildSupporting(f)
      PROVE  Typed'
  <2>1. DOMAIN obj' = DOMAIN obj
        /\ \A g \in DOMAIN obj : obj'[g] = obj[g] \/ obj'[g] = [reads |-> Reads(f, Module), time |-> clock]
    BY <1>3 DEF BuildSupporting
  <2>2. clock \in -1 .. clock
    BY BuildAssumption
  <2>3. \A g \in DOMAIN obj : obj'[g].time \in -1 .. clock
    BY <2>1, <2>2
  <2>4. DOMAIN ctx' = BuildFields /\ ctx'.pc = "link"
    BY <1>3 DEF BuildSupporting, BuildFields
  <2>5. UNCHANGED <<clock, file, lib, exe, stops, raced, taint, selected, boot>>
    BY <1>3 DEF BuildSupporting
  <2>6. QED BY <2>1, <2>3, <2>4, <2>5
<1>4. CASE BuildCtx_LinkObject
  <2>1. DOMAIN lib' = DOMAIN lib
        /\ \A m \in DOMAIN lib : lib'[m] = lib[m] \/ lib'[m] = Archived(lib[Module], ctx.at[1])
    BY <1>4 DEF BuildCtx_LinkObject
  <2>2. Archived(lib[Module], ctx.at[1]).time \in -1 .. clock
    BY BuildAssumption DEF Archived
  <2>3. \A m \in Modules : lib'[m].time \in -1 .. clock
    BY <2>1, <2>2
  <2>4. DOMAIN ctx' = BuildFields /\ ctx'.pc = "sources"
    BY <1>4 DEF BuildCtx_LinkObject, BuildFields
  <2>5. UNCHANGED <<clock, file, obj, exe, stops, raced, taint, selected, boot>>
    BY <1>4 DEF BuildCtx_LinkObject
  <2>6. QED BY <2>1, <2>3, <2>4, <2>5
<1>5. CASE EndSupporting
  BY <1>5 DEF EndSupporting, BuildFields
<1>6. ASSUME NEW f \in ctx.todo, BuildExec(f)
      PROVE  Typed'
  <2>1. DOMAIN exe' = DOMAIN exe /\ \A g \in DOMAIN exe : exe'[g] = exe[g] \/ exe'[g].time = clock
    BY <1>6 DEF BuildExec
  <2>2. clock \in -1 .. clock
    BY BuildAssumption
  <2>3. \A g \in DOMAIN exe : exe'[g].time \in -1 .. clock
    BY <2>1, <2>2
  <2>4. DOMAIN ctx' = BuildFields /\ ctx'.pc = ctx.pc
    BY <1>6 DEF BuildExec, BuildFields
  <2>5. UNCHANGED <<clock, file, obj, lib, stops, raced, taint, selected, boot>>
    BY <1>6 DEF BuildExec
  <2>6. QED BY <2>1, <2>3, <2>4, <2>5
<1>7. CASE EndModule
  BY <1>7 DEF EndModule, NextModule, BuildFields
<1>8. QED BY <1>1, <1>2, <1>3, <1>4, <1>5, <1>6, <1>7 DEF BuildSteps

\* So does every step.
LEMMA TypedStep ==
  ASSUME Typed, [Next]_vars
  PROVE  Typed'
<1> USE DEF Typed
<1>0. clock \in Nat /\ clock \in 0 .. clock /\ clock \in -1 .. clock /\ -1 \in -1 .. clock
  BY BuildAssumption
<1>1. CASE Key
  <2>1. PICK entry \in 0 .. 10 : MoveTo(entry)
    <3>1. CASE MoveTo(IF selected = 0 THEN 0 ELSE selected - 1)
      BY <3>1
    <3>2. CASE MoveTo(IF selected = 10 THEN 10 ELSE selected + 1)
      BY <3>2
    <3>3. ASSUME NEW digit \in 1..9, MoveTo(digit - 1) PROVE \E entry \in 0 .. 10 : MoveTo(entry)
      <4>1. digit - 1 \in 0 .. 10
        OBVIOUS
      <4>2. QED BY <3>3, <4>1
    <3>4. QED BY <1>1, <3>1, <3>2, <3>3 DEF Key
  <2>2. QED BY <2>1 DEF MoveTo, bvars
<1>2. CASE Enter
  <2>1. DOMAIN boot' = {"at", "cmds"} /\ boot'.at \in {"menu", "base", "cmd"}
    BY <1>2 DEF Enter, AtMenu
  <2>2. UNCHANGED <<bvars, selected>>
    BY <1>2 DEF Enter
  <2>3. QED BY <2>1, <2>2 DEF bvars
<1>3. CASE BuildBase
  <2>1. DOMAIN lib' = DOMAIN lib
        /\ \A m \in DOMAIN lib : lib'[m] = lib[m] \/ lib'[m].time = clock
    BY <1>3 DEF BuildBase
  <2>2. \A m \in Modules : lib'[m].time \in -1 .. clock
    BY <1>0, <2>1
  <2>3. DOMAIN boot' = {"at", "cmds"} /\ boot'.at = "cmd"
    BY <1>3 DEF BuildBase
  <2>4. UNCHANGED <<clock, file, obj, exe, ctx, stops, raced, taint, selected>>
    BY <1>3 DEF BuildBase
  <2>5. QED BY <2>1, <2>2, <2>3, <2>4
<1>4. CASE StartBuild
  <2>1. DOMAIN ctx' = BuildFields /\ ctx'.pc = "module"
    BY <1>4 DEF StartBuild, ParseDependencies, Idle, BuildFields
  <2>2. UNCHANGED <<clock, file, obj, lib, exe, stops, raced, taint, selected, boot>>
    BY <1>4 DEF StartBuild
  <2>3. QED BY <2>1, <2>2
<1>5. CASE EndBuild
  BY <1>5 DEF EndBuild, Idle, BuildFields
<1>6. CASE RunProgram
  BY <1>6 DEF RunProgram, bvars
<1>7. CASE Clean
  <2>1. /\ DOMAIN obj' = DOMAIN obj /\ DOMAIN lib' = DOMAIN lib /\ DOMAIN exe' = DOMAIN exe
        /\ \A f \in DOMAIN obj : obj'[f].time = -1
        /\ \A m \in DOMAIN lib : lib'[m].time = -1
        /\ \A f \in DOMAIN exe : exe'[f].time = -1
    BY <1>7 DEF Clean, Unmade, NoLib
  <2>2. UNCHANGED <<clock, file, ctx, stops, selected>> /\ raced' = FALSE /\ taint' = FALSE
        /\ DOMAIN boot' = {"at", "cmds"} /\ boot'.at = boot.at
    BY <1>7 DEF Clean
  <2>3. QED BY <1>0, <2>1, <2>2
<1>8. CASE End
  BY <1>8 DEF End, AtMenu, bvars
<1>9. CASE Stop
  <2>1. stops' \in 0 .. BUILD_STOPS
    BY <1>9, BuildAssumption DEF Stop
  <2>2. DOMAIN ctx' = BuildFields /\ ctx'.pc = "idle" /\ DOMAIN boot' = {"at", "cmds"}
        /\ boot'.at = "menu" /\ selected' = 0
    BY <1>9 DEF Stop, Idle, AtMenu, BuildFields
  <2>3. UNCHANGED <<clock, file, obj, lib, exe>>
    BY <1>9 DEF Stop
  <2>4. raced' \in BOOLEAN /\ taint' \in BOOLEAN
    BY <1>9 DEF Stop, Building
  <2>5. QED BY <2>1, <2>2, <2>3, <2>4
<1>10. CASE BuildSteps /\ UNCHANGED <<selected, boot>>
  BY <1>10, TypedBuildStep DEF BuildStep
<1>11. CASE Tick /\ UNCHANGED <<selected, boot>>
  <2>1. clock' = clock + 1 /\ clock' \in 1 .. MAX_TIME
        /\ UNCHANGED <<file, obj, lib, exe, ctx, stops, raced, taint, selected, boot>>
    BY <1>11, BuildAssumption DEF Tick
  <2>2. 0 .. clock \subseteq 0 .. clock' /\ -1 .. clock \subseteq -1 .. clock'
    BY <1>0, <2>1
  <2>3. QED BY <2>1, <2>2
<1>12. ASSUME NEW f \in Files, Edit(f), UNCHANGED <<selected, boot>>
       PROVE  Typed'
  <2>1. DOMAIN file' = DOMAIN file
        /\ \A g \in DOMAIN file : file'[g] = file[g]
                                  \/ file'[g] = [ver |-> file[f].ver + 1, time |-> clock]
    BY <1>12 DEF Edit
  <2>2. file[f].ver + 1 \in 0 .. MAX_EDITS
    BY <1>12, BuildAssumption DEF Edit, Files
  <2>3. \A g \in DOMAIN file : file'[g].ver \in 0 .. MAX_EDITS /\ file'[g].time \in 0 .. clock
    BY <1>0, <2>1, <2>2
  <2>4. UNCHANGED <<clock, obj, lib, exe, ctx, stops, selected, boot>>
        /\ raced' \in BOOLEAN /\ taint' \in BOOLEAN
    BY <1>12 DEF Edit, Building
  <2>5. QED BY <2>1, <2>3, <2>4
<1>13. CASE UNCHANGED vars
  BY <1>13 DEF vars, bvars
<1>14. QED BY <1>1, <1>2, <1>3, <1>4, <1>5, <1>6, <1>7, <1>8, <1>9, <1>10, <1>11, <1>12, <1>13 DEF Next
-----------------------------------------------------------------------------
\* The commands of an entry are builds and programs, or to clean.
LEMMA BranchCmds ==
  /\ DOMAIN Branches = 1 .. 10
  /\ \A i \in 1 .. 10 : /\ Branches[i].cmds \in Seq(ToSet(Branches[i].cmds))
                        /\ Branches[i].cmds = <<Run("clean")>> \/ Makes(Branches[i].cmds)
<1> DEFINE P(cmds) == /\ cmds \in Seq(ToSet(cmds))
                      /\ cmds = <<Run("clean")>> \/ Makes(cmds)
<1>1. P(<<>>)
  BY DEF Makes, ToSet
<1>2. ASSUME NEW a PROVE <<a>> \in Seq(ToSet(<<a>>)) /\ ToSet(<<a>>) = {a}
  BY DEF ToSet
<1>3. ASSUME NEW a, NEW b PROVE <<a, b>> \in Seq(ToSet(<<a, b>>)) /\ ToSet(<<a, b>>) = {a, b}
  <2>1. DOMAIN <<a, b>> = {1, 2}
    OBVIOUS
  <2>2. ToSet(<<a, b>>) = {a, b}
    BY <2>1 DEF ToSet
  <2>3. QED BY <2>2
<1>4. P(<<Run("clean")>>)
  BY <1>2
<1>5. ASSUME NEW a, a.run # "clean" PROVE P(<<a>>)
  BY <1>2, <1>5 DEF Makes
<1>6. ASSUME NEW a, NEW b, a.run # "clean", b.run # "clean" PROVE P(<<a, b>>)
  BY <1>3, <1>6 DEF Makes
<1>7. /\ \A src, options : Build(src, options).run # "clean"
      /\ \A program : Run(program).run = program
  BY DEF Build, Run
<1>8. /\ buildTests.run # "clean" /\ buildTestsNoCrypto.run # "clean" /\ buildCaneka.run # "clean"
      /\ buildWebServer.run # "clean" /\ buildWebServerNoCrypto.run # "clean" /\ buildDoc.run # "clean"
      /\ Run("test").run # "clean" /\ Run("serveneka").run # "clean" /\ Run("doc").run # "clean"
  BY <1>7 DEF buildTests, buildTestsNoCrypto, buildCaneka, buildWebServer, buildWebServerNoCrypto, buildDoc
<1>9. DOMAIN Branches = 1 .. 10
  BY DEF Branches
<1>10. /\ Branches[1].cmds = <<>>
       /\ Branches[2].cmds = <<buildTests, Run("test")>>
       /\ Branches[3].cmds = <<buildTestsNoCrypto, Run("test")>>
       /\ Branches[4].cmds = <<buildCaneka>>
       /\ Branches[5].cmds = <<Run("clean")>>
       /\ Branches[6].cmds = <<buildWebServer, Run("serveneka")>>
       /\ Branches[7].cmds = <<buildWebServerNoCrypto>>
       /\ Branches[8].cmds = <<buildWebServer, Run("serveneka")>>
       /\ Branches[9].cmds = <<buildDoc, Run("doc")>>
       /\ Branches[10].cmds = <<Run("doc")>>
  BY DEF Branches
<1> HIDE DEF P
<1>11. /\ P(Branches[1].cmds) /\ P(Branches[2].cmds) /\ P(Branches[3].cmds) /\ P(Branches[4].cmds)
       /\ P(Branches[5].cmds) /\ P(Branches[6].cmds) /\ P(Branches[7].cmds) /\ P(Branches[8].cmds)
       /\ P(Branches[9].cmds) /\ P(Branches[10].cmds)
  BY <1>1, <1>4, <1>5, <1>6, <1>8, <1>10
<1>12. \A i \in 1 .. 10 : P(Branches[i].cmds)
  <2>1. \A i \in 1 .. 10 : i \in {1, 2, 3, 4, 5, 6, 7, 8, 9, 10}
    OBVIOUS
  <2>2. QED BY <1>11, <2>1
<1>13. QED BY <1>9, <1>12 DEF P

\* What Enter takes is the commands of an entry that was picked.
LEMMA EnterPicks ==
  ASSUME Enter
  PROVE  \/ boot' = AtMenu
         \/ \E entry \in Picked :
              /\ entry.cmds \in Seq(ToSet(entry.cmds)) /\ ToSet(entry.cmds) \subseteq PickedCmds
              /\ boot'.cmds = entry.cmds
              /\ \/ boot'.at = "cmd" /\ entry.cmds = <<Run("clean")>>
                 \/ boot'.at = "base" /\ Makes(entry.cmds)
<1> DEFINE found == Matching(menuKeys[selected + 1])
           entry == Branches[First(found)]
<1>1. CASE found = {}
  BY <1>1 DEF Enter
<1>2. CASE found # {}
  <2>1. found \subseteq 1 .. 10 /\ 1 .. 10 \subseteq Nat
    BY BranchCmds DEF Matching
  <2> HIDE DEF found
  <2>2. First(found) \in found
    BY <1>2, <2>1, LeastNatural DEF First
  <2>3. entry.cmds \in Seq(ToSet(entry.cmds)) /\ (entry.cmds = <<Run("clean")>> \/ Makes(entry.cmds))
    BY <2>1, <2>2, BranchCmds
  <2>4. entry \in Picked
    BY <1>2 DEF Enter, Picked, found
  <2>5. boot' = [at |-> IF entry.cmds = <<Run("clean")>> THEN "cmd" ELSE "base", cmds |-> entry.cmds]
    BY <1>2 DEF Enter, found
  <2> HIDE DEF entry
  <2>6. ToSet(entry.cmds) \subseteq PickedCmds
    BY <2>4 DEF PickedCmds
  <2>7. QED BY <2>3, <2>4, <2>5, <2>6
<1>3. QED BY <1>1, <1>2

\* The command that is next, and those that are left after it.
LEMMA NextCommand ==
  ASSUME Commanded, boot.cmds # <<>>
  PROVE  /\ Command \in ToSet(boot.cmds) /\ Command \in PickedCmds
         /\ Tail(boot.cmds) \in Seq(PickedCmds)
         /\ ToSet(Tail(boot.cmds)) \subseteq ToSet(boot.cmds)
         /\ Command.run = "build" => Command \in Builds
<1>1. boot.cmds \in Seq(PickedCmds) /\ Command = Head(boot.cmds) /\ Command \in PickedCmds
      /\ Tail(boot.cmds) \in Seq(PickedCmds)
  BY DEF Commanded, Command
<1>2. ToSet(boot.cmds) = {Head(boot.cmds)} \union ToSet(Tail(boot.cmds))
  BY <1>1, HeadAndTail
<1>3. QED BY <1>1, <1>2 DEF Builds, PickedCmds

\* While a build runs, bootstrap waits for it.
LEMMA Waiting ==
  ASSUME Commanded, ctx.pc # "idle"
  PROVE  /\ boot.at = "cmd" /\ boot.cmds # <<>> /\ Command.run = "build" /\ Makes(boot.cmds)
         /\ ~Key /\ ~Enter /\ ~BuildBase /\ ~StartBuild /\ ~RunProgram /\ ~Clean /\ ~End
<1>1. boot.at = "cmd" /\ boot.cmds # <<>> /\ Command.run = "build"
  BY DEF Commanded, Commands
<1>2. Makes(boot.cmds)
  BY <1>1, NextCommand DEF Commanded, Cleans
<1>3. ~RunProgram
  BY <1>1, BuildAssumption DEF RunProgram, Commands
<1>4. QED BY <1>1, <1>2, <1>3 DEF Key, MoveTo, Enter, BuildBase, StartBuild, Clean, Commands, End

\* A build steps while it runs.
LEMMA Running ==
  ASSUME BuildSteps
  PROVE  ctx.pc \notin {"idle", "done"}
BY DEF BuildSteps, SkipRecent, BuildCtx_BuildModule, BuildSupporting, BuildCtx_LinkObject,
       EndSupporting, BuildExec, EndModule

\* Every step leaves commands that were picked, and a build only while its
\* command is the next.
LEMMA CommandedStep ==
  ASSUME Typed, Commanded, [Next]_vars
  PROVE  Commanded'
<1>0. ASSUME boot' = boot, ctx'.pc # "idle" => ctx.pc # "idle" \/ Commands("build")
      PROVE  Commanded'
  <2>1. ctx'.pc # "idle" => Commands("build")
    BY <1>0 DEF Commanded
  <2>2. QED BY <1>0, <2>1 DEF Commanded, Commands, Command
<1>1. CASE Key
  BY <1>0, <1>1 DEF Key, MoveTo, bvars
<1>2. CASE Enter
  <2>1. ctx' = ctx /\ ctx.pc = "idle"
    BY <1>2, Waiting DEF Enter, bvars
  <2>2. CASE boot' = AtMenu
    <3>1. boot'.cmds = <<>> /\ boot'.at = "menu"
      BY <2>2 DEF AtMenu
    <3>2. QED BY <2>1, <3>1 DEF Commanded
  <2>3. CASE boot' # AtMenu
    <3>1. PICK entry \in Picked :
              /\ entry.cmds \in Seq(ToSet(entry.cmds)) /\ ToSet(entry.cmds) \subseteq PickedCmds
              /\ boot'.cmds = entry.cmds
              /\ \/ boot'.at = "cmd" /\ entry.cmds = <<Run("clean")>>
                 \/ boot'.at = "base" /\ Makes(entry.cmds)
      BY <1>2, <2>3, EnterPicks
    <3>2. entry.cmds \in Seq(PickedCmds)
      BY <3>1
    <3>3. Cleans(<<Run("clean")>>)
      BY DEF Cleans, ToSet, Run
    <3>4. QED BY <2>1, <3>1, <3>2, <3>3 DEF Commanded
  <2>4. QED BY <2>2, <2>3
<1>3. CASE BuildBase
  <2>1. ctx' = ctx /\ ctx.pc = "idle"
    BY <1>3, Waiting DEF BuildBase
  <2>2. boot'.cmds = boot.cmds /\ boot'.at = "cmd" /\ Makes(boot.cmds)
    BY <1>3 DEF BuildBase, Commanded, Typed
  <2>3. QED BY <2>1, <2>2 DEF Commanded
<1>4. CASE StartBuild
  BY <1>0, <1>4 DEF StartBuild
<1>5. ASSUME boot' = [boot EXCEPT !.cmds = Tail(@)], boot.cmds # <<>>, ctx'.pc = "idle"
      PROVE  Commanded'
  <2>1. boot'.cmds = Tail(boot.cmds) /\ boot'.at = boot.at
    BY <1>5 DEF Typed
  <2>2. Tail(boot.cmds) \in Seq(PickedCmds) /\ ToSet(Tail(boot.cmds)) \subseteq ToSet(boot.cmds)
    BY <1>5, NextCommand
  <2>3. /\ Makes(boot.cmds) => Makes(boot'.cmds)
        /\ Cleans(boot.cmds) => Cleans(boot'.cmds)
    BY <2>1, <2>2 DEF Makes, Cleans
  <2>4. QED BY <1>5, <2>1, <2>2, <2>3 DEF Commanded
<1>6. CASE EndBuild
  <2>1. ctx.pc # "idle" /\ ctx'.pc = "idle"
    BY <1>6 DEF EndBuild, Idle
  <2>2. QED BY <1>5, <1>6, <2>1, Waiting DEF EndBuild
<1>7. CASE RunProgram
  <2>1. ctx' = ctx /\ ctx.pc = "idle"
    BY <1>7, Waiting DEF RunProgram, bvars
  <2>2. QED BY <1>5, <1>7, <2>1 DEF RunProgram, Commands
<1>8. CASE Clean
  <2>1. ctx' = ctx /\ ctx.pc = "idle"
    BY <1>8, Waiting DEF Clean
  <2>2. QED BY <1>5, <1>8, <2>1 DEF Clean, Commands
<1>9. ASSUME boot' = AtMenu, ctx'.pc = "idle"
      PROVE  Commanded'
  <2>1. boot'.cmds = <<>> /\ boot'.at = "menu"
    BY <1>9 DEF AtMenu
  <2>2. QED BY <1>9, <2>1 DEF Commanded
<1>10. CASE End
  BY <1>9, <1>10, Waiting DEF End, bvars
<1>11. CASE Stop
  BY <1>9, <1>11 DEF Stop, Idle
<1>12. CASE BuildSteps /\ UNCHANGED <<selected, boot>>
  BY <1>0, <1>12, Running
<1>13. CASE (Tick \/ \E f \in Files : Edit(f)) /\ UNCHANGED <<selected, boot>>
  BY <1>0, <1>13 DEF Tick, Edit
<1>14. CASE UNCHANGED vars
  BY <1>0, <1>14 DEF vars, bvars
<1>15. QED BY <1>1, <1>2, <1>3, <1>4, <1>6, <1>7, <1>8, <1>10, <1>11, <1>12, <1>13, <1>14 DEF Next
-----------------------------------------------------------------------------
\* Where the record of the build stays, so does all that is said of it.
LEMMA SameCtx ==
  ASSUME ctx' = ctx
  PROVE  /\ Order' = Order /\ Passed' = Passed /\ Module' = Module /\ Filling' = Filling
         /\ \A m : HasTarget(m)' <=> HasTarget(m)
         /\ Underway => Underway'
<1>1. Order' = Order
  BY DEF Order
<1>2. Passed' = Passed
  BY <1>1 DEF Passed
<1>3. Module' = Module /\ Filling' = Filling
  BY DEF Module, Filling
<1>4. \A m : HasTarget(m)' <=> HasTarget(m)
  BY DEF HasTarget
<1>5. Underway => Underway'
  BY <1>1, <1>3 DEF Underway
<1>6. QED BY <1>1, <1>2, <1>3, <1>4, <1>5

\* Within a module the order and the place in it stay.
LEMMA SamePlace ==
  ASSUME ctx'.src = ctx.src, ctx'.options = ctx.options, ctx'.order = ctx.order
  PROVE  /\ Order' = Order /\ Passed' = Passed /\ Module' = Module
         /\ \A m : HasTarget(m)' <=> HasTarget(m)
<1>1. Order' = Order
  BY DEF Order
<1>2. QED BY <1>1 DEF Passed, Module, HasTarget

\* To go on to the next module passes the one the build is at.
LEMMA GoesOn ==
  ASSUME Typed, Underway, ctx.pc \notin {"idle", "done"}, ctx' = NextModule
  PROVE  /\ Underway' /\ Order' = Order /\ Passed' = Passed \union {Module}
         /\ ctx'.options = ctx.options /\ ctx'.time = ctx.time /\ ctx'.pc \in {"module", "done"}
         /\ \A m : HasTarget(m)' <=> HasTarget(m)
<1> DEFINE n == Len(ctx.order)
<1>1. /\ ctx'.src = ctx.src /\ ctx'.options = ctx.options /\ ctx'.time = ctx.time
      /\ ctx'.order = Front(ctx.order) /\ ctx'.todo = ctx.todo
      /\ ctx'.pc = IF n = 1 THEN "done" ELSE "module"
  BY DEF NextModule, Typed, BuildFields
<1>2. Order' = Order
  BY <1>1 DEF Order
<1>3. /\ ctx.order \in Seq(Modules) /\ n <= Len(Order) /\ n \in Nat /\ n > 0
      /\ \A i \in 1 .. n : ctx.order[i] = Order[i]
      /\ Module = Order[n] /\ Len(Order) \in Nat
  <2>1. Listed(Order, ctx.src, ctx.options)
    BY Standing
  <2>2. Len(Order) \in Nat
    BY <2>1 DEF Listed
  <2>3. QED BY <2>2, Standing DEF Underway
<1>4. /\ ctx'.order \in Seq(Modules) /\ Len(ctx'.order) = n - 1
      /\ \A i \in 1 .. n - 1 : ctx'.order[i] = ctx.order[i]
  BY <1>1, <1>3 DEF Front
<1>5. ctx'.order = <<>> <=> n = 1
  <2>1. \A s \in Seq(Modules) : s = <<>> <=> Len(s) = 0
    OBVIOUS
  <2>2. ctx'.order \in Seq(Modules)
    BY <1>4
  <2>3. ctx'.order = <<>> <=> Len(ctx'.order) = 0
    BY <2>1, <2>2
  <2>4. Len(ctx'.order) = 0 <=> n = 1
    BY <1>3, <1>4
  <2>5. QED BY <2>3, <2>4
<1>6. Passed' = Passed \union {Module}
  <2>1. n .. Len(Order) = {n} \union (n + 1 .. Len(Order))
    BY <1>3
  <2>2. Passed' = {Order[i] : i \in n .. Len(Order)}
    BY <1>2, <1>3, <1>4 DEF Passed
  <2>3. QED BY <1>3, <2>1, <2>2 DEF Passed
<1>7. Underway'
  <2>1. \E c \in Builds : ctx'.src = c.src /\ ctx'.options = c.options
    BY <1>1 DEF Underway
  <2>2. Len(ctx'.order) <= Len(Order') /\ \A i \in 1 .. Len(ctx'.order) : ctx'.order[i] = Order'[i]
    BY <1>2, <1>3, <1>4
  <2>3. ctx'.pc \in {"module", "done"} /\ (ctx'.pc = "done" <=> ctx'.order = <<>>)
    BY <1>1, <1>5
  <2>4. QED BY <1>4, <2>1, <2>2, <2>3 DEF Underway
<1>8. \A m : HasTarget(m)' <=> HasTarget(m)
  BY <1>1 DEF HasTarget
<1>9. QED BY <1>1, <1>2, <1>6, <1>7, <1>8

\* A build starts with nothing passed.
LEMMA Starts ==
  ASSUME Typed, Commanded, StartBuild
  PROVE  /\ Underway' /\ ctx'.pc = "module" /\ Passed' = {}
         /\ \A m \in ToSet(Order') : ctx'.time[m] = Newest(Gathered(m, ctx'.options))
<1>1. boot.cmds # <<>> /\ Command \in Builds
  BY NextCommand DEF StartBuild, Commands
<1> DEFINE order == RegisterAll(Command.src, Command.options)
<1>2. /\ ctx'.pc = "module" /\ ctx'.src = Command.src /\ ctx'.options = Command.options
      /\ ctx'.order = order
      /\ ctx'.time = [m \in ToSet(order) |-> Newest(Gathered(m, Command.options))]
  BY DEF StartBuild, ParseDependencies, Idle
<1>3. Order' = order
  BY <1>2 DEF Order
<1>4. order \in Seq(Modules) /\ order # <<>>
  BY <1>1, PickedBuild DEF Listed
<1> HIDE DEF order
<1>5. Len(order) \in Nat
  BY <1>4
<1>6. Underway'
  BY <1>1, <1>2, <1>3, <1>4, <1>5 DEF Underway
<1>7. Passed' = {}
  <2>1. Len(order) + 1 .. Len(order) = {}
    BY <1>5
  <2>2. QED BY <1>2, <1>3, <2>1 DEF Passed
<1>8. \A m \in ToSet(Order') : ctx'.time[m] = Newest(Gathered(m, ctx'.options))
  BY <1>2, <1>3
<1>9. QED BY <1>2, <1>6, <1>7, <1>8

\* Every step keeps a build at its place in the order.
LEMMA UnderwayStep ==
  ASSUME Typed, Commanded, Underway, [Next]_vars
  PROVE  Underway'
<1>1. CASE ctx' = ctx
  BY <1>1, SameCtx
<1>2. CASE ctx'.pc = "idle"
  BY <1>2 DEF Underway
<1>3. CASE StartBuild
  BY <1>3, Starts
<1>4. CASE BuildSteps
  <2>1. ctx.pc \notin {"idle", "done"}
    BY <1>4, Running
  <2>2. ASSUME ctx'.src = ctx.src, ctx'.options = ctx.options, ctx'.order = ctx.order,
               ctx'.pc \notin {"idle", "done"},
               ctx'.pc \in {"sources", "link"} => ctx'.todo \subseteq Objects(Module, ctx.options),
               ctx'.pc = "link" =>
                 \E f \in Objects(Module, ctx.options) : ctx'.at = <<f>> /\ f \notin ctx'.todo,
               ctx'.pc = "execs" => ctx'.todo \subseteq Execs(Module)
        PROVE  Underway'
    <3>1. Order' = Order /\ Module' = Module
      BY <2>2, SamePlace
    <3>2. QED BY <2>1, <2>2, <3>1 DEF Underway
  <2>3. CASE SkipRecent
    BY <2>1, <2>3, GoesOn DEF SkipRecent
  <2>4. CASE BuildCtx_BuildModule
    <3>1. /\ ctx'.src = ctx.src /\ ctx'.options = ctx.options /\ ctx'.order = ctx.order
          /\ ctx'.pc = "sources" /\ ctx'.todo = Objects(Module, ctx.options)
      BY <2>4 DEF BuildCtx_BuildModule, Typed, BuildFields
    <3>2. QED BY <2>2, <3>1
  <2>5. ASSUME NEW f \in ctx.todo, BuildSupporting(f) PROVE Underway'
    <3>1. /\ ctx'.src = ctx.src /\ ctx'.options = ctx.options /\ ctx'.order = ctx.order
          /\ ctx'.pc = "link" /\ ctx'.todo = ctx.todo \ {f} /\ ctx'.at = <<f>>
      BY <2>5 DEF BuildSupporting, Typed, BuildFields
    <3>2. ctx.todo \subseteq Objects(Module, ctx.options)
      BY <2>5 DEF BuildSupporting, Underway
    <3>3. QED BY <2>2, <3>1, <3>2
  <2>6. CASE BuildCtx_LinkObject
    <3>1. /\ ctx'.src = ctx.src /\ ctx'.options = ctx.options /\ ctx'.order = ctx.order
          /\ ctx'.pc = "sources" /\ ctx'.todo = ctx.todo
      BY <2>6 DEF BuildCtx_LinkObject, Typed, BuildFields
    <3>2. ctx.todo \subseteq Objects(Module, ctx.options)
      BY <2>6 DEF BuildCtx_LinkObject, Underway
    <3>3. QED BY <2>2, <3>1, <3>2
  <2>7. CASE EndSupporting
    <3>1. /\ ctx'.src = ctx.src /\ ctx'.options = ctx.options /\ ctx'.order = ctx.order
          /\ ctx'.pc = "execs" /\ ctx'.todo = Execs(Module)
      BY <2>7 DEF EndSupporting, Typed, BuildFields
    <3>2. QED BY <2>2, <3>1
  <2>8. ASSUME NEW f \in ctx.todo, BuildExec(f) PROVE Underway'
    <3>1. /\ ctx'.src = ctx.src /\ ctx'.options = ctx.options /\ ctx'.order = ctx.order
          /\ ctx'.pc = "execs" /\ ctx'.todo = ctx.todo \ {f}
      BY <2>8 DEF BuildExec, Typed, BuildFields
    <3>2. ctx.todo \subseteq Execs(Module)
      BY <2>8 DEF BuildExec, Underway
    <3>3. QED BY <2>2, <3>1, <3>2
  <2>9. CASE EndModule
    BY <2>1, <2>9, GoesOn DEF EndModule
  <2>10. QED BY <1>4, <2>3, <2>4, <2>5, <2>6, <2>7, <2>8, <2>9 DEF BuildSteps
<1>5. CASE Key \/ Enter \/ BuildBase \/ RunProgram \/ Clean \/ End \/ Tick \/ UNCHANGED vars
  BY <1>1, <1>5 DEF Key, MoveTo, Enter, BuildBase, RunProgram, Clean, End, Tick, vars, bvars
<1>6. ASSUME NEW f \in Files, Edit(f) PROVE Underway'
  BY <1>1, <1>6 DEF Edit
<1>7. CASE EndBuild \/ Stop
  <2>1. ctx' = Idle
    BY <1>7 DEF EndBuild, Stop
  <2>2. QED BY <1>2, <2>1 DEF Idle
<1>8. QED BY <1>3, <1>4, <1>5, <1>6, <1>7 DEF Next
-----------------------------------------------------------------------------
\* While a build runs, it steps, or a file is saved or time goes by.
LEMMA WhileRunning ==
  ASSUME Commanded, [Next]_vars, ctx'.pc # "idle"
  PROVE  \/ BuildSteps /\ UNCHANGED boot
         \/ StartBuild
         \/ /\ ctx' = ctx /\ ctx.pc # "idle" /\ UNCHANGED <<obj, lib, exe, boot>>
            /\ (\E f \in Files : Edit(f)) \/ UNCHANGED <<file, raced, taint>>
<1>1. CASE ctx.pc = "idle"
  <2>1. ~BuildSteps /\ (EndBuild \/ Stop => ctx' = Idle)
    BY <1>1, Running DEF EndBuild, Stop
  <2>2. Key \/ Enter \/ BuildBase \/ RunProgram \/ Clean \/ End \/ Tick \/ UNCHANGED vars => ctx' = ctx
    BY DEF Key, MoveTo, Enter, BuildBase, RunProgram, Clean, End, Tick, vars, bvars
  <2>3. (\E f \in Files : Edit(f)) => ctx' = ctx
    BY DEF Edit
  <2>4. Idle.pc = "idle"
    BY DEF Idle
  <2>5. QED BY <1>1, <2>1, <2>2, <2>3, <2>4 DEF Next
<1>2. CASE ctx.pc # "idle"
  <2>1. ~Key /\ ~Enter /\ ~BuildBase /\ ~RunProgram /\ ~Clean /\ ~End
    BY <1>2, Waiting
  <2>2. ~EndBuild /\ ~Stop
    <3>1. EndBuild \/ Stop => ctx' = Idle
      BY DEF EndBuild, Stop
    <3>2. Idle.pc = "idle"
      BY DEF Idle
    <3>3. QED BY <3>1, <3>2
  <2>3. CASE (Tick \/ \E f \in Files : Edit(f)) /\ UNCHANGED <<selected, boot>>
    <3>1. CASE Tick
      BY <1>2, <2>3, <3>1 DEF Tick
    <3>2. ASSUME NEW f \in Files, Edit(f)
          PROVE  ctx' = ctx /\ UNCHANGED <<obj, lib, exe>>
      BY <3>2 DEF Edit
    <3>3. QED BY <1>2, <2>3, <3>1, <3>2
  <2>4. CASE UNCHANGED vars
    BY <1>2, <2>4 DEF vars, bvars
  <2>5. QED BY <2>1, <2>2, <2>3, <2>4 DEF Next
<1>3. QED BY <1>1, <1>2

\* What the steps within a module leave of the record of the build.
LEMMA WithinModule ==
  ASSUME Typed, Underway, BuildSteps, ~SkipRecent, ~EndModule
  PROVE  /\ ctx.pc \notin {"idle", "done"}
         /\ ctx'.src = ctx.src /\ ctx'.options = ctx.options /\ ctx'.order = ctx.order
         /\ ctx'.time = ctx.time
         /\ Order' = Order /\ Passed' = Passed /\ Module' = Module
         /\ Module \in Modules /\ Module \notin Passed
         /\ \A m : HasTarget(m)' <=> HasTarget(m)
<1>1. /\ ctx'.src = ctx.src /\ ctx'.options = ctx.options /\ ctx'.order = ctx.order
      /\ ctx'.time = ctx.time
  BY DEF BuildSteps, BuildCtx_BuildModule, BuildSupporting, BuildCtx_LinkObject, EndSupporting,
         BuildExec, Typed, BuildFields
<1>2. ctx.pc \notin {"idle", "done"}
  BY Running
<1>3. Module \in Modules /\ Module \notin Passed
  BY <1>2, Standing
<1>4. QED BY <1>1, <1>2, <1>3, SamePlace

\* Every step keeps the libraries that were built.
LEMMA ReadyStep ==
  ASSUME Typed, Commanded, Underway, Ready, [Next]_vars
  PROVE  Ready'
<1>0. clock \in Nat
  BY BuildAssumption DEF Typed
<1>1. CASE ctx'.pc = "idle"
  BY <1>1 DEF Ready
<1>2. CASE StartBuild
  BY <1>2, Starts DEF Ready
<1>3. CASE ctx' = ctx /\ lib' = lib
  BY <1>3, SameCtx DEF Ready
<1>4. CASE BuildSteps
  <2>1. CASE SkipRecent
    <3>1. Passed' = Passed \union {Module} /\ ctx'.pc \in {"module", "done"} /\ lib' = lib
          /\ \A m : HasTarget(m)' <=> HasTarget(m)
      BY <2>1, GoesOn DEF SkipRecent
    <3>2. Exists(lib[Module]) /\ \A m \in Passed : HasTarget(m) => Exists(lib[m])
      BY <2>1 DEF SkipRecent, Recent, Ready
    <3>3. QED BY <3>1, <3>2 DEF Ready
  <2>2. CASE EndModule
    <3>1. Passed' = Passed \union {Module} /\ ctx'.pc \in {"module", "done"} /\ lib' = lib
          /\ \A m : HasTarget(m)' <=> HasTarget(m)
      BY <2>2, GoesOn DEF EndModule
    <3>2. /\ HasTarget(Module) => Exists(lib[Module])
          /\ \A m \in Passed : HasTarget(m) => Exists(lib[m])
      BY <2>2 DEF EndModule, Ready
    <3>3. QED BY <3>1, <3>2 DEF Ready
  <2>3. CASE ~SkipRecent /\ ~EndModule
    <3>1. /\ ctx.pc \notin {"idle", "done"} /\ ctx'.options = ctx.options
          /\ Passed' = Passed /\ Module' = Module /\ Module \in Modules /\ Module \notin Passed
          /\ \A m : HasTarget(m)' <=> HasTarget(m)
      BY <1>4, <2>3, WithinModule
    <3>2. \A m \in Passed : HasTarget(m) => Exists(lib[m])
      BY <3>1 DEF Ready
    <3>3. CASE BuildCtx_BuildModule
      <4>1. /\ ctx'.pc = "sources" /\ ctx'.todo = Objects(Module, ctx.options)
            /\ \A m : m # Module => lib'[m] = lib[m]
        BY <3>3 DEF BuildCtx_BuildModule, Typed, BuildFields
      <4>2. QED BY <3>1, <3>2, <4>1 DEF Ready
    <3>4. ASSUME NEW f \in ctx.todo, BuildSupporting(f) PROVE Ready'
      <4>1. ctx'.pc = "link" /\ lib' = lib
        BY <3>4 DEF BuildSupporting, Typed, BuildFields
      <4>2. QED BY <3>1, <3>2, <4>1 DEF Ready
    <3>5. CASE BuildCtx_LinkObject
      <4>1. /\ ctx'.pc = "sources"
            /\ \A m : m # Module => lib'[m] = lib[m]
            /\ lib'[Module].time = clock
        BY <3>1, <3>5 DEF BuildCtx_LinkObject, Typed, BuildFields, Archived
      <4>2. Exists(lib'[Module])
        BY <1>0, <4>1 DEF Exists
      <4>3. QED BY <3>1, <3>2, <4>1, <4>2 DEF Ready
    <3>6. CASE EndSupporting
      <4>1. ctx'.pc = "execs" /\ lib' = lib /\ ctx.pc = "sources" /\ ctx.todo = {}
        BY <3>6 DEF EndSupporting, Typed, BuildFields
      <4>2. HasTarget(Module) => Exists(lib[Module])
        BY <3>1, <3>2, <4>1, TargetHasObjects DEF Ready
      <4>3. QED BY <3>1, <3>2, <4>1, <4>2 DEF Ready
    <3>7. ASSUME NEW f \in ctx.todo, BuildExec(f) PROVE Ready'
      <4>1. ctx'.pc = "execs" /\ lib' = lib /\ ctx.pc = "execs"
        BY <3>7 DEF BuildExec, Typed, BuildFields
      <4>2. HasTarget(Module) => Exists(lib[Module])
        BY <4>1 DEF Ready
      <4>3. QED BY <3>1, <3>2, <4>1, <4>2 DEF Ready
    <3>8. QED BY <1>4, <2>3, <3>3, <3>4, <3>5, <3>6, <3>7 DEF BuildSteps
  <2>4. QED BY <2>1, <2>2, <2>3
<1>5. QED BY <1>1, <1>2, <1>3, <1>4, WhileRunning

\* Every step keeps a library of base while there are commands to run.
LEMMA BaseThereStep ==
  ASSUME Typed, Commanded, Underway, Ready, BaseThere, [Next]_vars
  PROVE  BaseThere'
<1>0. clock \in Nat
  BY BuildAssumption DEF Typed
<1>1. CASE BuildSteps /\ UNCHANGED <<selected, boot>>
  <2>1. ctx.pc \notin {"idle", "done"}
    BY <1>1, Running
  <2>2. Exists(lib["base"]) \/ (Filling /\ Module = "base")
    BY <2>1, Waiting DEF BaseThere
  <2>3. CASE SkipRecent \/ EndModule
    BY <2>2, <2>3 DEF SkipRecent, EndModule, Filling, BaseThere
  <2>4. CASE ~SkipRecent /\ ~EndModule
    <3>1. Module' = Module /\ Module \in Modules
      BY <1>1, <2>4, WithinModule
    <3>2. CASE BuildCtx_BuildModule
      <4>1. ctx'.pc = "sources" /\ (\A m : m # Module => lib'[m] = lib[m]) /\ ~Filling
        BY <3>2 DEF BuildCtx_BuildModule, Typed, BuildFields, Filling
      <4>2. QED BY <2>2, <3>1, <4>1 DEF Filling, BaseThere
    <3>3. ASSUME NEW f \in ctx.todo, BuildSupporting(f) PROVE BaseThere'
      <4>1. ctx'.pc = "link" /\ lib' = lib
        BY <3>3 DEF BuildSupporting, Typed, BuildFields
      <4>2. QED BY <2>2, <3>1, <4>1 DEF Filling, BaseThere
    <3>4. CASE BuildCtx_LinkObject
      <4>1. ctx'.pc = "sources" /\ \A m : m # Module => lib'[m] = lib[m]
        BY <3>4 DEF BuildCtx_LinkObject, Typed, BuildFields
      <4>2. QED BY <2>2, <3>1, <4>1 DEF Filling, BaseThere
    <3>5. CASE EndSupporting
      <4>1. lib' = lib /\ ctx.pc = "sources" /\ ctx.todo = {}
        BY <3>5 DEF EndSupporting
      <4>2. ASSUME Module = "base" PROVE Exists(lib["base"])
        <5>1. PICK c \in Builds : ctx.options = c.options
          BY <2>1 DEF Underway
        <5>2. Objects("base", ctx.options) # {}
          BY <5>1, BuildAssumption
        <5>3. QED BY <4>1, <4>2, <5>2 DEF Ready
      <4>3. QED BY <2>2, <4>1, <4>2 DEF BaseThere
    <3>6. ASSUME NEW f \in ctx.todo, BuildExec(f) PROVE BaseThere'
      BY <2>2, <3>6 DEF BuildExec, Filling, BaseThere
    <3>7. QED BY <1>1, <2>4, <3>2, <3>3, <3>4, <3>5, <3>6 DEF BuildSteps
  <2>5. QED BY <2>3, <2>4
<1>2. CASE ctx' = ctx /\ lib' = lib /\ boot' = boot
  BY <1>2, SameCtx DEF BaseThere
<1>3. CASE Enter
  <2>1. ASSUME boot'.at = "cmd" PROVE ~Makes(boot'.cmds)
    <3>1. boot' # AtMenu
      BY <2>1 DEF AtMenu
    <3>2. boot'.cmds = <<Run("clean")>>
      BY <1>3, <2>1, <3>1, EnterPicks
    <3>3. Run("clean") \in ToSet(<<Run("clean")>>) /\ Run("clean").run = "clean"
      BY DEF Run, ToSet
    <3>4. QED BY <3>2, <3>3 DEF Makes
  <2>2. QED BY <2>1 DEF BaseThere
<1>4. CASE BuildBase
  <2>1. lib'["base"].time = clock
    BY <1>4, BuildAssumption DEF BuildBase, Typed
  <2>2. QED BY <1>0, <2>1 DEF Exists, BaseThere
<1>5. CASE StartBuild
  <2>1. boot.at = "cmd" /\ boot.cmds # <<>> /\ lib' = lib /\ boot' = boot /\ ~Filling
    BY <1>5 DEF StartBuild, Commands, Filling
  <2>2. QED BY <2>1 DEF BaseThere
<1>6. CASE EndBuild
  <2>1. Exists(lib["base"]) /\ lib' = lib
    BY <1>6, Waiting DEF EndBuild, BaseThere, Filling
  <2>2. QED BY <2>1 DEF BaseThere
<1>7. CASE RunProgram
  <2>1. /\ boot.at = "cmd" /\ boot.cmds # <<>> /\ Command.run # "clean"
        /\ lib' = lib /\ ctx' = ctx /\ ctx.pc = "idle"
    BY <1>7, BuildAssumption, Waiting DEF RunProgram, Commands, bvars
  <2>2. Makes(boot.cmds)
    BY <2>1, NextCommand DEF Commanded, Cleans
  <2>3. Exists(lib["base"])
    BY <2>1, <2>2 DEF BaseThere, Filling
  <2>4. QED BY <2>1, <2>3 DEF BaseThere
<1>8. CASE Clean
  <2>1. boot.cmds # <<>> /\ Command.run = "clean" /\ boot'.cmds = Tail(boot.cmds) /\ boot.at = "cmd"
    BY <1>8 DEF Clean, Commands, Typed
  <2>2. ToSet(Tail(boot.cmds)) \subseteq ToSet(boot.cmds) /\ Cleans(boot.cmds)
        /\ Tail(boot.cmds) \in Seq(PickedCmds)
    BY <2>1, NextCommand DEF Commanded, Makes
  <2>3. ASSUME Tail(boot.cmds) # <<>> PROVE ~Makes(Tail(boot.cmds))
    <3>1. Head(Tail(boot.cmds)) \in ToSet(Tail(boot.cmds))
      BY <2>2, <2>3, HeadAndTail
    <3>2. QED BY <2>2, <3>1 DEF Cleans, Makes
  <2>4. QED BY <2>1, <2>3 DEF BaseThere
<1>9. CASE End \/ Stop
  BY <1>9 DEF End, Stop, AtMenu, BaseThere
<1>10. CASE Key
  BY <1>2, <1>10 DEF Key, MoveTo, bvars
<1>11. CASE (Tick \/ \E f \in Files : Edit(f)) /\ UNCHANGED <<selected, boot>>
  BY <1>2, <1>11 DEF Tick, Edit
<1>12. CASE UNCHANGED vars
  BY <1>2, <1>12 DEF vars, bvars
<1>13. QED
  BY <1>1, <1>3, <1>4, <1>5, <1>6, <1>7, <1>8, <1>9, <1>10, <1>11, <1>12 DEF Next
-----------------------------------------------------------------------------
\* A file that is saved is later than what there is, or is not of the module.
LEMMA SaveIsLate ==
  ASSUME NEW fl, NEW files, files \subseteq DOMAIN fl, NEW g \in DOMAIN fl,
         NEW ver, NEW now \in Int, NEW time \in Int, time <= now,
         NEW reads, NEW got, NEW own, got \subseteq files, own \subseteq files,
         Late(fl, time, files) \/ Good(fl, reads, got, own)
  PROVE  LET saved == [fl EXCEPT ![g] = [ver |-> ver, time |-> now]]
         IN  Late(saved, time, files) \/ Good(saved, reads, got, own)
<1> DEFINE saved == [fl EXCEPT ![g] = [ver |-> ver, time |-> now]]
<1> SUFFICES Late(saved, time, files) \/ Good(saved, reads, got, own)
  OBVIOUS
<1>1. saved[g].time = now /\ \A f \in DOMAIN fl : f # g => saved[f] = fl[f]
  OBVIOUS
<1> HIDE DEF saved
<1>2. CASE g \in files
  BY <1>1, <1>2 DEF Late
<1>3. CASE g \notin files
  <2>1. \A f \in files : saved[f] = fl[f]
    BY <1>1, <1>3
  <2>2. LastIn(saved, got) = LastIn(fl, got) /\ LastIn(saved, own) = LastIn(fl, own)
    BY <2>1 DEF LastIn
  <2>3. Late(fl, time, files) => Late(saved, time, files)
    BY <2>1 DEF Late
  <2>4. Good(fl, reads, got, own) => Good(saved, reads, got, own)
    BY <2>2 DEF Good
  <2>5. QED BY <2>3, <2>4
<1>4. QED BY <1>2, <1>3

\* What is compiled now has read every file of its module as it is.
LEMMA CompiledIsGood ==
  ASSUME NEW f
  PROVE  GoodObj(file, Reads(f, Module), f, Module, ctx.options)
<1> DEFINE files == {f} \union UNION {Headers[n] : n \in Included(Module)}
<1>1. Reads(f, Module) = {<<g, file[g].ver>> : g \in files}
  BY DEF Reads
<1>2. {f} \union Headers[Module] \subseteq files
  BY DEF Included
<1> HIDE DEF files
<1>3. QED BY <1>1, <1>2 DEF GoodObj, Good, LastIn

\* A library with an object of every source of a module is of it as it is.
LEMMA FilledIsGood ==
  ASSUME NEW fl, NEW l, NEW m, NEW options, Objects(m, options) # {},
         Filled(fl, l, Objects(m, options), m, options)
  PROVE  GoodLib(fl, l, m, options)
<1> DEFINE own == Own(m, options)
<1>1. \A f \in Objects(m, options) :
        /\ Member[f] \in DOMAIN l.members
        /\ LastIn(fl, {f} \union Headers[m]) \subseteq l.members[Member[f]]
        /\ l.members[Member[f]] \subseteq HeldBy(l)
  BY DEF Filled, GoodObj, Good, HeldBy
<1>2. PICK e \in Objects(m, options) : TRUE
  OBVIOUS
<1>3. LastIn(fl, own) \subseteq HeldBy(l)
  <2> SUFFICES ASSUME NEW f \in own PROVE <<f, fl[f].ver>> \in HeldBy(l)
    BY DEF LastIn
  <2>1. CASE f \in Objects(m, options)
    <3>1. <<f, fl[f].ver>> \in LastIn(fl, {f} \union Headers[m])
      BY DEF LastIn
    <3>2. QED BY <1>1, <2>1, <3>1
  <2>2. CASE f \in Headers[m]
    <3>1. <<f, fl[f].ver>> \in LastIn(fl, {e} \union Headers[m])
      BY <2>2 DEF LastIn
    <3>2. QED BY <1>1, <1>2, <3>1
  <2>3. QED BY <2>1, <2>2 DEF Own
<1>4. ASSUME NEW p \in HeldBy(l), p[1] \in own PROVE p \in LastIn(fl, own)
  <2>1. PICK n \in DOMAIN l.members : p \in l.members[n]
    BY <1>4 DEF HeldBy
  <2>2. PICK f \in Objects(m, options) : n = Member[f]
    BY <2>1 DEF Filled
  <2>3. QED BY <1>4, <2>1, <2>2 DEF Filled, GoodObj, Good
<1>5. QED BY <1>3, <1>4 DEF GoodLib, Good

\* An object that is added is one more of the module's, under its own name.
LEMMA ArchivedIsFilled ==
  ASSUME NEW c \in Builds, NEW m \in Modules, NEW l, NEW fs, fs \subseteq Objects(m, c.options),
         NEW f \in Objects(m, c.options), clock \in Nat,
         Filled(file, l, fs, m, c.options), GoodObj(file, obj[f].reads, f, m, c.options)
  PROVE  Filled(file, Archived(l, f), fs \union {f}, m, c.options)
<1> DEFINE k == Archived(l, f)
<1>1. /\ DOMAIN k.members = DOMAIN l.members \union {Member[f]}
      /\ k.members[Member[f]] = obj[f].reads
      /\ \A n \in DOMAIN l.members : n # Member[f] => k.members[n] = l.members[n]
      /\ k.time = clock
  BY DEF Archived
<1> HIDE DEF k
<1>2. \A g \in fs : g # f => Member[g] # Member[f]
  BY BuildAssumption
<1>3. \A g \in fs \union {f} : /\ Member[g] \in DOMAIN k.members
                               /\ GoodObj(file, k.members[Member[g]], g, m, c.options)
  BY <1>1, <1>2 DEF Filled
<1>4. \A n \in DOMAIN k.members : \E g \in fs \union {f} : n = Member[g]
  BY <1>1 DEF Filled
<1>5. QED BY <1>3, <1>4 DEF Filled, k

\* What a source's object is, once it is compiled or left.
LEMMA SupportedIsGood ==
  ASSUME Typed, Underway, Sound, Current, ~raced, NEW f \in ctx.todo, BuildSupporting(f)
  PROVE  /\ GoodObj(file, obj'[f].reads, f, Module, ctx.options)
         /\ \A g \in DOMAIN obj : g # f => obj'[g] = obj[g]
<1>1. ctx.pc = "sources" /\ f \in Objects(Module, ctx.options)
  BY DEF BuildSupporting, Underway
<1>2. PICK c \in Builds : ctx.src = c.src /\ ctx.options = c.options /\ Deps(c) = ToSet(Order)
  BY <1>1, Standing
<1>3. Module \in Deps(c) /\ Module \in Modules
  BY <1>1, <1>2, Standing
<1>4. f \in DOMAIN obj
  BY <1>1, <1>2, <1>3, OwnFiles DEF Typed
<1>5. CASE Recent(obj[f])
  <2>1. obj[f].time \in Int /\ HasTarget(Module)
    BY <1>1, <1>4, BuildAssumption, TargetHasObjects DEF Typed
  <2>2. Exists(obj[f]) /\ ~Late(file, obj[f].time, Gathered(Module, ctx.options))
    BY <1>1, <1>5, <2>1, RecentIsNotLate
  <2>3. SoundObj(file, obj[f], f, Module, ctx.options)
    BY <1>1, <1>2, <1>3 DEF Sound
  <2>4. QED BY <1>5, <2>2, <2>3 DEF SoundObj, BuildSupporting
<1>6. CASE ~Recent(obj[f])
  <2>1. obj'[f].reads = Reads(f, Module) /\ \A g \in DOMAIN obj : g # f => obj'[g] = obj[g]
    BY <1>4, <1>6 DEF BuildSupporting
  <2>2. QED BY <2>1, CompiledIsGood
<1>7. QED BY <1>5, <1>6
-----------------------------------------------------------------------------
\* What leaves files, objects and libraries, keeps what is sound so.
LEMMA KeepsSound ==
  ASSUME Sound, UNCHANGED <<file, obj, lib>>, ~raced' => ~raced,
         ~Filling \/ (Filling' /\ Module' = Module)
  PROVE  Sound'
BY DEF Sound

\* A step of the build keeps what may be left as it is good.
LEMMA SoundBuildStep ==
  ASSUME SameSources, Typed, Underway, Sound, Current, BuildSteps
  PROVE  Sound'
<1> SUFFICES ASSUME ~raced, raced' = raced PROVE Sound'
  <2>1. raced' = raced
    BY DEF BuildSteps, SkipRecent, BuildCtx_BuildModule, BuildSupporting, BuildCtx_LinkObject,
           EndSupporting, BuildExec, EndModule
  <2>2. QED BY <2>1 DEF Sound
<1>1. ctx.pc \notin {"idle", "done"}
  BY Running
<1>2. PICK d \in Builds : ctx.src = d.src /\ ctx.options = d.options /\ Deps(d) = ToSet(Order)
  BY <1>1, Standing
<1>3. Module \in Deps(d) /\ Module \in Modules
  BY <1>1, <1>2, Standing
<1>4. CASE SkipRecent \/ EndModule
  BY <1>4, KeepsSound DEF SkipRecent, EndModule, Filling
<1>5. CASE ~SkipRecent /\ ~EndModule
  <2>1. Module' = Module
    BY <1>5, WithinModule
  <2>2. CASE BuildCtx_BuildModule
    <3>1. /\ ~Filling /\ Filling' /\ UNCHANGED <<file, obj>>
          /\ \A m : m # Module => lib'[m] = lib[m]
      BY <2>2 DEF BuildCtx_BuildModule, Filling, Typed, BuildFields
    <3>2. QED BY <2>1, <3>1 DEF Sound
  <2>3. ASSUME NEW f \in ctx.todo, BuildSupporting(f) PROVE Sound'
    <3>1. /\ Filling /\ Filling' /\ UNCHANGED <<file, lib>>
      BY <2>3 DEF BuildSupporting, Filling, Typed, BuildFields
    <3>2. f \in Objects(Module, d.options)
      BY <1>2, <2>3 DEF BuildSupporting, Underway
    <3>3. /\ GoodObj(file, obj'[f].reads, f, Module, d.options)
          /\ \A g \in DOMAIN obj : g # f => obj'[g] = obj[g]
      BY <1>2, <2>3, SupportedIsGood
    <3>4. ASSUME NEW c \in Builds, NEW m \in Deps(c), NEW g \in Objects(m, c.options)
          PROVE  SoundObj(file, obj'[g], g, m, c.options)
      <4>1. CASE g = f
        <5>1. m = Module
          BY <1>3, <3>2, <4>1, OwnObjects
        <5>2. Own(m, c.options) = Own(m, d.options)
          BY <1>3, <5>1, SameFiles
        <5>3. QED BY <3>3, <4>1, <5>1, <5>2 DEF SoundObj, GoodObj
      <4>2. CASE g # f
        <5>1. m \in Modules
          BY PickedBuild
        <5>2. g \in DOMAIN obj
          BY <5>1, OwnFiles DEF Typed
        <5>3. QED BY <3>3, <4>2, <5>2 DEF Sound
      <4>3. QED BY <4>1, <4>2
    <3>5. QED BY <2>1, <3>1, <3>4 DEF Sound
  <2>4. CASE BuildCtx_LinkObject
    <3>1. /\ Filling /\ Filling' /\ UNCHANGED <<file, obj>>
          /\ \A m : m # Module => lib'[m] = lib[m]
      BY <2>4 DEF BuildCtx_LinkObject, Filling, Typed, BuildFields
    <3>2. QED BY <2>1, <3>1 DEF Sound
  <2>5. CASE EndSupporting
    <3>1. ctx.pc = "sources" /\ ctx.todo = {} /\ UNCHANGED <<file, obj, lib>> /\ ~Filling'
      BY <2>5 DEF EndSupporting, Filling, Typed, BuildFields
    <3>2. Objects(Module, d.options) \ {} = Objects(Module, d.options)
      OBVIOUS
    <3>3. Filled(file, lib[Module], Objects(Module, d.options), Module, d.options)
      BY <1>2, <3>1, <3>2 DEF Current
    <3>4. SoundLib(file, lib[Module], Module, d.options)
      <4>1. CASE Objects(Module, d.options) = {}
        BY <3>3, <4>1 DEF Filled, SoundLib
      <4>2. CASE Objects(Module, d.options) # {}
        BY <3>3, <4>2, FilledIsGood DEF SoundLib
      <4>3. QED BY <4>1, <4>2
    <3>5. ASSUME NEW c \in Builds, Module \in Deps(c)
          PROVE  SoundLib(file, lib[Module], Module, c.options)
      BY <1>3, <3>4, <3>5, SameFiles DEF SoundLib, GoodLib
    <3>6. QED BY <3>1, <3>5 DEF Sound
  <2>6. ASSUME NEW f \in ctx.todo, BuildExec(f) PROVE Sound'
    BY <2>6, KeepsSound DEF BuildExec, Filling
  <2>7. QED BY <1>5, <2>2, <2>3, <2>4, <2>5, <2>6 DEF BuildSteps
<1>6. QED BY <1>4, <1>5

\* So does every step: a file that is saved makes what was read of it late.
LEMMA SoundStep ==
  ASSUME SameSources, Typed, Commanded, Underway, Sound, Current, [Next]_vars
  PROVE  Sound'
<1>0. clock \in Nat
  BY BuildAssumption DEF Typed
<1>1. CASE BuildSteps
  BY <1>1, SoundBuildStep
<1>2. CASE ctx' = ctx /\ UNCHANGED <<file, obj, lib, raced>>
  BY <1>2, KeepsSound, SameCtx
<1>3. CASE StartBuild \/ EndBuild
  BY <1>3, KeepsSound DEF StartBuild, EndBuild, Filling
<1>4. CASE Stop
  <2>1. UNCHANGED <<file, obj, lib>> /\ raced' = (raced \/ ctx.pc # "idle")
    BY <1>4 DEF Stop, Building
  <2>2. CASE raced'
    BY <2>2 DEF Sound
  <2>3. CASE ~raced'
    <3>1. ~raced /\ ctx.pc = "idle"
      BY <1>4, <2>3 DEF Stop, Building
    <3>2. QED BY <2>1, <3>1, KeepsSound DEF Filling
  <2>4. QED BY <2>2, <2>3
<1>5. CASE BuildBase
  <2>1. ctx.pc = "idle" /\ ctx' = ctx /\ UNCHANGED <<file, obj, raced>>
        /\ \A m : m # "base" => lib'[m] = lib[m]
    BY <1>5, Waiting DEF BuildBase
  <2>2. lib'["base"] = [members |-> [n \in {"inc"} |-> Latest(Sources["base"] \union Headers["base"])],
                        time |-> clock]
    BY <1>5, BuildAssumption DEF BuildBase, Typed
  <2>3. HeldBy(lib'["base"]) = Latest(Sources["base"] \union Headers["base"])
    BY <2>2 DEF HeldBy
  <2>4. ASSUME NEW c \in Builds, "base" \in Deps(c)
        PROVE  GoodLib(file, lib'["base"], "base", c.options)
    <3>1. Own("base", c.options) = Sources["base"] \union Headers["base"]
      BY BuildAssumption DEF Own
    <3>2. QED BY <2>3, <3>1 DEF GoodLib, Good, LastIn, Latest
  <2>5. QED BY <2>1, <2>4 DEF Sound, SoundLib, Filling
<1>6. CASE Clean
  <2>1. /\ ctx' = ctx /\ ctx.pc = "idle" /\ file' = file
        /\ \A f \in DOMAIN obj : obj'[f] = Unmade
        /\ \A m \in DOMAIN lib : lib'[m] = NoLib
    BY <1>6, Waiting DEF Clean
  <2>2. ~Exists(Unmade) /\ ~Exists(NoLib)
    BY DEF Exists, Unmade, NoLib
  <2>3. ASSUME NEW c \in Builds, NEW m \in Deps(c)
        PROVE  /\ \A f \in Objects(m, c.options) : SoundObj(file', obj'[f], f, m, c.options)
               /\ SoundLib(file', lib'[m], m, c.options)
    <3>1. m \in Modules
      BY PickedBuild
    <3>2. Objects(m, c.options) \subseteq DOMAIN obj /\ m \in DOMAIN lib
      BY <3>1, OwnFiles DEF Typed
    <3>3. QED BY <2>1, <2>2, <3>2 DEF SoundObj, SoundLib
  <2>4. QED BY <2>3 DEF Sound
<1>7. ASSUME NEW g \in Files, Edit(g) PROVE Sound'
  <2> SUFFICES ASSUME ~raced' PROVE Sound'
    BY DEF Sound
  <2>1. ~raced /\ ctx.pc = "idle" /\ ctx' = ctx /\ UNCHANGED <<obj, lib>>
        /\ file' = [file EXCEPT ![g] = [ver |-> file[g].ver + 1, time |-> clock]]
    BY <1>7 DEF Edit, Building
  <2>2. ASSUME NEW c \in Builds, NEW m \in Deps(c)
        PROVE  /\ \A f \in Objects(m, c.options) : SoundObj(file', obj[f], f, m, c.options)
               /\ SoundLib(file', lib[m], m, c.options)
    <3> DEFINE files == Gathered(m, c.options)
    <3>1. m \in Modules
      BY PickedBuild
    <3>2. /\ files \subseteq DOMAIN file /\ Own(m, c.options) \subseteq files
          /\ Objects(m, c.options) \subseteq files /\ Headers[m] \subseteq files
      BY <3>1, OwnFiles DEF Typed
    <3>3. g \in DOMAIN file /\ clock \in Int
      BY <1>0 DEF Files
    <3>4. ASSUME NEW f \in Objects(m, c.options), Exists(obj[f])
          PROVE  Late(file', obj[f].time, files) \/ GoodObj(file', obj[f].reads, f, m, c.options)
      <4>1. obj[f].time \in Int /\ obj[f].time <= clock
        BY <1>0, <3>2 DEF Typed
      <4>2. Late(file, obj[f].time, files)
              \/ Good(file, obj[f].reads, {f} \union Headers[m], Own(m, c.options))
        BY <2>1, <3>4 DEF Sound, SoundObj, GoodObj
      <4>3. {f} \union Headers[m] \subseteq files
        BY <3>2
      <4> HIDE DEF files
      <4>4. Late(file', obj[f].time, files)
              \/ Good(file', obj[f].reads, {f} \union Headers[m], Own(m, c.options))
        BY <2>1, <3>2, <3>3, <4>1, <4>2, <4>3, SaveIsLate
      <4>5. QED BY <4>4 DEF GoodObj
    <3>5. ASSUME Exists(lib[m])
          PROVE  Late(file', lib[m].time, files) \/ GoodLib(file', lib[m], m, c.options)
      <4>1. lib[m].time \in Int /\ lib[m].time <= clock
        BY <1>0, <3>1 DEF Typed
      <4>2. Late(file, lib[m].time, files)
              \/ Good(file, HeldBy(lib[m]), Own(m, c.options), Own(m, c.options))
        BY <2>1, <3>5 DEF Sound, SoundLib, GoodLib, Filling
      <4> HIDE DEF files
      <4>3. Late(file', lib[m].time, files)
              \/ Good(file', HeldBy(lib[m]), Own(m, c.options), Own(m, c.options))
        BY <2>1, <3>2, <3>3, <4>1, <4>2, SaveIsLate
      <4>4. QED BY <4>3 DEF GoodLib
    <3>6. QED BY <3>4, <3>5 DEF SoundObj, SoundLib
  <2>3. QED BY <2>1, <2>2 DEF Sound
<1>8. CASE Key \/ Enter \/ RunProgram \/ End \/ Tick \/ UNCHANGED vars
  BY <1>2, <1>8 DEF Key, MoveTo, Enter, RunProgram, End, Tick, vars, bvars
<1>9. QED BY <1>1, <1>3, <1>4, <1>5, <1>6, <1>7, <1>8 DEF Next
-----------------------------------------------------------------------------
\* Every step keeps what the build that runs knows and has made current.
LEMMA CurrentStep ==
  ASSUME Typed, Commanded, Underway, Sound, Current, [Next]_vars
  PROVE  Current'
<1> SUFFICES ASSUME ~raced', ctx'.pc # "idle" PROVE Current'
  BY DEF Current
<1>0. clock \in Nat
  BY BuildAssumption DEF Typed
<1>1. CASE StartBuild
  <2>1. /\ Underway' /\ ctx'.pc = "module" /\ Passed' = {} /\ file' = file
        /\ \A m \in ToSet(Order') : ctx'.time[m] = Newest(Gathered(m, ctx'.options))
    BY <1>1, Starts DEF StartBuild
  <2>2. PICK c \in Builds : ctx'.src = c.src /\ ctx'.options = c.options
    BY <2>1 DEF Underway
  <2>3. Order' = RegisterAll(c.src, c.options)
    BY <2>2 DEF Order
  <2>4. ToSet(Order') \subseteq Modules
    BY <2>3, PickedBuild
  <2>5. ASSUME NEW m \in ToSet(Order') PROVE Known(file', ctx'.time, m, ctx'.options)
    <3>1. SUFFICES ASSUME Objects(m, c.options) # {}
                   PROVE  Known(file', ctx'.time, m, ctx'.options)
      BY <2>2 DEF Known
    <3> DEFINE files == Gathered(m, c.options)
    <3>2. files \subseteq DOMAIN file /\ files # {}
      BY <2>4, <3>1, OwnFiles DEF Typed
    <3>3. ctx'.time[m] = Newest(files)
      BY <2>1, <2>2
    <3> HIDE DEF files
    <3>4. Newest(files) \in 0 .. clock /\ \A f \in files : file[f].time <= Newest(files)
      BY <1>0, <3>2, NewestIs DEF Typed
    <3>5. Newest(files) \in Int
      BY <3>4
    <3>6. QED BY <2>1, <2>2, <3>3, <3>4, <3>5 DEF Known, files
  <2>6. QED BY <2>1, <2>5 DEF Current
<1>2. CASE ctx' = ctx /\ ctx.pc # "idle" /\ UNCHANGED <<obj, lib, exe, boot>>
           /\ ((\E f \in Files : Edit(f)) \/ UNCHANGED <<file, raced, taint>>)
  <2>1. ASSUME NEW f \in Files, Edit(f) PROVE raced'
    BY <1>2, <2>1 DEF Edit, Building
  <2>2. UNCHANGED <<file, raced>>
    BY <1>2, <2>1
  <2>3. QED BY <1>2, <2>2, SameCtx DEF Current
<1>3. CASE BuildSteps
  <2>1. ctx.pc \notin {"idle", "done"}
    BY <1>3, Running
  <2>2. raced' = raced /\ file' = file
    BY <1>3 DEF BuildSteps, SkipRecent, BuildCtx_BuildModule, BuildSupporting, BuildCtx_LinkObject,
           EndSupporting, BuildExec, EndModule
  <2>3. PICK d \in Builds : ctx.src = d.src /\ ctx.options = d.options /\ Deps(d) = ToSet(Order)
    BY <2>1, Standing
  <2>4. Module \in Deps(d) /\ Module \in Modules /\ Module \notin Passed
    BY <2>1, <2>3, Standing
  <2>5. /\ \A m \in ToSet(Order) : Known(file, ctx.time, m, ctx.options)
        /\ \A m \in Passed : HasTarget(m) => GoodLib(file, lib[m], m, ctx.options)
    BY <2>1, <2>2 DEF Current
  <2>6. CASE SkipRecent \/ EndModule
    <3>1. /\ Order' = Order /\ Passed' = Passed \union {Module} /\ ctx'.options = ctx.options
          /\ ctx'.time = ctx.time /\ ctx'.pc \in {"module", "done"} /\ lib' = lib
          /\ \A m : HasTarget(m)' <=> HasTarget(m)
      BY <2>1, <2>6, GoesOn DEF SkipRecent, EndModule
    <3>2. HasTarget(Module) => GoodLib(file, lib[Module], Module, ctx.options)
      <4>1. CASE EndModule
        BY <2>2, <4>1 DEF EndModule, Current
      <4>2. CASE SkipRecent
        <5>1. ctx.pc = "module" /\ HasTarget(Module) /\ Recent(lib[Module])
          BY <4>2 DEF SkipRecent
        <5>2. lib[Module].time \in Int
          BY <1>0, <2>4 DEF Typed
        <5>3. Exists(lib[Module]) /\ ~Late(file, lib[Module].time, Gathered(Module, ctx.options))
          BY <2>1, <2>2, <5>1, <5>2, RecentIsNotLate
        <5>4. SoundLib(file, lib[Module], Module, ctx.options)
          BY <2>2, <2>3, <2>4, <5>1 DEF Sound, Filling
        <5>5. QED BY <5>3, <5>4 DEF SoundLib
      <4>3. QED BY <2>6, <4>1, <4>2
    <3>3. QED BY <2>2, <2>5, <3>1, <3>2 DEF Current
  <2>7. CASE ~SkipRecent /\ ~EndModule
    <3>1. /\ ctx'.options = ctx.options /\ ctx'.time = ctx.time
          /\ Order' = Order /\ Passed' = Passed /\ Module' = Module
          /\ \A m : HasTarget(m)' <=> HasTarget(m)
      BY <1>3, <2>7, WithinModule
    <3> DEFINE sources == Objects(Module, ctx.options)
    <3>2. CASE BuildCtx_BuildModule
      <4>1. /\ ctx'.pc = "sources" /\ ctx'.todo = sources
            /\ lib'[Module] = NoLib /\ \A m : m # Module => lib'[m] = lib[m]
        BY <2>4, <3>2 DEF BuildCtx_BuildModule, Typed, BuildFields
      <4>2. Filled(file, NoLib, {}, Module, ctx.options)
        BY DEF Filled, NoLib, Exists
      <4>3. sources \ ctx'.todo = {}
        BY <4>1
      <4>4. QED BY <2>2, <2>4, <2>5, <3>1, <4>1, <4>2, <4>3 DEF Current
    <3>3. ASSUME NEW f \in ctx.todo, BuildSupporting(f) PROVE Current'
      <4>1. /\ ctx.pc = "sources" /\ ctx'.pc = "link" /\ ctx'.at[1] = f /\ lib' = lib
            /\ ctx'.todo = ctx.todo \ {f}
        BY <3>3 DEF BuildSupporting, Typed, BuildFields
      <4>2. GoodObj(file, obj'[f].reads, f, Module, ctx.options)
        BY <2>2, <3>3, SupportedIsGood
      <4>3. sources \ (ctx'.todo \union {f}) = sources \ ctx.todo
        BY <4>1
      <4>4. Filled(file, lib[Module], sources \ ctx.todo, Module, ctx.options)
        BY <2>2, <4>1 DEF Current
      <4>5. QED BY <2>2, <2>5, <3>1, <4>1, <4>2, <4>3, <4>4 DEF Current
    <3>4. CASE BuildCtx_LinkObject
      <4>1. PICK f \in sources : ctx.at = <<f>> /\ f \notin ctx.todo
        BY <3>4 DEF BuildCtx_LinkObject, Underway
      <4>2. /\ ctx.pc = "link" /\ ctx'.pc = "sources" /\ ctx'.todo = ctx.todo /\ ctx.at[1] = f
            /\ lib'[Module] = Archived(lib[Module], f) /\ \A m : m # Module => lib'[m] = lib[m]
        BY <2>4, <3>4, <4>1 DEF BuildCtx_LinkObject, Typed, BuildFields
      <4> DEFINE fs == sources \ (ctx.todo \union {f})
      <4>3. /\ Filled(file, lib[Module], fs, Module, ctx.options)
            /\ GoodObj(file, obj[f].reads, f, Module, ctx.options)
        BY <2>2, <4>2 DEF Current
      <4>4. fs \subseteq sources /\ fs \union {f} = sources \ ctx.todo
        BY <4>1
      <4> HIDE DEF fs
      <4>5. Filled(file, Archived(lib[Module], f), fs \union {f}, Module, ctx.options)
        BY <1>0, <2>3, <2>4, <4>3, <4>4, ArchivedIsFilled
      <4>6. QED BY <2>2, <2>4, <2>5, <3>1, <4>2, <4>4, <4>5 DEF Current
    <3>5. CASE EndSupporting
      <4>1. ctx.pc = "sources" /\ ctx.todo = {} /\ lib' = lib /\ ctx'.pc = "execs"
        BY <3>5 DEF EndSupporting, Typed, BuildFields
      <4>2. Filled(file, lib[Module], sources, Module, ctx.options)
        <5>1. sources \ ctx.todo = sources
          BY <4>1
        <5>2. QED BY <2>2, <4>1, <5>1 DEF Current
      <4>3. HasTarget(Module) => GoodLib(file, lib[Module], Module, ctx.options)
        BY <4>1, <4>2, FilledIsGood, TargetHasObjects
      <4>4. QED BY <2>2, <2>5, <3>1, <4>1, <4>3 DEF Current
    <3>6. ASSUME NEW f \in ctx.todo, BuildExec(f) PROVE Current'
      <4>1. ctx.pc = "execs" /\ lib' = lib /\ ctx'.pc = "execs"
        BY <3>6 DEF BuildExec, Typed, BuildFields
      <4>2. HasTarget(Module) => GoodLib(file, lib[Module], Module, ctx.options)
        BY <2>2, <4>1 DEF Current
      <4>3. QED BY <2>2, <2>5, <3>1, <4>1, <4>2 DEF Current
    <3>7. QED BY <1>3, <2>7, <3>2, <3>3, <3>4, <3>5, <3>6 DEF BuildSteps
  <2>8. QED BY <2>6, <2>7
<1>4. QED BY <1>1, <1>2, <1>3, WhileRunning
-----------------------------------------------------------------------------
\* What is read now is read as it is.
LEMMA ReadIsUpToDate ==
  ASSUME NEW m, NEW f
  PROVE  UpToDate(file, Reads(f, m))
BY DEF UpToDate, Reads

\* A step of the build reads everything as it is.
LEMMA UntaintedBuildStep ==
  ASSUME Typed, Underway, Untainted, BuildSteps
  PROVE  Untainted'
<1>1. ctx.pc \notin {"idle", "done"}
  BY Running
<1>2. PICK d \in Builds : ctx.src = d.src /\ ctx.options = d.options
  BY <1>1, Standing
<1>3. Module \in Modules
  BY <1>1, Standing
<1>4. file' = file /\ taint' = taint
  BY DEF BuildSteps, SkipRecent, BuildCtx_BuildModule, BuildSupporting, BuildCtx_LinkObject,
         EndSupporting, BuildExec, EndModule
<1>5. ctx'.pc # "idle"
  <2>1. NextModule.pc # "idle"
    BY DEF NextModule, Typed, BuildFields
  <2>2. QED
    BY <2>1 DEF BuildSteps, SkipRecent, BuildCtx_BuildModule, BuildSupporting, BuildCtx_LinkObject,
                EndSupporting, BuildExec, EndModule, Typed, BuildFields
<1> SUFFICES ASSUME ~taint
             PROVE  /\ \A f \in DOMAIN obj' : UpToDate(file, obj'[f].reads)
                    /\ \A m \in Modules : UpToDate(file, HeldBy(lib'[m]))
                    /\ \A f \in DOMAIN exe' : UpToDate(file, exe'[f].reads)
  BY <1>4, <1>5 DEF Untainted
<1>6. /\ \A f \in DOMAIN obj : UpToDate(file, obj[f].reads)
      /\ \A m \in Modules : UpToDate(file, HeldBy(lib[m]))
      /\ \A f \in DOMAIN exe : UpToDate(file, exe[f].reads)
  BY DEF Untainted
<1>7. CASE SkipRecent \/ EndSupporting \/ EndModule
  BY <1>6, <1>7 DEF SkipRecent, EndSupporting, EndModule
<1>8. CASE BuildCtx_BuildModule
  <2>1. UNCHANGED <<obj, exe>> /\ lib' = [lib EXCEPT ![Module] = NoLib]
    BY <1>8 DEF BuildCtx_BuildModule
  <2>2. UpToDate(file, HeldBy(NoLib))
    BY DEF UpToDate, HeldBy, NoLib
  <2>3. \A m \in Modules : lib'[m] = lib[m] \/ lib'[m] = NoLib
    BY <2>1 DEF Typed
  <2>4. QED BY <1>6, <2>1, <2>2, <2>3
<1>9. ASSUME NEW f \in ctx.todo, BuildSupporting(f)
      PROVE  /\ \A g \in DOMAIN obj' : UpToDate(file, obj'[g].reads)
             /\ UNCHANGED <<lib, exe>>
  <2>1. /\ UNCHANGED <<lib, exe>> /\ DOMAIN obj' = DOMAIN obj
        /\ \A g \in DOMAIN obj : obj'[g] = obj[g]
                                 \/ obj'[g] = [reads |-> Reads(f, Module), time |-> clock]
    BY <1>9 DEF BuildSupporting
  <2>2. QED BY <1>6, <2>1, ReadIsUpToDate
<1>10. CASE BuildCtx_LinkObject
  <2>1. PICK f \in Objects(Module, ctx.options) : ctx.at = <<f>>
    BY <1>10 DEF BuildCtx_LinkObject, Underway
  <2>2. /\ UNCHANGED <<obj, exe>> /\ f \in DOMAIN obj
        /\ \A m \in Modules : lib'[m] = lib[m] \/ (m = Module /\ lib'[m] = Archived(lib[m], f))
    <3>1. f \in DOMAIN obj
      BY <1>2, <1>3, <2>1, OwnFiles DEF Typed
    <3>2. UNCHANGED <<obj, exe>> /\ lib' = [lib EXCEPT ![Module] = Archived(lib[Module], f)]
      BY <1>10, <2>1 DEF BuildCtx_LinkObject
    <3>3. QED BY <3>1, <3>2 DEF Typed
  <2>3. HeldBy(Archived(lib[Module], f)) \subseteq HeldBy(lib[Module]) \union obj[f].reads
    BY DEF HeldBy, Archived
  <2>4. UpToDate(file, HeldBy(Archived(lib[Module], f)))
    BY <1>3, <1>6, <2>2, <2>3 DEF UpToDate
  <2>5. QED BY <1>6, <2>2, <2>4
<1>11. ASSUME NEW f \in ctx.todo, BuildExec(f)
       PROVE  /\ \A g \in DOMAIN exe' : UpToDate(file, exe'[g].reads)
              /\ UNCHANGED <<obj, lib>>
  <2> DEFINE held == UNION {Held(m) : m \in StaticLibs}
  <2>1. /\ UNCHANGED <<obj, lib>> /\ DOMAIN exe' = DOMAIN exe
        /\ \A g \in DOMAIN exe : exe'[g] = exe[g]
              \/ exe'[g] = [reads |-> Reads(f, Module) \union held, time |-> clock]
    BY <1>11 DEF BuildExec
  <2>2. StaticLibs \subseteq Modules
    <3>1. Needs(Module, ctx.options) \in Seq(Modules)
      BY <1>2, <1>3, PickedBuild
    <3>2. ToSet(Needs(Module, ctx.options)) \subseteq Modules
      BY <3>1 DEF ToSet
    <3>3. QED BY <1>3, <3>2 DEF StaticLibs, NamedBy
  <2>3. \A m \in StaticLibs : UpToDate(file, Held(m))
    BY <1>6, <2>2 DEF Held, HeldBy
  <2>4. UpToDate(file, Reads(f, Module) \union held)
    BY <2>3, ReadIsUpToDate DEF UpToDate
  <2> HIDE DEF held
  <2>5. ASSUME NEW g \in DOMAIN exe PROVE UpToDate(file, exe'[g].reads)
    <3>1. CASE exe'[g] = exe[g]
      BY <1>6, <3>1
    <3>2. CASE exe'[g] = [reads |-> Reads(f, Module) \union held, time |-> clock]
      <4>1. exe'[g].reads = Reads(f, Module) \union held
        BY <3>2
      <4>2. QED BY <2>4, <4>1
    <3>3. QED BY <2>1, <3>1, <3>2
  <2>6. QED BY <2>1, <2>5
<1>12. QED BY <1>6, <1>7, <1>8, <1>9, <1>10, <1>11 DEF BuildSteps

\* Every step keeps what was built since a clean one of the last versions.
LEMMA UntaintedStep ==
  ASSUME Typed, Commanded, Underway, BaseThere, Untainted, [Next]_vars
  PROVE  Untainted'
<1>0. clock \in Nat
  BY BuildAssumption DEF Typed
<1>1. CASE BuildSteps
  BY <1>1, UntaintedBuildStep
<1>2. ASSUME UNCHANGED <<file, obj, lib, exe>>, ~taint' => ~taint,
             ctx'.pc = "idle" => ctx.pc = "idle" \/ Exists(lib["base"])
      PROVE  Untainted'
  <2>1. Empty' <=> Empty
    BY <1>2 DEF Empty
  <2>2. QED BY <1>2, <2>1 DEF Untainted
<1>3. CASE Key \/ Enter \/ RunProgram \/ End \/ Tick \/ UNCHANGED vars
  BY <1>2, <1>3 DEF Key, MoveTo, Enter, RunProgram, End, Tick, vars, bvars
<1>4. CASE StartBuild
  BY <1>2, <1>4 DEF StartBuild
<1>5. CASE EndBuild
  <2>1. Exists(lib["base"])
    BY <1>5, Waiting DEF EndBuild, BaseThere, Filling
  <2>2. QED BY <1>2, <1>5, <2>1 DEF EndBuild
<1>6. CASE Stop
  <2>1. ~taint' => ctx.pc = "idle"
    BY <1>6 DEF Stop, Building
  <2>2. CASE taint'
    BY <2>2 DEF Untainted
  <2>3. QED BY <1>2, <1>6, <2>1, <2>2 DEF Stop
<1>7. CASE BuildBase
  <2> DEFINE files == Sources["base"] \union Headers["base"]
  <2>1. /\ UNCHANGED <<file, obj, exe, taint>>
        /\ lib' = [lib EXCEPT !["base"] = [members |-> [n \in {"inc"} |-> Latest(files)], time |-> clock]]
    BY <1>7 DEF BuildBase
  <2>2. "base" \in DOMAIN lib
    BY BuildAssumption DEF Typed
  <2> HIDE DEF files
  <2>3. /\ lib'["base"].time = clock /\ HeldBy(lib'["base"]) = Latest(files)
        /\ \A m \in Modules : m # "base" => lib'[m] = lib[m]
    BY <2>1, <2>2 DEF HeldBy, Typed
  <2>4. UpToDate(file, HeldBy(lib'["base"])) /\ Exists(lib'["base"])
    BY <1>0, <2>3 DEF UpToDate, Latest, Exists
  <2>5. QED BY <2>1, <2>3, <2>4 DEF Untainted
<1>8. ASSUME Empty' PROVE Untainted'
  BY <1>8 DEF Untainted, Empty, UpToDate
<1>9. CASE Clean
  <2>1. /\ \A f \in DOMAIN obj' : obj'[f].reads = {}
        /\ \A f \in DOMAIN exe' : exe'[f].reads = {}
        /\ \A m \in Modules : lib'[m] = NoLib
    BY <1>9 DEF Clean, Unmade, Typed
  <2>2. HeldBy(NoLib) = {}
    BY DEF HeldBy, NoLib
  <2>3. QED BY <1>8, <2>1, <2>2 DEF Empty
<1>10. ASSUME NEW f \in Files, Edit(f) PROVE Untainted'
  <2> SUFFICES ASSUME ~taint' PROVE Empty'
    BY <1>8 DEF Untainted
  <2>1. ~taint /\ ctx.pc = "idle" /\ ~Exists(lib["base"]) /\ UNCHANGED <<obj, lib, exe>>
    BY <1>10, BuildAssumption DEF Edit, Building
  <2>2. QED BY <2>1 DEF Untainted, Empty
<1>11. QED BY <1>1, <1>3, <1>4, <1>5, <1>6, <1>7, <1>9, <1>10 DEF Next
-----------------------------------------------------------------------------
\* Before anything is built there is nothing that could be wrong.
LEMMA BuildInitInv ==
  ASSUME Init
  PROVE  CurrentInv
<1> USE DEF Init
<1>1. /\ ctx.pc = "idle" /\ DOMAIN ctx = BuildFields
      /\ boot.at = "menu" /\ boot.cmds = <<>> /\ DOMAIN boot = {"at", "cmds"}
  BY DEF Idle, AtMenu, BuildFields
<1>2. Typed
  <2>1. /\ \A f \in DOMAIN obj : obj[f].time \in -1 .. clock
        /\ \A m \in Modules : lib[m].time \in -1 .. clock
        /\ \A f \in DOMAIN exe : exe[f].time \in -1 .. clock
    BY DEF Unmade, NoLib
  <2>2. \A f \in DOMAIN file : file[f].ver \in 0 .. MAX_EDITS /\ file[f].time \in 0 .. clock
    BY BuildAssumption
  <2>3. clock \in 1 .. MAX_TIME /\ stops \in 0 .. BUILD_STOPS
    BY BuildAssumption
  <2>4. raced \in BOOLEAN /\ taint \in BOOLEAN
    OBVIOUS
  <2>6. selected \in 0 .. 10
    OBVIOUS
  <2>5. /\ DOMAIN file = DOMAIN Member /\ DOMAIN obj = DOMAIN Member /\ DOMAIN lib = Modules
        /\ DOMAIN exe = UNION {Execs(m) : m \in Modules}
    OBVIOUS
  <2>7. QED BY <1>1, <2>1, <2>2, <2>3, <2>4, <2>5, <2>6 DEF Typed
<1>3. Commanded
  BY <1>1 DEF Commanded
<1>4. Underway /\ Ready /\ BaseThere /\ Current
  BY <1>1 DEF Underway, Ready, BaseThere, Current
<1>5. Sound
  <2>1. ~Exists(Unmade) /\ ~Exists(NoLib)
    BY DEF Exists, Unmade, NoLib
  <2>2. ASSUME NEW c \in Builds, NEW m \in Deps(c)
        PROVE  /\ \A f \in Objects(m, c.options) : SoundObj(file, obj[f], f, m, c.options)
               /\ SoundLib(file, lib[m], m, c.options)
    <3>1. m \in Modules
      BY PickedBuild
    <3>2. Objects(m, c.options) \subseteq DOMAIN Member
      BY <3>1, OwnFiles
    <3>3. QED BY <2>1, <3>1, <3>2 DEF SoundObj, SoundLib
  <2>3. QED BY <2>2 DEF Sound
<1>6. Untainted
  <2>1. Unmade.reads = {} /\ HeldBy(NoLib) = {}
    BY DEF Unmade, NoLib, HeldBy
  <2>2. Empty
    BY <2>1 DEF Empty
  <2>3. QED BY <2>2 DEF Untainted, Empty, UpToDate
<1>7. QED BY <1>2, <1>3, <1>4, <1>5, <1>6 DEF CurrentInv, BuildInv

\* Every step keeps the invariant.
LEMMA BuildStepInv ==
  ASSUME BuildInv, [Next]_vars
  PROVE  BuildInv'
BY TypedStep, CommandedStep, UnderwayStep, ReadyStep, BaseThereStep, UntaintedStep DEF BuildInv

\* What is so of the build at every step, whatever is edited or stopped, and
\* however many modules, files and entries there are.
THEOREM BuildInvariant == Spec => []BuildInv
<1>1. Init => BuildInv
  BY BuildInitInv DEF CurrentInv
<1>2. BuildInv /\ [Next]_vars => BuildInv'
  BY BuildStepInv
<1>3. QED BY <1>1, <1>2, PTL DEF Spec

\* What is skipped, and what a build that runs has made, is of the last
\* versions, where a module is of the same files in every build that is picked.
THEOREM BuildStaysCurrent ==
  ASSUME SameSources
  PROVE  Spec => []CurrentInv
<1>1. Init => CurrentInv
  BY BuildInitInv
<1>2. CurrentInv /\ [Next]_vars => CurrentInv'
  BY BuildStepInv, SoundStep, CurrentStep DEF CurrentInv, BuildInv
<1>3. QED BY <1>1, <1>2, PTL DEF Spec

\* The times and versions of what is in the build directory, the clock and the
\* places of bootstrap and of a build stay in their ranges.
THEOREM BuildIsTyped == Spec => []TypeOK
<1>1. BuildInv => TypeOK
  BY DEF BuildInv, Typed, TypeOK, Files
<1>2. QED BY <1>1, BuildInvariant, PTL

\* An exec is linked when the libraries it is linked with are there: its module
\* is built after every other one that it names, as the order they were
\* registered in has it (BuildCtx_ParseDependencies, BuildCtx_Build).
THEOREM BuildLinksReady == Spec => []LinksReady
<1>1. ASSUME BuildInv, ctx.pc = "execs", ctx.todo # {}, NEW m \in StaticLibs
      PROVE  Exists(lib[m])
  <2>1. /\ Ready /\ Underway /\ HasTarget(m)
        /\ m \in {Module} \union ToSet(Needs(Module, ctx.options))
    BY <1>1 DEF BuildInv, StaticLibs, NamedBy
  <2>2. CASE m = Module
    BY <1>1, <2>1, <2>2 DEF Ready
  <2>3. CASE m # Module
    <3>1. PICK c \in Builds : ctx.src = c.src /\ ctx.options = c.options
      BY <1>1, <2>1 DEF Underway
    <3>2. /\ Listed(Order, ctx.src, ctx.options) /\ Len(ctx.order) \in Nat /\ Len(ctx.order) > 0
          /\ Module = Order[Len(ctx.order)] /\ Module \in ToSet(Order) /\ ToSet(Order) \subseteq Modules
      BY <1>1, <2>1, Standing
    <3>3. m \in ToSet(Order)
      BY <2>1, <2>3, <3>2 DEF Listed
    <3>4. Execs(Module) # {}
      BY <1>1, <2>1 DEF Underway
    <3>5. ~Named(Module, ctx.options)
      BY <3>1, <3>4, BuildAssumption DEF Named
    <3>6. Order \in Seq(Modules) /\ Len(Order) \in Nat /\ Len(ctx.order) <= Len(Order)
      BY <1>1, <2>1, <3>2 DEF Listed, Underway
    <3>7. Len(ctx.order) = 1
      <4>1. Len(ctx.order) \notin 2 .. Len(Order)
        BY <3>2, <3>5 DEF Listed
      <4>2. \A n, k \in Nat : n > 0 /\ n <= k /\ n \notin 2 .. k => n = 1
        OBVIOUS
      <4>3. Len(ctx.order) \in Nat /\ Len(ctx.order) > 0
        BY <3>2
      <4>4. QED BY <3>6, <4>1, <4>2, <4>3
    <3>8. PICK j \in 1 .. Len(Order) : m = Order[j]
      BY <3>3, <3>6 DEF ToSet
    <3>9. j # 1
      BY <2>3, <3>2, <3>7, <3>8
    <3>10. m \in Passed
      <4>1. j \in Len(ctx.order) + 1 .. Len(Order)
        BY <3>6, <3>7, <3>8, <3>9
      <4>2. QED BY <3>8, <4>1 DEF Passed
    <3>11. QED BY <1>1, <2>1, <3>10 DEF Ready
  <2>4. QED BY <2>2, <2>3
<1>2. BuildInv => LinksReady
  BY <1>1 DEF LinksReady
<1>3. QED BY <1>2, BuildInvariant, PTL

\* A build that ends well, while which and since the last clean one nothing was
\* edited or stopped, has in every library the last version of every file of
\* its module: what it left as it was, was of that version (skipRecent,
\* buildSupporting, and the times they compare).  A library is not built anew
\* for other options, so that its files have to be the same in all builds.
THEOREM BuildLibsCurrent ==
  ASSUME SameSources
  PROVE  Spec => []LibsCurrent
<1>1. ASSUME CurrentInv, ctx.pc = "done", ~raced, NEW m \in Built, HasTarget(m)
      PROVE  {p \in Held(m) : p[1] \in Own(m, ctx.options)} = Latest(Own(m, ctx.options))
  <2>1. Underway /\ Current
    BY <1>1 DEF CurrentInv, BuildInv
  <2>2. m \in Passed
    BY <1>1, <2>1, Standing DEF Built, Order
  <2>3. GoodLib(file, lib[m], m, ctx.options)
    BY <1>1, <2>1, <2>2 DEF Current
  <2>4. Held(m) = HeldBy(lib[m])
    BY DEF Held, HeldBy
  <2> DEFINE own == Own(m, ctx.options)
  <2>5. LastIn(file, own) = Latest(own)
    BY DEF LastIn, Latest
  <2>6. LastIn(file, own) \subseteq Held(m) /\ \A p \in Held(m) : p[1] \in own => p \in LastIn(file, own)
    BY <2>3, <2>4 DEF GoodLib, Good
  <2> HIDE DEF own
  <2>7. \A p \in Latest(own) : p[1] \in own
    BY DEF Latest
  <2>8. {p \in Held(m) : p[1] \in own} = Latest(own)
    BY <2>5, <2>6, <2>7
  <2>9. QED BY <2>8 DEF own
<1>2. CurrentInv => LibsCurrent
  BY <1>1 DEF LibsCurrent
<1>3. QED BY <1>2, BuildStaysCurrent, PTL

\* A program that runs after a clean build has read the last version of all it
\* was made of, its own files and those of every library it is linked with.
THEOREM BuildRunsCurrent == Spec => []RunsCurrent
<1>1. ASSUME BuildInv, ~taint, Command.run \in Modules, NEW f \in Execs(Command.run),
             NEW p \in exe[f].reads
      PROVE  p[2] = file[p[1]].ver
  <2>1. f \in DOMAIN exe
    BY <1>1 DEF BuildInv, Typed
  <2>2. QED BY <1>1, <2>1 DEF BuildInv, Untainted, UpToDate
<1>2. BuildInv => RunsCurrent
  BY <1>1 DEF RunsCurrent
<1>3. QED BY <1>2, BuildInvariant, PTL
=============================================================================
