------------------------------ MODULE IoProofs ------------------------------
(***************************************************************************)
(* Proofs about base/io: a Buff that is filled before it is drained, for   *)
(* every size of its Strs and of what a call moves, and any number of      *)
(* bytes; and the climbing of directories, for every tree of them, every   *)
(* order in which their entries come and every pair of filters.            *)
(***************************************************************************)
EXTENDS Buff, Dirs, SequenceTheorems, WellFoundedInduction, TLAPS

Strs == [mem : Seq(Nat), start : Nat, len : Nat]
Headers ==
  {NULL} \union [kind : {"copy"}, at : Nat, start : Nat, len : Nat]
         \union [kind : {"same"}, at : Nat]
Cursors == [s : Headers, offset : Nat, idx : Nat, total : Nat]

(* The places in the stream where Str k of a vector of m bytes starts and  *)
(* ends: every Str but the last is full.                                   *)
Start(k) == (k - 1) * SEG
Until(strs, m, k) == IF k < Len(strs) THEN Start(k + 1) ELSE m
Size(strs, m, k) == Until(strs, m, k) - Start(k)

(* Every Str of the vector has the bytes of its place, whatever its header *)
(* says is left of them.                                                   *)
Holds(strs, m) ==
  /\ strs \in Seq(Strs) /\ m \in Nat
  /\ strs = <<>> <=> m = 0
  /\ \A k \in 1 .. Len(strs) :
       /\ Size(strs, m, k) \in 1 .. SEG
       /\ Len(strs[k].mem) = Size(strs, m, k)
       /\ \A j \in 1 .. Size(strs, m, k) : strs[k].mem[j] = Start(k) + j
       /\ strs[k].start = 0
       /\ strs[k].len \in {0, Size(strs, m, k)}

(* Nothing was taken from Str i and those behind it.                       *)
Whole(strs, m, i) == \A k \in 1 .. Len(strs) : k >= i => strs[k].len = Size(strs, m, k)
-----------------------------------------------------------------------------
\* A non-empty set of naturals has a least element.
LEMMA LeastExists ==
  ASSUME NEW S, S \subseteq Nat, S # {}
  PROVE  \E i \in S : \A j \in S : i <= j
<1> DEFINE Less == {p \in Nat \X Nat : p[1] < p[2]}
<1>1. IsWellFoundedOn(Less, Nat)
  BY NatLessThanWellFounded DEF OpToRel
<1> HIDE DEF Less
<1>2. PICK i \in S : \A j \in S : <<j, i>> \notin Less
  BY <1>1, WFMin
<1>3. ASSUME NEW j \in S PROVE i <= j
  <2>1. ~(j < i) BY <1>2, <1>3 DEF Less
  <2>2. QED BY <2>1
<1>4. QED BY <1>3

\* A set of naturals that has 0 and the successor of each member has them all.
LEMMA SetInduction ==
  ASSUME NEW S, 0 \in S, \A n \in Nat : n \in S => n + 1 \in S
  PROVE  Nat \subseteq S
<1> SUFFICES ASSUME ~(Nat \subseteq S) PROVE FALSE
  OBVIOUS
<1> DEFINE T == Nat \ S
<1>0. T \subseteq Nat /\ T # {}
  <2>1. \E n : n \in Nat /\ n \notin S
    OBVIOUS
  <2>2. QED BY <2>1
<1>1. PICK m \in T : \A k \in T : m <= k
  BY <1>0, LeastExists
<1>2. m # 0 /\ m - 1 \in Nat
  BY <1>1
<1>3. m - 1 \in S
  BY <1>1, <1>2
<1>4. QED BY <1>2, <1>3

LEMMA Constants == SEG \in Nat /\ SEG > 0 /\ BLOCK \in Nat /\ BLOCK > 0 /\ MAX_BYTES \in Nat
BY BuffAssumption

LEMMA Starts ==
  /\ \A k \in Int : Start(k) \in Int /\ Start(k + 1) = Start(k) + SEG
  /\ Start(1) = 0
  /\ \A k, l \in Int : k <= l => Start(k) <= Start(l)
  /\ \A k, l \in Int : (k - l) * SEG = Start(k + 1) - Start(l + 1)
<1>1. SEG \in Int /\ SEG > 0 BY Constants
<1>2. ASSUME NEW k \in Int PROVE Start(k) \in Int /\ Start(k + 1) = Start(k) + SEG
  <2>1. (k + 1 - 1) * SEG = (k - 1) * SEG + SEG BY <1>1
  <2>2. QED BY <1>1, <2>1 DEF Start
<1>3. Start(1) = 0 BY <1>1 DEF Start
<1>4. ASSUME NEW k \in Int, NEW l \in Int, k <= l PROVE Start(k) <= Start(l)
  <2>1. PICK d \in Nat : l = k + d BY <1>4
  <2>2. (l - 1) * SEG = (k - 1) * SEG + d * SEG BY <1>1, <2>1
  <2>3. d * SEG >= 0 BY <1>1
  <2>4. (k - 1) * SEG \in Int /\ d * SEG \in Int /\ (l - 1) * SEG \in Int BY <1>1
  <2>5. QED BY <2>2, <2>3, <2>4 DEF Start
<1>5. ASSUME NEW k \in Int, NEW l \in Int PROVE (k - l) * SEG = Start(k + 1) - Start(l + 1)
  <2>1. (k - l) * SEG = k * SEG - l * SEG BY <1>1
  <2>2. ASSUME NEW x \in Int PROVE Start(x + 1) = x * SEG
    <3>1. x + 1 - 1 = x OBVIOUS
    <3>2. Start(x + 1) = (x + 1 - 1) * SEG BY DEF Start
    <3>3. QED BY <3>1, <3>2
  <2>3. QED BY <2>1, <2>2
<1>6. QED BY <1>2, <1>3, <1>4, <1>5

\* What is known of a Str of the vector, and where the last one ends.
LEMMA StrFacts ==
  ASSUME NEW strs, NEW m, Holds(strs, m)
  PROVE  /\ Len(strs) \in Nat /\ m \in Nat /\ strs \in Seq(Strs)
         /\ \A k \in 1 .. Len(strs) :
              /\ strs[k] \in Strs /\ strs[k].mem \in Seq(Nat)
              /\ strs[k].start \in Nat /\ strs[k].len \in Nat
              /\ Until(strs, m, k) \in Nat /\ Until(strs, m, k) <= m
              /\ Start(k) \in Nat /\ Start(k) < m
              /\ Size(strs, m, k) \in Nat /\ Size(strs, m, k) = Until(strs, m, k) - Start(k)
         /\ Until(strs, m, Len(strs)) = m
         /\ \A k \in 1 .. Len(strs) - 1 : Until(strs, m, k) = Start(k + 1)
<1>1. Len(strs) \in Nat /\ m \in Nat /\ strs \in Seq(Strs)
      /\ \A k \in 1 .. Len(strs) : strs[k] \in Strs /\ Size(strs, m, k) \in 1 .. SEG
  BY DEF Holds
<1>2. SEG \in Nat BY Constants
<1>3. \A k \in 1 .. Len(strs) :
        strs[k].mem \in Seq(Nat) /\ strs[k].start \in Nat /\ strs[k].len \in Nat
  BY <1>1 DEF Strs
<1>4. Until(strs, m, Len(strs)) = m BY <1>1 DEF Until
<1>5. \A k \in 1 .. Len(strs) - 1 : Until(strs, m, k) = Start(k + 1)
  BY <1>1 DEF Until
<1>6. ASSUME NEW k \in 1 .. Len(strs)
      PROVE  /\ Until(strs, m, k) \in Nat /\ Until(strs, m, k) <= m
             /\ Start(k) \in Nat /\ Start(k) < m
             /\ Size(strs, m, k) \in Nat /\ Size(strs, m, k) = Until(strs, m, k) - Start(k)
  <2> DEFINE L == Len(strs)
             u == Until(strs, m, k)
  <2>1. /\ k \in Int /\ L \in Int /\ 1 <= k /\ k <= L /\ 1 \in Int /\ k + 1 \in Int BY <1>1
  <2>2. Start(1) = 0 /\ Start(1) <= Start(k) /\ Start(k) \in Int /\ Start(L) \in Int
        /\ Start(k) <= Start(L) /\ Start(k + 1) \in Int
    BY <2>1, Starts
  <2>3. Size(strs, m, L) \in 1 .. SEG /\ Size(strs, m, L) = m - Start(L)
    BY <1>1, <1>4, <2>1 DEF Size
  <2>4. Start(L) < m BY <1>1, <1>2, <2>2, <2>3
  <2>5. u = m \/ (k + 1 <= L /\ u = Start(k + 1)) BY <1>1, <2>1 DEF Until
  <2>6. k + 1 <= L => Start(k + 1) <= Start(L) BY <2>1, Starts
  <2>7. u <= m /\ u \in Int
    <3> HIDE DEF u
    <3>1. QED BY <1>1, <2>2, <2>4, <2>5, <2>6
  <2>8. Size(strs, m, k) = u - Start(k) /\ Size(strs, m, k) \in 1 .. SEG BY <1>1 DEF Size
  <2> HIDE DEF u, L
  <2>9. u >= 0 BY <1>2, <2>2, <2>7, <2>8
  <2>10. QED BY <1>1, <1>2, <2>2, <2>4, <2>7, <2>8, <2>9 DEF u
<1>7. QED BY <1>1, <1>3, <1>4, <1>5, <1>6
-----------------------------------------------------------------------------
(* A vector that is filled: nothing was taken from it.                     *)
Fresh(vec, m) ==
  vec.v \in Seq(Strs) /\ Holds(vec.v, m) /\ Whole(vec.v, m, 1) /\ vec.tail = Len(vec.v) - 1

\* A byte lands behind the others of its Str.
LEMMA AddToStr ==
  ASSUME NEW s \in Strs, s.start = 0, s.len = Len(s.mem), NEW b \in Nat
  PROVE  LET t == Str_Add(s, b)
         IN  /\ t \in Strs /\ t.start = 0 /\ t.len = s.len + 1 /\ Len(t.mem) = s.len + 1
             /\ \A j \in 1 .. s.len : t.mem[j] = s.mem[j]
             /\ t.mem[s.len + 1] = b
<1> DEFINE t == Str_Add(s, b)
           x == s.mem
           n == Len(x)
<1>1. x \in Seq(Nat) /\ n \in Nat /\ s.len = n /\ s.start = 0 BY DEF Strs
<1>2. SubSeq(x, 1, s.start + s.len) = x BY <1>1, SubSeqFull
<1>3. SubSeq(x, s.start + s.len + 2, n) = <<>>
  <2>1. s.start + s.len + 2 \in Int /\ n \in Int /\ n < s.start + s.len + 2 BY <1>1
  <2> HIDE DEF n, x
  <2>2. QED BY ONLY <2>1, SubSeqEmpty
<1> DEFINE y == x \o <<b>> \o <<>>
<1>4. t = [s EXCEPT !.mem = y, !.len = s.len + 1] BY <1>2, <1>3 DEF Str_Add
<1>5. <<b>> \in Seq(Nat) /\ Len(<<b>>) = 1 /\ <<b>>[1] = b OBVIOUS
<1>6. /\ x \o <<b>> \in Seq(Nat) /\ Len(x \o <<b>>) = n + 1
      /\ \A j \in 1 .. n + 1 : (x \o <<b>>)[j] = IF j <= n THEN x[j] ELSE <<b>>[j - n]
  <2> HIDE DEF x
  <2>1. QED BY <1>1, <1>5, ConcatProperties
<1>7. y = x \o <<b>>
  <2> DEFINE z == x \o <<b>>
  <2>1. z \in Seq(Nat) BY <1>6
  <2> HIDE DEF z
  <2>2. z \o <<>> = z BY ONLY <2>1, ConcatEmptySeq
  <2>3. QED BY <2>2 DEF z
<1> HIDE DEF y
<1>8. /\ y \in Seq(Nat) /\ Len(y) = n + 1 /\ y[n + 1] = b
      /\ \A j \in 1 .. n : y[j] = x[j]
  BY <1>1, <1>5, <1>6, <1>7
<1>9. t \in Strs /\ t.start = 0 /\ t.len = s.len + 1 /\ t.mem = y
  <2>1. t = [mem |-> y, start |-> s.start, len |-> s.len + 1] BY <1>4 DEF Strs
  <2>2. s.len + 1 \in Nat BY <1>1
  <2> HIDE DEF t
  <2>3. QED BY <1>1, <1>8, <2>1, <2>2 DEF Strs
<1>10. QED BY <1>1, <1>8, <1>9

(* The Str a byte is added to, number `at': those before it are full, it   *)
(* is not.                                                                 *)
Chosen(vec, g, at) ==
  LET full == vec.tail = -1 \/ vec.v[vec.tail + 1].len = SEG
  IN  \/ full /\ g = Append(vec.v, Str_Make) /\ at = Len(g)
      \/ ~full /\ g = vec.v /\ at = vec.tail + 1

HasRoom(g, at, m) ==
  /\ g \in Seq(Strs) /\ Len(g) = at /\ at \in Nat \ {0}
  /\ g[at].start = 0 /\ g[at].len = Len(g[at].mem) /\ g[at].len = m - Start(at)
  /\ g[at].len \in 0 .. SEG - 1
  /\ \A j \in 1 .. g[at].len : g[at].mem[j] = Start(at) + j
  /\ \A k \in 1 .. at - 1 :
       /\ Len(g[k].mem) = SEG /\ g[k].start = 0 /\ g[k].len = SEG
       /\ \A j \in 1 .. SEG : g[k].mem[j] = Start(k) + j

LEMMA RoomFor ==
  ASSUME NEW vec, NEW m \in Nat, Fresh(vec, m), NEW g, NEW at, Chosen(vec, g, at)
  PROVE  HasRoom(g, at, m)
<1> DEFINE x == vec.v
           L == Len(x)
<1>1. /\ x \in Seq(Strs) /\ L \in Nat /\ vec.tail = L - 1
      /\ x = <<>> <=> m = 0
      /\ Until(x, m, L) = m
      /\ \A k \in 1 .. L : /\ x[k] \in Strs /\ x[k].start = 0
                           /\ Size(x, m, k) \in 1 .. SEG
                           /\ Len(x[k].mem) = Size(x, m, k) /\ x[k].len = Size(x, m, k)
                           /\ \A j \in 1 .. Size(x, m, k) : x[k].mem[j] = Start(k) + j
  <2>1. Holds(x, m) /\ Whole(x, m, 1) /\ vec.tail = L - 1 BY DEF Fresh
  <2>2. x \in Seq(Strs) /\ L \in Nat /\ Until(x, m, L) = m BY <2>1, StrFacts
  <2>3. \A k \in 1 .. L : x[k].len = Size(x, m, k) BY <2>1, <2>2 DEF Whole
  <2> HIDE DEF x
  <2>4. QED BY <2>1, <2>2, <2>3 DEF Holds
<1>2. SEG \in Nat /\ SEG > 0 BY Constants
<1>3. \A k \in 1 .. L - 1 : Size(x, m, k) = SEG
  <2>1. \A k \in 1 .. L - 1 : Until(x, m, k) = Start(k + 1) BY <1>1 DEF Until
  <2>2. ASSUME NEW k \in 1 .. L - 1 PROVE Size(x, m, k) = SEG
    <3>1. k \in Int BY <1>1
    <3>2. Start(k) \in Int /\ Start(k + 1) = Start(k) + SEG BY <3>1, Starts
    <3>3. Size(x, m, k) = Start(k + 1) - Start(k) BY <2>1 DEF Size
    <3>4. QED BY <1>2, <3>2, <3>3
  <2>3. QED BY <2>2
<1>4. L > 0 => Size(x, m, L) = m - Start(L) BY <1>1 DEF Size
<1>5. CASE /\ vec.tail = -1 \/ vec.v[vec.tail + 1].len = SEG
          /\ g = Append(vec.v, Str_Make) /\ at = Len(g)
  <2>1. g = Append(x, Str_Make) /\ at = Len(g) BY <1>5
  <2>2. Str_Make \in Strs /\ Str_Make.start = 0 /\ Str_Make.len = 0 /\ Str_Make.mem = <<>>
    BY DEF Str_Make, Strs
  <2> HIDE DEF x
  <2>3. /\ g \in Seq(Strs) /\ at = L + 1
        /\ g[L + 1] = Str_Make /\ \A k \in 1 .. L : g[k] = x[k]
    <3> DEFINE y == Append(x, Str_Make)
    <3>1. /\ y \in Seq(Strs) /\ Len(y) = L + 1 /\ y[L + 1] = Str_Make
          /\ \A k \in 1 .. L : y[k] = x[k]
      BY <1>1, <2>2
    <3> HIDE DEF y
    <3>2. g = y /\ at = Len(g) BY <2>1 DEF y
    <3>3. QED BY <3>1, <3>2
  <2>4. Start(L + 1) = m
    <3>1. CASE L = 0
      <4>1. x = <<>> BY <1>1, <3>1
      <4>2. m = 0 BY <1>1, <4>1
      <4>3. QED BY <3>1, <4>2, Starts
    <3>2. CASE L > 0
      <4>1. L \in 1 .. L /\ vec.tail + 1 = L /\ vec.tail # -1 BY <1>1, <3>2
      <4>2. x[L].len = SEG BY <1>5, <4>1 DEF x
      <4>3. Size(x, m, L) = SEG BY <1>1, <4>1, <4>2
      <4>4. Start(L + 1) = Start(L) + SEG /\ Start(L) \in Int BY <1>1, Starts
      <4>5. QED BY <1>2, <1>4, <3>2, <4>3, <4>4
    <3>3. QED BY <1>1, <3>1, <3>2
  <2>5. \A k \in 1 .. L : Size(x, m, k) = SEG
    <3>1. Start(L + 1) = Start(L) + SEG /\ Start(L) \in Int BY <1>1, Starts
    <3>2. L > 0 => Size(x, m, L) = SEG BY <1>2, <1>4, <2>4, <3>1
    <3>3. QED BY <1>1, <1>3, <3>2
  <2>6. at - 1 = L /\ at \in Nat \ {0} /\ g[at] = Str_Make BY <1>1, <2>3
  <2>7. \A k \in 1 .. at - 1 :
              /\ Len(g[k].mem) = SEG /\ g[k].start = 0 /\ g[k].len = SEG
              /\ \A j \in 1 .. SEG : g[k].mem[j] = Start(k) + j
    <3>1. ASSUME NEW k \in 1 .. at - 1
          PROVE  /\ Len(g[k].mem) = SEG /\ g[k].start = 0 /\ g[k].len = SEG
                 /\ \A j \in 1 .. SEG : g[k].mem[j] = Start(k) + j
      <4>1. k \in 1 .. L /\ g[k] = x[k] /\ Size(x, m, k) = SEG BY <2>3, <2>5, <2>6
      <4>2. QED BY <1>1, <4>1
    <3>2. QED BY <3>1
  <2>8. /\ g[at].start = 0 /\ g[at].len = Len(g[at].mem) /\ g[at].len = m - Start(at)
        /\ g[at].len \in 0 .. SEG - 1
        /\ \A j \in 1 .. g[at].len : g[at].mem[j] = Start(at) + j
    <3>1. g[at].start = 0 /\ g[at].len = 0 /\ g[at].mem = <<>> BY <2>2, <2>6
    <3>2. Start(at) = m BY <2>3, <2>4
    <3>3. Len(<<>>) = 0 /\ m - m = 0 /\ 0 \in 0 .. SEG - 1 BY <1>2
    <3>4. \A j \in 1 .. 0 : g[at].mem[j] = Start(at) + j OBVIOUS
    <3>5. QED BY <3>1, <3>2, <3>3, <3>4
  <2>9. g \in Seq(Strs) /\ Len(g) = at BY <2>1, <2>3
  <2> HIDE DEF L
  <2>10. QED BY ONLY <2>6, <2>7, <2>8, <2>9 DEF HasRoom
<1>6. CASE /\ ~(vec.tail = -1 \/ vec.v[vec.tail + 1].len = SEG)
          /\ g = vec.v /\ at = vec.tail + 1
  <2>1. g = x /\ at = L BY <1>1, <1>6 DEF x
  <2>2. vec.tail # -1 /\ x[vec.tail + 1].len # SEG BY <1>6 DEF x
  <2> HIDE DEF x
  <2>3. L \in Nat \ {0} /\ x[L].len # SEG
    <3>1. vec.tail + 1 = L BY <1>1
    <3>2. QED BY <1>1, <2>2, <3>1
  <2>4. L \in 1 .. L BY <2>3
  <2>5. x[L].len = m - Start(L) /\ x[L].len \in 0 .. SEG - 1 BY <1>1, <1>2, <1>4, <2>3, <2>4
  <2>6. /\ x[L].start = 0 /\ x[L].len = Len(x[L].mem)
        /\ \A j \in 1 .. x[L].len : x[L].mem[j] = Start(L) + j
    BY <1>1, <2>4
  <2>7. \A k \in 1 .. L - 1 :
              /\ Len(x[k].mem) = SEG /\ x[k].start = 0 /\ x[k].len = SEG
              /\ \A j \in 1 .. SEG : x[k].mem[j] = Start(k) + j
    BY <1>1, <1>3
  <2>8. x \in Seq(Strs) /\ Len(x) = L BY <1>1
  <2> HIDE DEF L
  <2>9. QED BY ONLY <2>1, <2>3, <2>5, <2>6, <2>7, <2>8 DEF HasRoom
<1>7. QED BY <1>5, <1>6 DEF Chosen

LEMMA AddOne ==
  ASSUME NEW vec, NEW m \in Nat, Fresh(vec, m)
  PROVE  Fresh(AddByte(vec, m + 1), m + 1)
<1> DEFINE full == vec.tail = -1 \/ vec.v[vec.tail + 1].len = SEG
           g == IF full THEN Append(vec.v, Str_Make) ELSE vec.v
           at == IF full THEN Len(g) ELSE vec.tail + 1
           t == Str_Add(g[at], m + 1)
           z == [g EXCEPT ![at] = t]
<1>1. AddByte(vec, m + 1) = [v |-> z, tail |-> at - 1] BY DEF AddByte
<1>2. Chosen(vec, g, at) BY DEF Chosen
<1> HIDE DEF full, g, at
<1>3. HasRoom(g, at, m) BY ONLY m \in Nat, Fresh(vec, m), <1>2, RoomFor
<1>4. /\ g \in Seq(Strs) /\ Len(g) = at /\ at \in Nat \ {0}
      /\ g[at].start = 0 /\ g[at].len = Len(g[at].mem) /\ g[at].len = m - Start(at)
      /\ g[at].len \in 0 .. SEG - 1
      /\ \A j \in 1 .. g[at].len : g[at].mem[j] = Start(at) + j
      /\ \A k \in 1 .. at - 1 :
           /\ Len(g[k].mem) = SEG /\ g[k].start = 0 /\ g[k].len = SEG
           /\ \A j \in 1 .. SEG : g[k].mem[j] = Start(k) + j
  BY ONLY <1>3 DEF HasRoom
<1> DEFINE s == g[at]
           n == s.len
<1>5. s \in Strs /\ n \in Nat /\ at \in 1 .. Len(g) BY <1>4
<1>6. /\ t \in Strs /\ t.start = 0 /\ t.len = n + 1 /\ Len(t.mem) = n + 1
      /\ \A j \in 1 .. n : t.mem[j] = s.mem[j]
      /\ t.mem[n + 1] = m + 1
  <2>1. s.start = 0 /\ s.len = Len(s.mem) /\ m + 1 \in Nat BY <1>4
  <2> HIDE DEF s
  <2>2. QED BY <1>5, <2>1, AddToStr DEF s
<1>7. SEG \in Nat /\ SEG > 0 /\ Start(at) \in Int /\ n = m - Start(at) /\ n \in 0 .. SEG - 1
  BY <1>4, Constants, Starts
<1> HIDE DEF t
<1>8. /\ z \in Seq(Strs) /\ Len(z) = at /\ z[at] = t
      /\ \A k \in 1 .. at - 1 : z[k] = g[k]
  <2> HIDE DEF s
  <2>1. /\ [g EXCEPT ![at] = t] \in Seq(Strs) /\ Len([g EXCEPT ![at] = t]) = Len(g)
        /\ \A j \in 1 .. Len(g) : [g EXCEPT ![at] = t][j] = IF j = at THEN t ELSE g[j]
    BY <1>4, <1>5, <1>6, ExceptSeq
  <2>2. QED BY <1>4, <2>1
<1> HIDE DEF z
<1>9. \A j \in 1 .. n + 1 : t.mem[j] = Start(at) + j
  <2>1. \A j \in 1 .. n : t.mem[j] = Start(at) + j BY <1>4, <1>6
  <2>2. t.mem[n + 1] = Start(at) + (n + 1) BY <1>6, <1>7
  <2>3. QED BY <1>7, <2>1, <2>2
<1>10. Size(z, m + 1, at) = n + 1
  <2>1. Until(z, m + 1, at) = m + 1 BY <1>4, <1>8 DEF Until
  <2>2. QED BY <1>7, <2>1 DEF Size
<1>11. \A k \in 1 .. at - 1 : Size(z, m + 1, k) = SEG
  <2>1. \A k \in 1 .. at - 1 : Until(z, m + 1, k) = Start(k + 1) BY <1>4, <1>8 DEF Until
  <2>2. ASSUME NEW k \in 1 .. at - 1 PROVE Size(z, m + 1, k) = SEG
    <3>1. k \in Int BY <1>4
    <3>2. Start(k) \in Int /\ Start(k + 1) = Start(k) + SEG BY <3>1, Starts
    <3>3. Size(z, m + 1, k) = Start(k + 1) - Start(k) BY <2>1 DEF Size
    <3>4. QED BY <1>7, <3>2, <3>3
  <2>3. QED BY <2>2
<1>12. ASSUME NEW k \in 1 .. at
       PROVE  /\ Size(z, m + 1, k) \in 1 .. SEG
              /\ Len(z[k].mem) = Size(z, m + 1, k)
              /\ \A j \in 1 .. Size(z, m + 1, k) : z[k].mem[j] = Start(k) + j
              /\ z[k].start = 0
              /\ z[k].len = Size(z, m + 1, k)
  <2>1. CASE k = at BY <1>6, <1>7, <1>8, <1>9, <1>10, <2>1
  <2>2. CASE k # at
    <3>1. k \in 1 .. at - 1 BY <1>4, <2>2
    <3>2. QED BY <1>4, <1>7, <1>8, <1>11, <3>1
  <2>3. QED BY <2>1, <2>2
<1>13. z # <<>> /\ m + 1 # 0 /\ m + 1 \in Nat BY <1>4, <1>8
<1>14. Holds(z, m + 1) BY <1>8, <1>12, <1>13 DEF Holds
<1>15. Whole(z, m + 1, 1) BY <1>8, <1>12 DEF Whole
<1> DEFINE w == [v |-> z, tail |-> at - 1]
<1>16. w.v = z /\ w.tail = at - 1 OBVIOUS
<1> HIDE DEF w
<1>17. Fresh(w, m + 1) BY <1>8, <1>14, <1>15, <1>16 DEF Fresh
<1>18. QED BY <1>1, <1>17 DEF w

\* Bytes added one after the other leave a vector that is filled.
LEMMA GrownFresh ==
  ASSUME added \in Nat, Fresh([v |-> v, tail |-> tail], added), NEW n \in Nat
  PROVE  Fresh(Grown(n), added + n)
<1> DEFINE base == [v |-> v, tail |-> tail]
           Body(f, k) == IF k = 0 THEN base ELSE AddByte(f[k - 1], added + k)
           Is(f, i) == f = [k \in 0 .. i |-> Body(f, k)]
           S == {i \in Nat : \E f : Is(f, i)}
<1> HIDE DEF base
<1>1. 0 \in S
  <2> DEFINE f == [k \in 0 .. 0 |-> base]
  <2>1. f = [k \in 0 .. 0 |-> Body(f, k)]
    <3>1. \A k \in 0 .. 0 : base = Body(f, k) OBVIOUS
    <3>2. QED BY <3>1
  <2>2. QED BY <2>1
<1>2. ASSUME NEW i \in Nat, i \in S PROVE i + 1 \in S
  <2>1. PICK f : Is(f, i) BY <1>2
  <2> DEFINE last == AddByte(f[i], added + (i + 1))
             g == [k \in 0 .. i + 1 |-> IF k = i + 1 THEN last ELSE f[k]]
  <2>2. \A k \in 0 .. i : f[k] = Body(f, k) /\ g[k] = f[k] BY <2>1
  <2>3. ASSUME NEW k \in 0 .. i + 1 PROVE g[k] = Body(g, k)
    <3> HIDE DEF last
    <3>1. CASE k = 0
      <4>1. 0 \in 0 .. i /\ g[0] = f[0] /\ f[0] = Body(f, 0) BY <2>2
      <4> HIDE DEF g
      <4>2. QED BY <3>1, <4>1
    <3>2. CASE k = i + 1
      <4>1. g[k] = last /\ k # 0 /\ k - 1 = i /\ i \in 0 .. i BY <3>2
      <4>2. g[k - 1] = f[i] BY <2>2, <4>1
      <4> HIDE DEF g
      <4>3. QED BY <3>2, <4>1, <4>2 DEF last
    <3>3. CASE k # 0 /\ k # i + 1
      <4>1. k \in 0 .. i /\ k - 1 \in 0 .. i BY <3>3
      <4>2. f[k] = AddByte(f[k - 1], added + k) /\ g[k] = f[k] /\ g[k - 1] = f[k - 1]
        BY <2>2, <3>3, <4>1
      <4> HIDE DEF g
      <4>3. QED BY <3>3, <4>2
    <3>4. QED BY <3>1, <3>2, <3>3
  <2>4. g = [k \in 0 .. i + 1 |-> g[k]] OBVIOUS
  <2> HIDE DEF g
  <2>5. Is(g, i + 1) BY <2>3, <2>4
  <2> HIDE DEF Is
  <2>6. \E x : Is(x, i + 1) BY <2>5
  <2>7. QED BY <2>6
<1>3. n \in S
  <2> HIDE DEF S
  <2>1. \A i \in Nat : i \in S => i + 1 \in S BY <1>2
  <2>2. Nat \subseteq S BY ONLY <1>1, <2>1, SetInduction
  <2>3. QED BY <2>2
<1> DEFINE h == CHOOSE f : Is(f, n)
<1>4. Is(h, n)
  <2>1. \E f : Is(f, n) BY <1>3
  <2> HIDE DEF Is
  <2>2. QED BY <2>1
<1>5. Grown(n) = h[n] BY DEF Grown, base
<1> HIDE DEF h
<1> DEFINE T == {i \in Nat : i <= n => Fresh(h[i], added + i)}
<1>6. 0 \in T
  <2>1. h[0] = base /\ added + 0 = added BY <1>4
  <2>2. QED BY <2>1 DEF base
<1>7. ASSUME NEW i \in Nat, i \in T PROVE i + 1 \in T
  <2> SUFFICES ASSUME i + 1 <= n PROVE Fresh(h[i + 1], added + (i + 1)) OBVIOUS
  <2>1. Fresh(h[i], added + i) /\ added + i \in Nat BY <1>7
  <2>2. h[i + 1] = AddByte(h[i], (added + i) + 1)
    <3>1. i + 1 \in 0 .. n /\ i + 1 # 0 /\ i + 1 - 1 = i /\ added + (i + 1) = (added + i) + 1
      OBVIOUS
    <3>2. h[i + 1] = Body(h, i + 1) BY <1>4, <3>1
    <3>3. QED BY <3>1, <3>2
  <2>3. Fresh(h[i + 1], (added + i) + 1) BY <2>1, <2>2, AddOne
  <2>4. (added + i) + 1 = added + (i + 1) OBVIOUS
  <2>5. QED BY <2>3, <2>4
<1>8. n \in T
  <2> HIDE DEF T
  <2>1. \A i \in Nat : i \in T => i + 1 \in T BY <1>7
  <2>2. Nat \subseteq T BY ONLY <1>6, <2>1, SetInduction
  <2>3. QED BY <2>2
<1>9. QED BY <1>5, <1>8
-----------------------------------------------------------------------------
(* Where unsent stands: on a Str, of which what its header says is left,   *)
(* and behind it Strs that are whole; Rest is what is left from there on.  *)
Placed(u, strs, m) ==
  LET h == Header(u.s, strs)
  IN  /\ u.s.kind \in {"copy", "same"} /\ u.s.at = u.idx
      /\ u.idx \in 0 .. Len(strs) - 1
      /\ h.start \in Nat /\ h.len \in Nat
      /\ h.len > 0 => h.start + h.len = Size(strs, m, u.idx + 1)
      /\ h.len > 0 /\ u.s.kind = "copy" => u.offset = h.start
      /\ Whole(strs, m, u.idx + 2)

Rest(u, strs, m) == m - Until(strs, m, u.idx + 1) + Header(u.s, strs).len

Position(u, strs, m) == Placed(u, strs, m) /\ u.total = Rest(u, strs, m)

(* Or on none: before the first Str or behind the last.                    *)
Unset(u, strs, m) ==
  /\ u.s = NULL /\ u.idx \in 0 .. Len(strs)
  /\ u.total = 0 \/ (u.idx = 0 /\ u.offset = 0 /\ u.total = m /\ Whole(strs, m, 1))

Stands(u, strs, m) == Unset(u, strs, m) \/ Position(u, strs, m)

\* The three kinds of header.
LEMMA Kinds ==
  /\ NULL \in Headers /\ NULL.kind = "NULL"
  /\ \A i, a, n \in Nat : [kind |-> "copy", at |-> i, start |-> a, len |-> n] \in Headers
  /\ \A i \in Nat : Same(i) \in Headers /\ Same(i).kind = "same" /\ Same(i).at = i
  /\ \A s \in Headers : s.kind = "NULL" <=> s = NULL
  /\ \A s \in Headers : s.kind \in {"NULL", "copy", "same"}
  /\ \A s \in Headers : s.kind = "copy" =>
       /\ s.at \in Nat /\ s.start \in Nat /\ s.len \in Nat
       /\ s = [kind |-> "copy", at |-> s.at, start |-> s.start, len |-> s.len]
  /\ \A s \in Headers : s.kind = "same" => s.at \in Nat /\ s = Same(s.at)
<1>1. NULL \in Headers /\ NULL.kind = "NULL" BY DEF NULL, Headers
<1>2. \A i, a, n \in Nat : [kind |-> "copy", at |-> i, start |-> a, len |-> n] \in Headers
  BY DEF Headers
<1>3. \A i \in Nat : Same(i) \in Headers /\ Same(i).kind = "same" /\ Same(i).at = i
  BY DEF Headers, Same
<1>4. ASSUME NEW s \in Headers
      PROVE  \/ s = NULL
             \/ /\ s.kind = "copy" /\ s.at \in Nat /\ s.start \in Nat /\ s.len \in Nat
                /\ s = [kind |-> "copy", at |-> s.at, start |-> s.start, len |-> s.len]
             \/ s.kind = "same" /\ s.at \in Nat /\ s = Same(s.at)
  <2>1. CASE s \in [kind : {"copy"}, at : Nat, start : Nat, len : Nat] BY <2>1
  <2>2. CASE s \in [kind : {"same"}, at : Nat] BY <2>2 DEF Same
  <2>3. QED BY <2>1, <2>2 DEF Headers
<1>5. "NULL" # "copy" /\ "NULL" # "same" /\ "copy" # "same" OBVIOUS
<1>6. QED BY <1>1, <1>2, <1>3, <1>4, <1>5

\* What a header says.
LEMMA HeaderIs ==
  ASSUME NEW s, NEW strs
  PROVE  /\ s.kind = "copy" =>
              Header(s, strs).start = s.start /\ Header(s, strs).len = s.len
         /\ s.kind = "same" =>
              /\ Header(s, strs).start = strs[s.at + 1].start
              /\ Header(s, strs).len = strs[s.at + 1].len
BY DEF Header

\* A header of its own on a Str: the whole of it is there, unless it was taken.
LEMMA RecordedIs ==
  ASSUME Holds(v, total), NEW i \in 0 .. Len(v) - 1
  PROVE  /\ Recorded(v, i) \in Headers /\ Recorded(v, i).kind = "copy"
         /\ Recorded(v, i).at = i /\ Recorded(v, i).start = 0
         /\ Recorded(v, i).len = v[i + 1].len
<1>1. Len(v) \in Nat /\ \A k \in 1 .. Len(v) : v[k].len \in Nat /\ v[k].start = 0
  BY StrFacts DEF Holds
<1>2. i \in Nat /\ i + 1 \in 1 .. Len(v) BY <1>1
<1>3. Recorded(v, i) = [kind |-> "copy", at |-> i, start |-> v[i + 1].start, len |-> v[i + 1].len]
  BY DEF Recorded, Str_Rec
<1>4. v[i + 1].start = 0 /\ 0 \in Nat /\ v[i + 1].len \in Nat BY <1>1, <1>2
<1>5. Recorded(v, i) \in Headers BY <1>2, <1>3, <1>4, Kinds
<1>6. QED BY <1>3, <1>4, <1>5

\* To go to the start of a Str.
LEMMA SetIs ==
  ASSUME Holds(v, total), Whole(v, total, 1), NEW u \in Cursors, NEW i \in 0 .. Len(v) - 1
  PROVE  LET w == SetUnsentStr(u, i)
         IN  /\ w \in Cursors /\ w.s.kind = "copy" /\ w.idx = i /\ w.offset = 0
             /\ w.total = u.total
             /\ Header(w.s, v).start = 0 /\ Header(w.s, v).len = Size(v, total, i + 1)
             /\ Placed(w, v, total) /\ Rest(w, v, total) = total - Start(i + 1)
<1> DEFINE s == Recorded(v, i)
           w == SetUnsentStr(u, i)
<1>1. s \in Headers /\ s.kind = "copy" /\ s.at = i /\ s.start = 0 /\ s.len = v[i + 1].len
  BY RecordedIs
<1>2. /\ Len(v) \in Nat /\ i \in Nat /\ i + 1 \in 1 .. Len(v) /\ total \in Nat
      /\ Size(v, total, i + 1) \in Nat /\ Start(i + 1) \in Nat /\ Until(v, total, i + 1) \in Nat
      /\ Size(v, total, i + 1) = Until(v, total, i + 1) - Start(i + 1)
  <2>1. Len(v) \in Nat /\ i \in Nat /\ i + 1 \in 1 .. Len(v) BY StrFacts
  <2>2. QED BY <2>1, StrFacts
<1>3. s.len = Size(v, total, i + 1) BY <1>1, <1>2 DEF Whole
<1>4. w = [u EXCEPT !.idx = i, !.s = s, !.offset = 0] BY DEF SetUnsentStr
<1> HIDE DEF s
<1>a. w = [s |-> s, offset |-> 0, idx |-> i, total |-> u.total] /\ u.total \in Nat
  BY <1>4 DEF Cursors
<1> HIDE DEF w
<1>5. /\ w \in Cursors /\ w.s = s /\ w.idx = i /\ w.offset = 0 /\ w.total = u.total
  BY <1>1, <1>2, <1>a DEF Cursors
<1>6. Header(w.s, v).start = 0 /\ Header(w.s, v).len = Size(v, total, i + 1)
  BY <1>1, <1>3, <1>5, HeaderIs
<1>7. Whole(v, total, i + 2) BY <1>2 DEF Whole
<1>8. Placed(w, v, total)
  <2>1. 0 + Size(v, total, i + 1) = Size(v, total, i + 1) BY <1>2
  <2>2. QED BY <1>1, <1>2, <1>5, <1>6, <1>7, <2>1 DEF Placed
<1>9. Rest(w, v, total) = total - Start(i + 1)
  BY <1>2, <1>5, <1>6 DEF Rest
<1>10. QED BY <1>1, <1>5, <1>6, <1>8, <1>9 DEF w

\* To move a header of its own forward within its Str.
LEMMA MoveInIs ==
  ASSUME Holds(v, total), NEW u \in Cursors, Placed(u, v, total), u.s.kind = "copy",
         NEW n \in 0 .. Header(u.s, v).len
  PROVE  LET w == MoveIn(u, n)
         IN  /\ w \in Cursors /\ w.s.kind = "copy" /\ w.idx = u.idx /\ w.total = u.total
             /\ Placed(w, v, total) /\ Rest(w, v, total) = Rest(u, v, total) - n
             /\ Header(w.s, v).len = Header(u.s, v).len - n
<1> DEFINE h == Header(u.s, v)
           g == Incr(h, n)
           w == MoveIn(u, n)
<1>1. /\ h.start \in Nat /\ h.len \in Nat /\ h.start = u.s.start /\ h.len = u.s.len
      /\ u.s \in Headers /\ u.offset \in Nat /\ u.idx \in Nat /\ u.s.at \in Nat
      /\ h.len > 0 => h.start + h.len = Size(v, total, u.idx + 1) /\ u.offset = h.start
      /\ u.idx \in 0 .. Len(v) - 1 /\ u.s.at = u.idx /\ Whole(v, total, u.idx + 2)
  <2>1. u.s \in Headers /\ u.offset \in Nat /\ u.idx \in Nat BY DEF Cursors
  <2>2. QED BY <2>1, HeaderIs, Kinds DEF Placed
<1> HIDE DEF h
<1>2. n \in Nat /\ n <= h.len BY <1>1 DEF h
<1>3. g.start = (IF h.len > n THEN h.start + n ELSE h.start) /\ g.len = h.len - n
      /\ g.start \in Nat /\ g.len \in Nat
  BY <1>1, <1>2 DEF Incr
<1> DEFINE s == [u.s EXCEPT !.start = g.start, !.len = g.len]
<1>4. w = [u EXCEPT !.offset = u.offset + n, !.s = s]
  BY Kinds DEF MoveIn, h, Cursors
<1> HIDE DEF g
<1>5. s \in [kind : {"copy"}, at : Nat, start : Nat, len : Nat] /\ s.at = u.s.at
      /\ s.start = g.start /\ s.len = g.len
  <2> DEFINE x == u.s
  <2>1. x \in [kind : {"copy"}, at : Nat, start : Nat, len : Nat]
    BY <1>1 DEF Headers, NULL
  <2> HIDE DEF x
  <2>2. s = [x EXCEPT !.start = g.start, !.len = g.len] BY DEF x
  <2> HIDE DEF s
  <2>3. s \in [kind : {"copy"}, at : Nat, start : Nat, len : Nat] /\ s.at = x.at
        /\ s.start = g.start /\ s.len = g.len
    BY <1>3, <2>1, <2>2
  <2>4. QED BY <2>3 DEF x
<1> HIDE DEF s
<1>6. s \in Headers /\ s.kind = "copy" /\ s.at = u.idx /\ s.start = g.start /\ s.len = g.len
  BY <1>1, <1>5 DEF Headers
<1>7. /\ w \in Cursors /\ w.s = s /\ w.idx = u.idx /\ w.total = u.total
      /\ w.offset = u.offset + n
  <2>1. u.offset + n \in Nat BY <1>1, <1>2
  <2>2. QED BY <1>4, <1>6, <2>1 DEF Cursors
<1> HIDE DEF w
<1>8. Header(w.s, v).start = g.start /\ Header(w.s, v).len = g.len
  BY <1>6, <1>7, HeaderIs
<1>9. Placed(w, v, total)
  <2>1. g.len > 0 => /\ g.start = h.start + n /\ g.start + g.len = h.start + h.len
                     /\ h.len > 0 /\ u.offset + n = g.start
    <3> DEFINE a == h.start
               l == h.len
               o == u.offset
               x == g.start
               y == g.len
    <3>1. /\ a \in Nat /\ l \in Nat /\ o \in Nat /\ n \in Nat
          /\ x = (IF l > n THEN a + n ELSE a) /\ y = l - n /\ (l > 0 => o = a)
      BY <1>1, <1>2, <1>3
    <3> HIDE DEF a, l, o, x, y
    <3>2. y > 0 => x = a + n /\ x + y = a + l /\ l > 0 /\ o + n = x BY ONLY <3>1
    <3>3. QED BY <3>2 DEF a, l, o, x, y
  <2>2. g.len > 0 => g.start + g.len = Size(v, total, u.idx + 1) /\ w.offset = g.start
    BY <1>1, <1>7, <2>1
  <2>3. QED BY <1>1, <1>3, <1>6, <1>7, <1>8, <2>2 DEF Placed
<1>10. Rest(w, v, total) = Rest(u, v, total) - n
  <2>a. Len(v) \in Nat /\ u.idx \in 0 .. Len(v) - 1 BY <1>1, StrFacts
  <2>1. u.idx + 1 \in 1 .. Len(v) BY ONLY <2>a
  <2>2. total \in Nat /\ Until(v, total, u.idx + 1) \in Nat BY <2>1, StrFacts
  <2>3. Rest(w, v, total) = total - Until(v, total, u.idx + 1) + (h.len - n)
    BY <1>3, <1>7, <1>8 DEF Rest
  <2>4. Rest(u, v, total) = total - Until(v, total, u.idx + 1) + h.len
    BY DEF Rest, h
  <2>5. QED BY <1>1, <1>2, <2>2, <2>3, <2>4
<1>11. QED BY <1>3, <1>6, <1>7, <1>8, <1>9, <1>10 DEF w, h

\* To count what is left anew leaves the place.
LEMMA CountIs ==
  ASSUME NEW u \in Cursors, NEW t \in Nat, NEW strs, NEW m
  PROVE  LET w == [u EXCEPT !.total = t]
         IN  /\ w \in Cursors /\ w.s = u.s /\ w.idx = u.idx /\ w.offset = u.offset /\ w.total = t
             /\ Placed(u, strs, m) => Placed(w, strs, m)
             /\ Rest(w, strs, m) = Rest(u, strs, m)
<1> DEFINE w == [u EXCEPT !.total = t]
<1>1. /\ w \in Cursors /\ w.s = u.s /\ w.idx = u.idx /\ w.offset = u.offset /\ w.total = t
  BY DEF Cursors
<1> HIDE DEF w
<1>2. Placed(u, strs, m) => Placed(w, strs, m)
  <2>1. Header(w.s, strs) = Header(u.s, strs) BY <1>1
  <2>2. QED BY ONLY <1>1, <2>1 DEF Placed
<1>3. Rest(w, strs, m) = Rest(u, strs, m) BY <1>1 DEF Rest
<1>4. QED BY <1>1, <1>2, <1>3 DEF w

\* What is left is a number, never more than there is.
LEMMA RestIs ==
  ASSUME NEW strs, NEW m, Holds(strs, m), NEW u \in Cursors, Placed(u, strs, m)
  PROVE  LET h == Header(u.s, strs)
         IN  /\ u.idx \in Nat /\ u.idx + 1 \in 1 .. Len(strs)
             /\ h.start \in Nat /\ h.len \in Nat /\ h.len <= Size(strs, m, u.idx + 1)
             /\ Rest(u, strs, m) = m - Until(strs, m, u.idx + 1) + h.len
             /\ Rest(u, strs, m) \in 0 .. m
             /\ h.len > 0 => m - Rest(u, strs, m) = Start(u.idx + 1) + h.start
<1> DEFINE h == Header(u.s, strs)
           k == u.idx + 1
<1>1. /\ u.idx \in Nat /\ h.start \in Nat /\ h.len \in Nat
      /\ h.len > 0 => h.start + h.len = Size(strs, m, k)
      /\ u.idx \in 0 .. Len(strs) - 1
  BY DEF Placed, Cursors
<1> HIDE DEF h
<1>2. k \in 1 .. Len(strs) BY <1>1, StrFacts
<1>3. /\ m \in Nat /\ Until(strs, m, k) \in Nat /\ Until(strs, m, k) <= m /\ Start(k) \in Nat
      /\ Size(strs, m, k) \in Nat /\ Size(strs, m, k) = Until(strs, m, k) - Start(k)
  BY <1>2, StrFacts
<1>4. Rest(u, strs, m) = m - Until(strs, m, k) + h.len BY DEF Rest, h
<1>5. h.len <= Size(strs, m, k) BY <1>1, <1>3
<1>6. Rest(u, strs, m) \in 0 .. m BY <1>1, <1>3, <1>4, <1>5
<1>7. h.len > 0 => m - Rest(u, strs, m) = Start(k) + h.start
  <2> DEFINE a == h.start
             l == h.len
             b == Until(strs, m, k)
             p == Start(k)
             r == Rest(u, strs, m)
             z == Size(strs, m, k)
  <2>1. /\ a \in Nat /\ l \in Nat /\ b \in Nat /\ p \in Nat /\ m \in Nat
        /\ r = m - b + l /\ z = b - p /\ (l > 0 => a + l = z)
    BY <1>1, <1>3, <1>4
  <2> HIDE DEF a, l, b, p, r, z
  <2>2. l > 0 => m - r = p + a BY ONLY <2>1
  <2>3. QED BY <2>2 DEF a, l, p, r
<1>8. QED BY <1>1, <1>2, <1>4, <1>5, <1>6, <1>7 DEF h

\* The bytes behind the place unsent stands at are those of the stream.
LEMMA BytesAre ==
  ASSUME NEW strs, NEW m, Holds(strs, m), NEW u \in Cursors, Placed(u, strs, m),
         NEW n \in 0 .. Header(u.s, strs).len
  PROVE  LET b == Bytes(u.s, strs, n)
         IN  /\ b \in Seq(Nat) /\ Len(b) = n
             /\ \A j \in 1 .. n : b[j] = m - Rest(u, strs, m) + j
<1> DEFINE h == Header(u.s, strs)
           k == u.idx + 1
           x == strs[k].mem
           b == Bytes(u.s, strs, n)
<1>1. /\ u.idx \in Nat /\ k \in 1 .. Len(strs) /\ h.start \in Nat /\ h.len \in Nat
      /\ h.len > 0 => m - Rest(u, strs, m) = Start(k) + h.start
  BY RestIs
<1>2. u.s.at = u.idx /\ (h.len > 0 => h.start + h.len = Size(strs, m, k))
  BY DEF Placed
<1>3. b = SubSeq(x, h.start + 1, h.start + n) BY <1>2 DEF Bytes
<1> HIDE DEF h, b
<1>4. n \in Nat /\ n <= h.len BY <1>1 DEF h
<1>5. CASE n = 0
  <2>1. h.start + 1 \in Int /\ h.start + n \in Int /\ h.start + n < h.start + 1
    BY <1>1, <1>5
  <2> HIDE DEF x
  <2>2. b = <<>> BY ONLY <1>3, <2>1, SubSeqEmpty
  <2>3. <<>> \in Seq(Nat) /\ Len(<<>>) = 0 OBVIOUS
  <2>4. \A j \in 1 .. n : FALSE BY <1>5
  <2>5. QED BY <1>5, <2>2, <2>3, <2>4 DEF b
<1>6. CASE n > 0
  <2>1. h.len > 0 /\ h.start + h.len = Size(strs, m, k) BY <1>1, <1>2, <1>4, <1>6
  <2>a. x \in Seq(Nat) /\ Size(strs, m, k) \in Nat /\ Start(k) \in Nat
    BY <1>1, StrFacts
  <2>b. Len(x) = Size(strs, m, k) /\ \A i \in 1 .. Size(strs, m, k) : x[i] = Start(k) + i
    BY <1>1 DEF Holds
  <2> DEFINE c == h.start + 1
             e == h.start + n
  <2> HIDE DEF x
  <2>3. c \in Int /\ e \in Int /\ c <= e /\ 1 <= c /\ e <= Len(x)
    <3>1. Len(x) = h.start + h.len BY <2>1, <2>b
    <3>2. h.start \in Nat /\ h.len \in Nat /\ n \in Nat /\ n <= h.len /\ n > 0 BY <1>1, <1>4, <1>6
    <3>3. QED BY ONLY <3>1, <3>2
  <2>4. \A i \in c .. e : i \in 1 .. Len(x) /\ x[i] \in Nat
    <3> HIDE DEF c, e
    <3>1. \A i \in c .. e : i \in 1 .. Len(x) BY <2>3, <2>a, <2>b
    <3>2. QED BY <2>a, <3>1
  <2>5. /\ b \in Seq(Nat)
        /\ Len(b) = IF c <= e THEN e - c + 1 ELSE 0
        /\ \A i \in 1 .. e - c + 1 : b[i] = x[c + i - 1]
    <3>1. b = SubSeq(x, c, e) BY <1>3
    <3> DEFINE y == SubSeq(x, c, e)
    <3> HIDE DEF c, e
    <3>2. /\ y \in Seq(Nat)
          /\ Len(y) = IF c <= e THEN e - c + 1 ELSE 0
          /\ \A i \in 1 .. e - c + 1 : y[i] = x[c + i - 1]
      BY <2>3, <2>4, SubSeqProperties
    <3>3. QED BY <3>1, <3>2
  <2>6. b \in Seq(Nat) /\ Len(b) = n BY <1>1, <1>4, <1>6, <2>5
  <2>7. ASSUME NEW j \in 1 .. n PROVE b[j] = m - Rest(u, strs, m) + j
    <3>1. j \in 1 .. e - c + 1 /\ c + j - 1 = h.start + j /\ h.start + j \in c .. e
      <4> DEFINE a == h.start
      <4>1. a \in Nat /\ n \in Nat /\ j \in 1 .. n /\ c = a + 1 /\ e = a + n BY <1>1, <1>4
      <4> HIDE DEF a, c, e
      <4>2. j \in 1 .. e - c + 1 /\ c + j - 1 = a + j /\ a + j \in c .. e BY ONLY <4>1
      <4>3. QED BY <4>2 DEF a
    <3>2. b[j] = x[h.start + j] BY <2>5, <3>1
    <3>3. x[h.start + j] = Start(k) + (h.start + j) BY <2>4, <2>b, <3>1
    <3>4. m - Rest(u, strs, m) = Start(k) + h.start BY <1>1, <2>1
    <3>5. Start(k) + (h.start + j) = Start(k) + h.start + j BY <1>1, <2>a
    <3>6. QED BY ONLY <3>2, <3>3, <3>4, <3>5
  <2>8. QED BY <2>6, <2>7 DEF b
<1>7. QED BY <1>4, <1>5, <1>6
-----------------------------------------------------------------------------
(* Seeks.  Buff_vecPosFrom walks to the Str that has the place it looks    *)
(* for, or stays on the one it is on.                                      *)
Before(u, i) == Header(u.s, v).len + (i - u.idx - 1) * SEG
Lands(u, n, i) ==
  /\ i = u.idx => n <= Header(u.s, v).len
  /\ i > u.idx => Before(u, i) < n
                  /\ (i < Len(v) => n <= Before(u, i) + Header(Recorded(v, i), v).len)

\* What lies between two Strs are whole Strs.
LEMMA BeforeIs ==
  ASSUME NEW u \in Cursors, NEW i \in Nat, Header(u.s, v).len \in Nat
  PROVE  Before(u, i) = Header(u.s, v).len + Start(i + 1) - Start(u.idx + 2)
<1> DEFINE a == u.idx + 1
<1>1. u.idx \in Int /\ a \in Int /\ i \in Int BY DEF Cursors
<1>2. i - u.idx - 1 = i - a /\ u.idx + 2 = a + 1 BY <1>1
<1>3. Before(u, i) = Header(u.s, v).len + (i - a) * SEG BY <1>2 DEF Before
<1> HIDE DEF a
<1>4. (i - a) * SEG = Start(i + 1) - Start(a + 1) BY <1>1, Starts
<1>5. Start(i + 1) \in Int /\ Start(a + 1) \in Int BY <1>1, Starts
<1>6. QED BY <1>2, <1>3, <1>4, <1>5

LEMMA WalkIs ==
  ASSUME Holds(v, total), Whole(v, total, 1), NEW u \in Cursors, Position(u, v, total),
         u.s.kind = "copy", NEW n \in Nat, n > 0, n <= u.total
  PROVE  LET w == Walk(u, n)
         IN  /\ w \in Cursors /\ w.s.kind = "copy"
             /\ Position(w, v, total) /\ w.total = u.total - n
<1> DEFINE h == Header(u.s, v)
           L == Len(v)
           k == u.idx + 1
           T == n - h.len + Start(k + 1)
           w == Walk(u, n)
<1>1. /\ Placed(u, v, total) /\ u.total = Rest(u, v, total) BY DEF Position
<1>2. /\ u.idx \in Nat /\ k \in 1 .. L /\ L \in Nat /\ h.len \in Nat /\ total \in Nat
      /\ Until(v, total, k) \in Nat /\ Until(v, total, L) = total
      /\ Rest(u, v, total) = total - Until(v, total, k) + h.len
      /\ u.total \in Nat
      /\ k < L => Until(v, total, k) = Start(k + 1)
      /\ Start(k + 1) \in Int
  <2>1. u.idx \in Nat /\ k \in 1 .. L /\ h.len \in Nat /\ u.total \in Nat
        /\ Rest(u, v, total) = total - Until(v, total, k) + h.len
    BY <1>1, RestIs DEF Cursors
  <2>2. L \in Nat /\ total \in Nat /\ Until(v, total, k) \in Nat /\ Until(v, total, L) = total
    BY <2>1, StrFacts
  <2>3. k < L => Until(v, total, k) = Start(k + 1) BY <2>1 DEF Until
  <2>4. k + 1 \in Int BY <2>1
  <2>5. QED BY <2>1, <2>2, <2>3, <2>4, Starts
<1>3. ASSUME NEW i \in k .. L
      PROVE  i \in Nat /\ Before(u, i) = h.len + Start(i + 1) - Start(k + 1)
             /\ Start(i + 1) \in Int
  <2>1. i \in Nat /\ i + 1 \in Int BY <1>2
  <2>2. Before(u, i) = h.len + Start(i + 1) - Start(u.idx + 2) BY <1>2, <2>1, BeforeIs
  <2>3. u.idx + 2 = k + 1 BY <1>2
  <2>4. QED BY <2>1, <2>2, <2>3, Starts
<1>4. ASSUME NEW i \in k .. L - 1
      PROVE  /\ Header(Recorded(v, i), v).len = Size(v, total, i + 1)
             /\ Size(v, total, i + 1) = Until(v, total, i + 1) - Start(i + 1)
             /\ Until(v, total, i + 1) \in Nat /\ Start(i + 1) \in Nat
             /\ i + 1 < L => Until(v, total, i + 1) = Start(i + 2)
  <2>1. i \in 0 .. L - 1 /\ i + 1 \in 1 .. L BY <1>2
  <2>2. Recorded(v, i).kind = "copy" /\ Recorded(v, i).len = v[i + 1].len BY <2>1, RecordedIs
  <2>3. Header(Recorded(v, i), v).len = v[i + 1].len BY <2>2, HeaderIs
  <2>4. v[i + 1].len = Size(v, total, i + 1) BY <2>1 DEF Whole
  <2>5. i + 1 < L => Until(v, total, i + 1) = Start(i + 1 + 1) /\ i + 1 + 1 = i + 2
    BY <2>1 DEF Until
  <2>6. QED BY <2>1, <2>3, <2>4, <2>5, StrFacts
<1>5. n > h.len => k < L /\ Start(k + 1) < T /\ T <= total
  <2>1. SUFFICES ASSUME n > h.len PROVE k < L /\ Start(k + 1) < T /\ T <= total OBVIOUS
  <2>2. Until(v, total, k) < total BY <1>1, <1>2, <2>1
  <2>3. k # L BY <1>2, <2>2
  <2>4. k < L BY <1>2, <2>3
  <2>5. n <= total - Start(k + 1) + h.len BY <1>1, <1>2, <2>4
  <2>6. QED BY <1>2, <2>1, <2>4, <2>5
<1>6. \E i \in u.idx .. L : Lands(u, n, i)
  <2>1. CASE n <= h.len
    <3>1. u.idx \in u.idx .. L BY <1>2
    <3>2. Lands(u, n, u.idx) BY <1>2, <2>1 DEF Lands
    <3>3. QED BY <3>1, <3>2
  <2>2. CASE n > h.len
    <3> DEFINE S == {i \in k .. L - 1 : T <= Until(v, total, i + 1)}
    <3>1. k < L /\ Start(k + 1) < T /\ T <= total BY <1>5, <2>2
    <3>2. L - 1 \in S BY <1>2, <3>1
    <3>a. \A i \in k .. L - 1 : i \in Nat BY <1>2
    <3>b. S \subseteq k .. L - 1 OBVIOUS
    <3>3. S \subseteq Nat /\ S # {} BY <3>a, <3>b, <3>2
    <3> HIDE DEF S
    <3>4. PICK i \in S : \A j \in S : i <= j BY <3>3, LeastExists
    <3>5. i \in k .. L - 1 /\ T <= Until(v, total, i + 1) BY <3>4 DEF S
    <3>6. Start(i + 1) < T
      <4>1. CASE i = k BY <3>1, <4>1
      <4>2. CASE i # k
        <5>1. i - 1 \in k .. L - 1 /\ i - 1 \in Nat /\ ~(i <= i - 1)
          <6>1. k \in Nat /\ L \in Nat /\ k >= 1 BY <1>2
          <6> HIDE DEF k, L
          <6>2. QED BY ONLY <3>5, <4>2, <6>1
        <5>2. i - 1 \notin S BY <3>4, <5>1
        <5>3. ~(T <= Until(v, total, i - 1 + 1)) BY <5>1, <5>2 DEF S
        <5>4. i - 1 + 1 < L /\ i - 1 + 2 = i + 1 BY <1>2, <3>5, <5>1
        <5>5. Until(v, total, i - 1 + 1) = Start(i + 1) /\ Start(i + 1) \in Int
          BY <1>4, <3>5, <5>1, <5>4
        <5>6. QED BY <1>2, <5>3, <5>5
      <4>3. QED BY <4>1, <4>2
    <3>7. i \in k .. L /\ i \in u.idx .. L /\ i < L /\ i > u.idx
      <4>1. k \in Nat /\ L \in Nat /\ u.idx \in Nat /\ k = u.idx + 1 BY <1>2
      <4> HIDE DEF k, L
      <4>2. QED BY ONLY <3>5, <4>1
    <3>8. Before(u, i) < n
      <4>1. Before(u, i) = h.len + Start(i + 1) - Start(k + 1) /\ Start(i + 1) \in Int
        BY <1>3, <3>7
      <4>2. QED BY <1>2, <3>6, <4>1
    <3>9. n <= Before(u, i) + Header(Recorded(v, i), v).len
      <4>1. Before(u, i) = h.len + Start(i + 1) - Start(k + 1) /\ Start(i + 1) \in Int
        BY <1>3, <3>7
      <4>2. /\ Header(Recorded(v, i), v).len = Until(v, total, i + 1) - Start(i + 1)
            /\ Until(v, total, i + 1) \in Nat
        BY <1>4, <3>5
      <4> DEFINE p == Start(k + 1)
                 q == Start(i + 1)
                 b == Before(u, i)
                 r == Header(Recorded(v, i), v).len
                 t == Until(v, total, i + 1)
                 l == h.len
      <4>3. /\ p \in Int /\ q \in Int /\ t \in Nat /\ l \in Nat /\ n \in Nat
            /\ b = l + q - p /\ r = t - q /\ n - l + p <= t
        BY <1>2, <3>5, <4>1, <4>2
      <4> HIDE DEF p, q, b, r, t, l
      <4>4. n <= b + r BY ONLY <4>3
      <4>5. QED BY <4>4 DEF b, r
    <3>10. Lands(u, n, i) BY <1>2, <3>7, <3>8, <3>9 DEF Lands
    <3>11. QED BY <3>7, <3>10
  <2>3. QED BY <1>2, <2>1, <2>2
<1> DEFINE i == CHOOSE x \in u.idx .. L : Lands(u, n, x)
           at == IF i = u.idx THEN u ELSE SetUnsentStr(u, i)
           rest == IF i = u.idx THEN n ELSE n - Before(u, i)
           m == MoveIn(at, rest)
<1>7. i \in u.idx .. L /\ Lands(u, n, i) BY <1>6
<1>8. w = [m EXCEPT !.total = u.total - n] BY DEF Walk, Lands, Before
<1> HIDE DEF i, w
<1>9. /\ at \in Cursors /\ at.s.kind = "copy" /\ Placed(at, v, total)
      /\ rest \in 0 .. Header(at.s, v).len
      /\ Rest(at, v, total) - rest = u.total - n
  <2>1. CASE i = u.idx
    <3>1. at = u /\ rest = n BY <2>1
    <3>2. n <= h.len BY <1>7, <2>1 DEF Lands
    <3>3. rest \in 0 .. h.len BY <1>2, <3>1, <3>2
    <3> HIDE DEF at, rest
    <3>4. QED BY <1>1, <3>1, <3>3
  <2>2. CASE i # u.idx
    <3>1. i \in k .. L /\ i > u.idx BY <1>2, <1>7, <2>2
    <3>2. Before(u, i) < n BY <1>7, <3>1 DEF Lands
    <3>3. Before(u, i) = h.len + Start(i + 1) - Start(k + 1) /\ Start(i + 1) \in Int /\ i \in Nat
      BY <1>3, <3>1
    <3>4. h.len < n
      <4>1. i + 1 \in Int /\ k + 1 \in Int /\ k + 1 <= i + 1
        <5>1. k \in Nat /\ L \in Nat BY <1>2
        <5> HIDE DEF k, L
        <5>2. QED BY ONLY <3>1, <5>1
      <4>2. Start(k + 1) <= Start(i + 1) BY <4>1, Starts
      <4>3. QED BY <1>2, <3>2, <3>3, <4>2
    <3>5. k < L /\ T <= total BY <1>2, <1>5, <3>4
    <3>6. i # L
      <4>1. SUFFICES ASSUME i = L PROVE FALSE OBVIOUS
      <4>2. Start(L + 1) < T BY <1>2, <3>2, <3>3, <4>1
      <4>3. L - 1 \in k .. L - 1 /\ L - 1 + 1 = L BY <1>2, <3>5
      <4>4. Size(v, total, L) = total - Start(L) /\ Size(v, total, L) \in 1 .. SEG
        <5>1. L \in 1 .. L BY <1>2
        <5>2. Size(v, total, L) \in 1 .. SEG BY <5>1 DEF Holds
        <5>3. QED BY <1>2, <5>1, <5>2 DEF Size
      <4>5. Start(L + 1) = Start(L) + SEG /\ Start(L) \in Int /\ SEG \in Int
        BY <1>2, Starts, Constants
      <4>6. total <= Start(L + 1) BY <1>2, <4>4, <4>5
      <4>7. QED BY <1>2, <3>5, <4>2, <4>5, <4>6
    <3>7. i \in k .. L - 1 /\ i \in 0 .. L - 1 /\ i < L
      <4>1. k \in Nat /\ L \in Nat BY <1>2
      <4> HIDE DEF k, L
      <4>2. QED BY ONLY <3>1, <3>6, <4>1
    <3>8. /\ Header(Recorded(v, i), v).len = Size(v, total, i + 1)
          /\ Size(v, total, i + 1) \in Int
      BY <1>4, <3>7
    <3>9. n <= Before(u, i) + Size(v, total, i + 1) BY <1>7, <3>1, <3>7, <3>8 DEF Lands
    <3>10. at = SetUnsentStr(u, i) /\ rest = n - Before(u, i) BY <2>2
    <3> HIDE DEF at, rest
    <3>11. /\ at \in Cursors /\ at.s.kind = "copy" /\ Placed(at, v, total)
           /\ Header(at.s, v).len = Size(v, total, i + 1)
           /\ Rest(at, v, total) = total - Start(i + 1)
      BY <3>7, <3>10, SetIs
    <3>12. rest \in 0 .. Header(at.s, v).len
      <4> DEFINE b == Before(u, i)
                 z == Size(v, total, i + 1)
      <4>1. b \in Int /\ z \in Int /\ b < n /\ n <= b + z /\ rest = n - b
            /\ Header(at.s, v).len = z
        <5>1. b \in Int
          <6> DEFINE p == Start(k + 1)
                     q == Start(i + 1)
                     l == h.len
          <6>1. p \in Int /\ q \in Int /\ l \in Int /\ b = l + q - p BY <1>2, <3>3
          <6> HIDE DEF p, q, l, b
          <6>2. QED BY ONLY <6>1
        <5>2. z \in Int /\ Header(at.s, v).len = z BY <3>8, <3>11
        <5>3. b < n /\ n <= b + z /\ rest = n - b BY <3>2, <3>9, <3>10
        <5> HIDE DEF b, z
        <5>4. QED BY <5>1, <5>2, <5>3
      <4> HIDE DEF b, z
      <4>2. n \in Int OBVIOUS
      <4>3. n - b \in 0 .. z BY ONLY <4>1, <4>2
      <4>4. QED BY <4>1, <4>3
    <3>13. Rest(at, v, total) - rest = u.total - n
      <4>1. u.total = total - Start(k + 1) + h.len BY <1>1, <1>2, <3>5
      <4> DEFINE p == Start(k + 1)
                 q == Start(i + 1)
                 b == Before(u, i)
      <4>2. h.len \in Nat /\ total \in Nat /\ p \in Int /\ q \in Int BY <1>2, <3>3
      <4>3. /\ u.total = total - p + h.len /\ b = h.len + q - p
            /\ rest = n - b /\ Rest(at, v, total) = total - q
        BY <3>3, <3>10, <3>11, <4>1
      <4> HIDE DEF h, p, q, b
      <4>4. QED BY ONLY <4>2, <4>3, n \in Nat
    <3>14. QED BY <3>11, <3>12, <3>13
  <2>3. QED BY <2>1, <2>2
<1> HIDE DEF at, rest
<1>10. /\ m \in Cursors /\ m.s.kind = "copy" /\ Placed(m, v, total)
       /\ Rest(m, v, total) = Rest(at, v, total) - rest
  BY <1>9, MoveInIs
<1>11. u.total - n \in Nat BY <1>2
<1> HIDE DEF m
<1>12. /\ w \in Cursors /\ w.s = m.s /\ w.total = u.total - n
       /\ Placed(w, v, total) /\ Rest(w, v, total) = Rest(m, v, total)
  BY <1>8, <1>10, <1>11, CountIs
<1>13. Position(w, v, total) BY <1>9, <1>10, <1>12 DEF Position
<1>14. QED BY <1>10, <1>12, <1>13 DEF w

\* To move a header of its own back within its Str.
BackTo(u, h, k) ==
  [u EXCEPT !.s.start = h.start - k, !.s.len = h.len + k, !.offset = @ - k, !.total = @ + k]

LEMMA BackToIs ==
  ASSUME Holds(v, total), NEW u \in Cursors, Placed(u, v, total), u.s.kind = "copy",
         NEW k \in 0 .. u.offset, k > 0 => Header(u.s, v).len > 0
  PROVE  LET b == BackTo(u, Header(u.s, v), k)
         IN  /\ b \in Cursors /\ b.s.kind = "copy" /\ b.idx = u.idx /\ b.total = u.total + k
             /\ b.s.len = Header(u.s, v).len + k /\ Header(b.s, v).len = b.s.len
             /\ Placed(b, v, total) /\ Rest(b, v, total) = Rest(u, v, total) + k
<1> DEFINE h == Header(u.s, v)
           b == BackTo(u, h, k)
           p == h.start - k
           q == h.len + k
<1>1. /\ h.start \in Nat /\ h.len \in Nat /\ h.start = u.s.start /\ h.len = u.s.len
      /\ u.s \in [kind : {"copy"}, at : Nat, start : Nat, len : Nat]
      /\ u.offset \in Nat /\ u.idx \in Nat /\ u.total \in Nat
      /\ h.len > 0 => h.start + h.len = Size(v, total, u.idx + 1) /\ u.offset = h.start
      /\ u.idx \in 0 .. Len(v) - 1 /\ u.s.at = u.idx /\ Whole(v, total, u.idx + 2)
  <2>1. u.s \in Headers /\ u.offset \in Nat /\ u.idx \in Nat /\ u.total \in Nat BY DEF Cursors
  <2>2. u.s \in [kind : {"copy"}, at : Nat, start : Nat, len : Nat]
    BY <2>1 DEF Headers, NULL
  <2>3. QED BY <2>1, <2>2, HeaderIs DEF Placed
<1> HIDE DEF h
<1>2. k \in Nat /\ k <= u.offset /\ (k > 0 => h.len > 0) BY <1>1 DEF h
<1>3. p \in Nat /\ q \in Nat BY <1>1, <1>2
<1>4. b = [u EXCEPT !.s.start = p, !.s.len = q, !.offset = u.offset - k, !.total = u.total + k]
  BY DEF BackTo
<1> HIDE DEF p, q, b
<1> DEFINE s == [[u.s EXCEPT !.start = p] EXCEPT !.len = q]
<1>5. b = [[[u EXCEPT !.s = s] EXCEPT !.offset = u.offset - k] EXCEPT !.total = u.total + k]
  BY <1>4 DEF Cursors
<1>6. /\ s \in [kind : {"copy"}, at : Nat, start : Nat, len : Nat] /\ s.at = u.s.at
      /\ s.start = p /\ s.len = q
  <2> DEFINE x == u.s
  <2>1. x \in [kind : {"copy"}, at : Nat, start : Nat, len : Nat] BY <1>1
  <2> HIDE DEF x
  <2>2. s = [[x EXCEPT !.start = p] EXCEPT !.len = q] BY DEF x
  <2> HIDE DEF s
  <2>3. /\ s \in [kind : {"copy"}, at : Nat, start : Nat, len : Nat] /\ s.at = x.at
        /\ s.start = p /\ s.len = q
    BY <1>3, <2>1, <2>2
  <2>4. QED BY <2>3 DEF x
<1> HIDE DEF s
<1>7. s \in Headers /\ s.kind = "copy" BY <1>6 DEF Headers
<1>8. u.offset - k \in Nat /\ u.total + k \in Nat BY <1>1, <1>2
<1>9. /\ b \in Cursors /\ b.s = s /\ b.idx = u.idx /\ b.total = u.total + k
      /\ b.offset = u.offset - k
  BY <1>1, <1>5, <1>7, <1>8 DEF Cursors
<1>10. Header(b.s, v).start = p /\ Header(b.s, v).len = q
  BY <1>6, <1>7, <1>9, HeaderIs
<1>11. Placed(b, v, total)
  <2>1. q > 0 => p + q = Size(v, total, u.idx + 1) /\ u.offset - k = p
    BY <1>1, <1>2 DEF p, q
  <2>2. q > 0 => p + q = Size(v, total, b.idx + 1) /\ b.offset = p BY <1>9, <2>1
  <2>3. b.s.kind = "copy" /\ b.s.at = b.idx /\ b.idx \in 0 .. Len(v) - 1
        /\ Whole(v, total, b.idx + 2)
    BY <1>1, <1>6, <1>7, <1>9
  <2>4. QED BY <1>3, <1>10, <2>2, <2>3 DEF Placed
<1>12. Rest(b, v, total) = Rest(u, v, total) + k
  <2>a. Len(v) \in Nat /\ u.idx \in 0 .. Len(v) - 1 BY <1>1, StrFacts
  <2>1. u.idx + 1 \in 1 .. Len(v) BY ONLY <2>a
  <2>2. total \in Nat /\ Until(v, total, u.idx + 1) \in Nat BY <2>1, StrFacts
  <2>3. Rest(b, v, total) = total - Until(v, total, u.idx + 1) + (h.len + k)
    BY <1>9, <1>10 DEF Rest, q
  <2>4. Rest(u, v, total) = total - Until(v, total, u.idx + 1) + h.len BY DEF Rest, h
  <2>5. QED BY <1>1, <1>2, <2>2, <2>3, <2>4
<1>13. QED BY <1>6, <1>7, <1>9, <1>10, <1>11, <1>12 DEF b, h, q

\* A seek to a place that it may go to stands there.
LEMMA VecPosIs ==
  ASSUME Holds(v, total), Whole(v, total, 1), NEW u \in Cursors, Position(u, v, total),
         u.s.kind = "copy", NEW n \in Int, MaySeek(u, n)
  PROVE  LET w == VecPos(u, n)
         IN  /\ w \in Cursors /\ w.s.kind = "copy"
             /\ Position(w, v, total) /\ w.total = u.total - n
<1> DEFINE w == VecPos(u, n)
<1>1. u.offset \in Nat /\ u.total \in Nat BY DEF Cursors
<1>2. CASE n > 0
  <2>1. n \in Nat /\ n <= u.total BY <1>1, <1>2 DEF MaySeek
  <2>2. w = Walk(u, n) BY <1>2 DEF VecPos
  <2> HIDE DEF w
  <2>3. QED BY <1>2, <2>1, <2>2, WalkIs DEF w
<1>3. CASE ~(n > 0)
  <2> DEFINE k == -n
             b == BackTo(u, Header(u.s, v), k)
  <2>1. k \in 0 .. u.offset /\ (k > 0 => Header(u.s, v).len > 0)
    BY <1>1, <1>3 DEF MaySeek
  <2>2. (IF u.offset > k THEN k ELSE u.offset) = k BY <1>1, <2>1
  <2>3. w = Back(u, k) BY <1>3 DEF VecPos
  <2>4. Back(u, k) = b
    <3> DEFINE x == IF u.offset > k THEN k ELSE u.offset
    <3>1. Back(u, k) = IF k = x THEN BackTo(u, Header(u.s, v), x)
                       ELSE [MoveIn(BackTo(u, Header(u.s, v), x),
                                    BackTo(u, Header(u.s, v), x).s.len - (k - x)) EXCEPT
                               !.total = BackTo(u, Header(u.s, v), x).total + k - x]
      BY DEF Back, BackTo
    <3>2. x = k BY <2>2
    <3> HIDE DEF x, k
    <3>3. QED BY <3>1, <3>2
  <2> HIDE DEF w, b, k
  <2>5. /\ b \in Cursors /\ b.s.kind = "copy" /\ b.total = u.total + k
        /\ Placed(b, v, total) /\ Rest(b, v, total) = Rest(u, v, total) + k
    <3>1. Placed(u, v, total) BY DEF Position
    <3>2. QED BY <2>1, <3>1, BackToIs DEF b
  <2>6. Position(b, v, total) BY <2>5 DEF Position
  <2>7. w = b BY <2>3, <2>4
  <2>8. b.total = u.total - n BY <1>1, <2>5 DEF k
  <2>9. QED BY <2>5, <2>6, <2>7, <2>8 DEF w
<1>4. QED BY <1>2, <1>3

\* Before the first seek unsent stands before the first Str.
LEMMA StartedIs ==
  ASSUME Holds(v, total), Whole(v, total, 1), v # <<>>, unsent \in Cursors,
         Stands(unsent, v, total), unsent.s.kind # "same"
  PROVE  /\ Started \in Cursors /\ Started.s.kind = "copy" /\ Position(Started, v, total)
         /\ unsent.s = NULL => Started.total = total
         /\ unsent.s # NULL => Started = unsent
<1>1. CASE unsent.s = NULL
  <2> DEFINE w == SetUnsentStr(unsent, 0)
  <2>1. 0 \in 0 .. Len(v) - 1 /\ 0 + 1 = 1 /\ total \in Nat
    <3>1. Len(v) \in Nat /\ v \in Seq(Strs) /\ total \in Nat BY StrFacts
    <3>2. Len(v) # 0 BY <3>1
    <3>3. QED BY <3>1, <3>2
  <2>2. /\ w \in Cursors /\ w.s.kind = "copy" /\ Placed(w, v, total)
        /\ Rest(w, v, total) = total - Start(1)
    BY <2>1, SetIs
  <2> HIDE DEF w
  <2>3. Started = [w EXCEPT !.total = total] BY <1>1 DEF Started, w
  <2>4. /\ Started \in Cursors /\ Started.s = w.s /\ Started.total = total
        /\ Placed(Started, v, total) /\ Rest(Started, v, total) = Rest(w, v, total)
    BY <2>1, <2>2, <2>3, CountIs
  <2>5. total - Start(1) = total BY <2>1, Starts
  <2>6. QED BY <1>1, <2>2, <2>4, <2>5 DEF Position
<1>2. CASE unsent.s # NULL
  <2>1. Started = unsent BY <1>2 DEF Started
  <2>2. Position(unsent, v, total) BY <1>2 DEF Stands, Unset
  <2>3. unsent.s.kind = "copy" BY <2>2 DEF Position, Placed
  <2>4. QED BY <1>2, <2>1, <2>2, <2>3
<1>3. QED BY <1>1, <1>2
-----------------------------------------------------------------------------
Typed ==
  /\ unsent \in Cursors /\ sent \in Seq(Nat)
  /\ {from, added, comes, total} \subseteq Nat
  /\ state \subseteq Flags
  /\ source \in {"memory", "out", "file", "socket"}
  /\ task \in {"idle", "flush", "pipe"} /\ to \in {"ok", "failed"} /\ began \in BOOLEAN
  /\ added + comes <= MAX_BYTES /\ total <= MAX_BYTES /\ from <= MAX_BYTES

(* Only a flush takes from the Strs themselves.                            *)
Vector ==
  /\ Holds(v, total) /\ tail = Len(v) - 1
  /\ source # "out" => Whole(v, total, 1)

(* As long as something of the vector is left, nothing was read that did   *)
(* not go through it.                                                      *)
Reserve ==
  /\ source \in {"memory", "out"} => comes = 0 /\ added = total
  /\ unsent.total > 0 => added = total

Standing ==
  /\ Stands(unsent, v, total)
  /\ source # "out" => unsent.s.kind # "same"

Filling ==
  ~began =>
    /\ sent = <<>> /\ from = 0 /\ task = "idle" /\ to = "ok"
    /\ unsent = [s |-> NULL, offset |-> 0, idx |-> 0, total |-> total]
    /\ added = total /\ Whole(v, total, 1)

Looping == (task = "flush" => source = "out") /\ (task = "pipe" => source # "out")

(* What is left is what was not drained.  Only after the descriptor that   *)
(* is drained to has failed may it be less: a flush takes nothing then,    *)
(* and a pipe goes on until nothing is left or a read fails too.           *)
Exact == unsent.total = added - Place

Lost ==
  /\ to = "failed"
  /\ source # "out" =>
       /\ \/ source # "memory" /\ "ERROR" \in state
          \/ task = "idle" \/ state \intersect {"END", "ERROR"} # {} =>
               unsent.total = 0 /\ comes = 0
       /\ source = "memory" /\ unsent.total = 0 => unsent.s = NULL

BuffInv ==
  /\ Typed /\ Vector /\ Reserve /\ Standing /\ Filling /\ Looping
  /\ Exact \/ Lost
  /\ InOrder
-----------------------------------------------------------------------------
(* What Buff_GetStr gives: the bytes behind the place the Buff stands at,  *)
(* from the vector or, when that has no more, from the descriptor.         *)
Gives(r) ==
  /\ r.v = v /\ r.unsent \in Cursors /\ Stands(r.unsent, v, total)
  /\ r.unsent.s.kind # "same"
  /\ r.bytes \in Seq(Nat) /\ r.crashed = FALSE /\ r.flags \subseteq Flags
  /\ source = "memory" => "ERROR" \notin r.flags
  /\ \A j \in 1 .. Len(r.bytes) : r.bytes[j] = added - unsent.total + j
  /\ unsent.total > 0 =>
       /\ r.unsent.total = unsent.total - Len(r.bytes)
       /\ "END" \notin r.flags
       /\ r.unsent.total = 0 => r.unsent.s = NULL
  /\ unsent.total = 0 =>
       /\ r.unsent = unsent /\ Len(r.bytes) <= comes
       /\ "END" \in r.flags => comes = 0

LEMMA GetFromVecIs ==
  ASSUME BuffInv, source # "out", unsent.total > 0, NEW room \in Nat
  PROVE  Gives(GetFromVec(room))
<1> DEFINE u == IF unsent.s = NULL THEN SetUnsentStr(unsent, 0) ELSE unsent
           h == Header(u.s, v)
           k == u.idx + 1
           L == Len(v)
           n == IF h.len > room THEN room ELSE h.len
           left == u.total - n
           last == u.idx = Len(v) - 1
           r == GetFromVec(room)
<1>1. /\ Holds(v, total) /\ Whole(v, total, 1) /\ unsent \in Cursors
      /\ Stands(unsent, v, total) /\ unsent.s.kind # "same" /\ added = total
  BY DEF BuffInv, Typed, Vector, Reserve, Standing
<1>2. /\ u \in Cursors /\ u.s.kind = "copy" /\ Position(u, v, total)
      /\ u.total = unsent.total
  <2>1. CASE unsent.s = NULL
    <3>1. unsent.total = total /\ total \in Nat
      <4>1. ~Position(unsent, v, total) BY <2>1, Kinds DEF Position, Placed
      <4>2. unsent.total = total BY <1>1, <4>1 DEF Stands, Unset
      <4>3. QED BY <1>1, <4>2 DEF Holds
    <3>2. 0 \in 0 .. Len(v) - 1 /\ 0 + 1 = 1
      <4>1. Len(v) \in Nat /\ v \in Seq(Strs) /\ (v = <<>> => total = 0)
        BY <1>1, StrFacts DEF Holds
      <4>2. Len(v) # 0 BY <3>1, <4>1
      <4>3. QED BY <4>1, <4>2
    <3> DEFINE w == SetUnsentStr(unsent, 0)
    <3>3. /\ w \in Cursors /\ w.s.kind = "copy" /\ w.total = unsent.total
          /\ Placed(w, v, total) /\ Rest(w, v, total) = total - Start(1)
      BY <1>1, <3>2, SetIs
    <3>4. u = w BY <2>1
    <3> HIDE DEF w, u
    <3>5. total - Start(1) = total BY <3>1, Starts
    <3>6. QED BY <3>1, <3>3, <3>4, <3>5 DEF Position
  <2>2. CASE unsent.s # NULL
    <3>1. u = unsent BY <2>2
    <3>2. Position(unsent, v, total) BY <1>1, <2>2 DEF Stands, Unset
    <3>3. unsent.s.kind = "copy" BY <1>1, <3>2 DEF Position, Placed
    <3>4. QED BY <1>1, <3>1, <3>2, <3>3
  <2>3. QED BY <2>1, <2>2
<1>3. r = [bytes |-> Bytes(u.s, v, n),
           v |-> IF h.len > room THEN Moved(u, n) ELSE v,
           unsent |-> [IF h.len > room THEN MoveIn(u, n)
                       ELSE IF last THEN [u EXCEPT !.s = NULL, !.offset = 0]
                       ELSE SetUnsentStr(u, u.idx + 1) EXCEPT !.total = left],
           flags |-> (IF h.len > room THEN {} ELSE IF last THEN {"PROCESSING"} ELSE {"MORE"})
                       \union (IF left = 0 THEN {"LAST"} ELSE {}),
           crashed |-> h.len < room /\ last /\ left > 0]
  BY DEF GetFromVec
<1>4. Placed(u, v, total) /\ u.total = Rest(u, v, total) BY <1>2 DEF Position
<1> HIDE DEF u
<1>5. /\ u.idx \in Nat /\ k \in 1 .. L /\ h.len \in Nat /\ u.total \in Nat /\ L \in Nat
      /\ u.total = total - Until(v, total, k) + h.len
      /\ total \in Nat /\ Until(v, total, k) \in Nat /\ Until(v, total, k) <= total
      /\ Until(v, total, L) = total
  <2>1. u.idx \in Nat /\ k \in 1 .. L /\ h.len \in Nat /\ u.total \in Nat
        /\ u.total = total - Until(v, total, k) + h.len
    BY <1>1, <1>2, <1>4, RestIs DEF Cursors
  <2>2. QED BY <1>1, <2>1, StrFacts
<1>6. n \in 0 .. h.len /\ left \in Nat BY <1>5
<1>7. /\ r.bytes = Bytes(u.s, v, n) /\ r.bytes \in Seq(Nat) /\ Len(r.bytes) = n
      /\ \A j \in 1 .. n : r.bytes[j] = total - unsent.total + j
  <2> DEFINE b == Bytes(u.s, v, n)
  <2>1. b \in Seq(Nat) /\ Len(b) = n /\ \A j \in 1 .. n : b[j] = total - Rest(u, v, total) + j
    BY <1>1, <1>2, <1>4, <1>6, BytesAre
  <2> HIDE DEF b
  <2>2. r.bytes = b BY <1>3 DEF b
  <2>3. QED BY <1>2, <1>4, <2>1, <2>2 DEF b
<1>8. r.v = v
  <2>1. Moved(u, n) = v BY <1>2 DEF Moved
  <2>2. r.v = IF h.len > room THEN Moved(u, n) ELSE v BY <1>3
  <2>3. QED BY <2>1, <2>2
<1>9. last => left = u.total - n /\ (h.len <= room => left = 0)
  BY <1>5
<1>10. r.crashed = FALSE
  <2>1. r.crashed = (h.len < room /\ last /\ left > 0) BY <1>3
  <2>2. ~(h.len < room /\ last /\ left > 0) BY <1>5, <1>9
  <2> HIDE DEF left, last, h
  <2>3. QED BY <2>1, <2>2
<1>11. r.flags \subseteq Flags \ {"ERROR"} /\ "END" \notin r.flags
  <2>1. r.flags \subseteq {"PROCESSING", "MORE", "LAST"}
    <3>1. r.flags = (IF h.len > room THEN {} ELSE IF last THEN {"PROCESSING"} ELSE {"MORE"})
                       \union (IF left = 0 THEN {"LAST"} ELSE {})
      BY <1>3
    <3> HIDE DEF left, last, h
    <3>2. QED BY <3>1
  <2>2. QED BY <2>1 DEF Flags
<1>12. /\ r.unsent \in Cursors /\ Stands(r.unsent, v, total) /\ r.unsent.s.kind # "same"
       /\ r.unsent.total = left /\ (left = 0 => r.unsent.s = NULL)
  <2> DEFINE w == IF h.len > room THEN MoveIn(u, n)
                  ELSE IF last THEN [u EXCEPT !.s = NULL, !.offset = 0]
                  ELSE SetUnsentStr(u, u.idx + 1)
  <2>1. r.unsent = [w EXCEPT !.total = left] BY <1>3
  <2>2. CASE h.len > room
    <3>1. n = room /\ n \in 0 .. h.len BY <1>6, <2>2
    <3>2. w = MoveIn(u, n) BY <2>2
    <3> HIDE DEF w, n
    <3>3. /\ w \in Cursors /\ w.s.kind = "copy" /\ Placed(w, v, total)
          /\ Rest(w, v, total) = Rest(u, v, total) - n
      BY <1>1, <1>2, <1>4, <3>1, <3>2, MoveInIs
    <3>4. left # 0 BY <1>5, <2>2, <3>1
    <3> DEFINE x == [w EXCEPT !.total = left]
    <3>5. /\ x \in Cursors /\ x.s = w.s /\ x.total = left
          /\ Placed(x, v, total) /\ Rest(x, v, total) = Rest(w, v, total)
      BY <1>6, <3>3, CountIs
    <3>6. Position(x, v, total) BY <1>4, <3>3, <3>5 DEF Position
    <3> HIDE DEF x, left
    <3>7. r.unsent = x BY <2>1 DEF x
    <3>8. QED BY <3>3, <3>4, <3>5, <3>6, <3>7 DEF Stands
  <2>3. CASE ~(h.len > room) /\ last
    <3>1. w = [u EXCEPT !.s = NULL, !.offset = 0] BY <2>3
    <3>2. left = 0 BY <1>5, <1>9, <2>3
    <3> HIDE DEF w
    <3>3. w \in Cursors /\ w.s = NULL /\ w.idx = u.idx BY <1>2, <3>1, Kinds DEF Cursors
    <3>4. /\ r.unsent \in Cursors /\ r.unsent.s = NULL /\ r.unsent.idx = u.idx
          /\ r.unsent.total = 0
      BY <2>1, <3>2, <3>3 DEF Cursors
    <3>5. u.idx \in 0 .. Len(v) BY <1>5
    <3>6. Unset(r.unsent, v, total) BY <3>4, <3>5 DEF Unset
    <3>7. QED BY <3>2, <3>4, <3>6, Kinds DEF Stands
  <2>4. CASE ~(h.len > room) /\ ~last
    <3>1. w = SetUnsentStr(u, u.idx + 1) BY <2>4
    <3>2. u.idx + 1 \in 0 .. Len(v) - 1 /\ u.idx + 1 + 1 \in 1 .. Len(v) /\ k < L
      <4> DEFINE x == u.idx
      <4>1. x \in Nat /\ L \in Nat /\ k \in 1 .. L /\ k = x + 1 /\ x # L - 1
        BY <1>5, <2>4
      <4> HIDE DEF x, L, k
      <4>2. x + 1 \in 0 .. L - 1 /\ x + 1 + 1 \in 1 .. L /\ k < L BY ONLY <4>1
      <4>3. QED BY <4>2 DEF x, L
    <3> HIDE DEF w
    <3>3. /\ w \in Cursors /\ w.s.kind = "copy" /\ Placed(w, v, total)
          /\ Rest(w, v, total) = total - Start(u.idx + 1 + 1)
      BY <1>1, <1>2, <3>1, <3>2, SetIs
    <3>4. left = total - Until(v, total, k) BY <1>5, <2>4
    <3>5. Until(v, total, k) = Start(u.idx + 1 + 1) BY <1>5, <3>2 DEF Until
    <3>6. Start(u.idx + 1 + 1) < total /\ Start(u.idx + 1 + 1) \in Nat BY <1>1, <3>2, StrFacts
    <3>7. left # 0 BY <1>5, <3>4, <3>5, <3>6
    <3> DEFINE x == [w EXCEPT !.total = left]
    <3>8. /\ x \in Cursors /\ x.s = w.s /\ x.total = left
          /\ Placed(x, v, total) /\ Rest(x, v, total) = Rest(w, v, total)
      BY <1>6, <3>3, CountIs
    <3>9. Position(x, v, total) BY <3>3, <3>4, <3>5, <3>8 DEF Position
    <3> HIDE DEF x, left
    <3>10. r.unsent = x BY <2>1 DEF x
    <3>11. QED BY <3>3, <3>7, <3>8, <3>9, <3>10 DEF Stands
  <2>5. QED BY <2>2, <2>3, <2>4
<1>13. left = unsent.total - Len(r.bytes) BY <1>2, <1>7
<1>14. unsent.total # 0 OBVIOUS
<1> HIDE DEF r, left, n
<1>15. QED BY ONLY <1>1, <1>7, <1>8, <1>10, <1>11, <1>12, <1>13, <1>14 DEF Gives, r

LEMMA ReadsIs ==
  ASSUME BuffInv, source # "out", NEW room \in Nat, NEW r \in Reads(room)
  PROVE  Gives(r)
<1>1. /\ unsent \in Cursors /\ unsent.total \in Nat /\ added \in Nat /\ comes \in Nat
      /\ Stands(unsent, v, total) /\ unsent.s.kind # "same"
      /\ source = "memory" => comes = 0
  BY DEF BuffInv, Typed, Reserve, Standing, Cursors
<1>2. CASE unsent.total > 0
  <2>1. r = GetFromVec(room) BY <1>2 DEF Reads
  <2> HIDE DEF BuffInv
  <2>2. QED BY <1>2, <2>1, GetFromVecIs
<1>3. CASE ~(unsent.total > 0)
  <2>1. unsent.total = 0 BY <1>1, <1>3
  <2>2. CASE source = "memory"
    <3>1. r = AtEnd BY <1>3, <2>2 DEF Reads
    <3>2. /\ r.bytes = <<>> /\ r.v = v /\ r.unsent = unsent /\ r.crashed = FALSE
          /\ r.flags = {"SUCCESS", "END", "LAST"}
      BY <3>1 DEF AtEnd
    <3>3. /\ r.bytes \in Seq(Nat) /\ Len(r.bytes) = 0
          /\ \A j \in 1 .. Len(r.bytes) : r.bytes[j] = added - unsent.total + j
      BY <3>2
    <3>4. r.flags \subseteq Flags /\ "ERROR" \notin r.flags BY <3>2 DEF Flags
    <3>5. Len(r.bytes) <= comes /\ ("END" \in r.flags => comes = 0) BY <1>1, <2>2, <3>3
    <3> HIDE DEF BuffInv
    <3>6. QED BY ONLY <1>1, <2>1, <3>2, <3>3, <3>4, <3>5 DEF Gives
  <2>3. CASE source # "memory"
    <3>1. r # FdFails =>
            r \in {GetFromFd(n) : n \in {n \in 0 .. room : n <= comes /\ (n = 0 => comes = 0)}}
      BY <1>3, <2>3 DEF Reads
    <3>11. CASE r = FdFails
      <4>1. /\ r.bytes = <<>> /\ r.v = v /\ r.unsent = unsent /\ r.crashed = FALSE
            /\ r.flags = {"ERROR", "LAST"}
        BY <3>11 DEF FdFails
      <4>2. /\ r.bytes \in Seq(Nat) /\ Len(r.bytes) = 0
            /\ \A j \in 1 .. Len(r.bytes) : r.bytes[j] = added - unsent.total + j
        BY <4>1
      <4>3. r.flags \subseteq Flags /\ "END" \notin r.flags BY <4>1 DEF Flags
      <4>4. Len(r.bytes) <= comes BY <1>1, <4>2
      <4> HIDE DEF BuffInv
      <4>5. QED BY ONLY <1>1, <2>1, <2>3, <4>1, <4>2, <4>3, <4>4 DEF Gives
    <3>12. SUFFICES ASSUME r # FdFails PROVE Gives(r) BY <3>11
    <3>2. PICK n \in 0 .. room : /\ r = GetFromFd(n)
                                 /\ n <= comes /\ (n = 0 => comes = 0)
      BY <3>1, <3>12
    <3> DEFINE b == [i \in 1 .. n |-> added + i]
    <3>3. /\ r.bytes = b /\ r.v = v /\ r.unsent = unsent /\ r.crashed = FALSE
          /\ r.flags = {"PROCESSING", "LAST"}
                         \union (IF n = 0 /\ source = "file" THEN {"END"} ELSE {})
      BY <3>2 DEF GetFromFd
    <3>4. b \in Seq(Nat) /\ Len(b) = n
      <4>1. n \in Nat /\ \A i \in 1 .. n : added + i \in Nat BY <1>1
      <4>2. b \in [1 .. n -> Nat] BY <4>1
      <4> HIDE DEF b
      <4>3. b \in Seq(Nat) BY <4>1, <4>2
      <4>4. Len(b) = n BY <4>1, <4>2, <4>3
      <4>5. QED BY <4>3, <4>4
    <3>5. \A j \in 1 .. Len(b) : b[j] = added - unsent.total + j BY <1>1, <2>1, <3>4
    <3>6. /\ r.flags \subseteq Flags /\ "ERROR" \notin r.flags
          /\ "END" \in r.flags => n = 0
      BY <3>3 DEF Flags
    <3>7. r.bytes \in Seq(Nat) /\ Len(r.bytes) = n BY <3>3, <3>4
    <3>8. \A j \in 1 .. Len(r.bytes) : r.bytes[j] = added - unsent.total + j
      BY <3>3, <3>5
    <3> HIDE DEF BuffInv, b
    <3>9. Len(r.bytes) <= comes /\ ("END" \in r.flags => comes = 0) BY <3>2, <3>6, <3>7
    <3>10. QED BY ONLY <1>1, <2>1, <3>3, <3>6, <3>7, <3>8, <3>9 DEF Gives
  <2>4. QED BY <2>2, <2>3
<1>4. QED BY <1>2, <1>3
-----------------------------------------------------------------------------
\* Bytes that follow on those that were drained keep them in order.
LEMMA FollowOn ==
  ASSUME NEW s \in Seq(Nat), NEW f \in Nat, \A i \in 1 .. Len(s) : s[i] = f + i,
         NEW b \in Seq(Nat), \A j \in 1 .. Len(b) : b[j] = f + Len(s) + j
  PROVE  /\ s \o b \in Seq(Nat) /\ Len(s \o b) = Len(s) + Len(b)
         /\ \A i \in 1 .. Len(s \o b) : (s \o b)[i] = f + i
<1> DEFINE n == Len(s)
           m == Len(b)
           c == s \o b
<1>1. n \in Nat /\ m \in Nat OBVIOUS
<1>2. /\ c \in Seq(Nat) /\ Len(c) = n + m
      /\ \A i \in 1 .. n + m : c[i] = IF i <= n THEN s[i] ELSE b[i - n]
  BY ConcatProperties
<1> HIDE DEF c
<1>3. ASSUME NEW i \in 1 .. n + m PROVE c[i] = f + i
  <2>1. CASE i <= n
    <3>1. i \in 1 .. n BY <1>1, <2>1
    <3>2. QED BY <1>2, <2>1, <3>1
  <2>2. CASE ~(i <= n)
    <3>1. i - n \in 1 .. m /\ n + (i - n) = i BY <1>1, <2>2
    <3>2. b[i - n] = f + n + (i - n) BY <3>1
    <3>3. c[i] = b[i - n] BY <1>2, <2>2
    <3>4. QED BY <1>1, <3>2, <3>3
  <2>3. QED BY <2>1, <2>2
<1>4. QED BY <1>2, <1>3 DEF c

\* The first bytes of what was read.
LEMMA Piece ==
  ASSUME NEW b \in Seq(Nat), NEW n \in 0 .. Len(b)
  PROVE  LET p == SubSeq(b, 1, n)
         IN  p \in Seq(Nat) /\ Len(p) = n /\ \A j \in 1 .. n : p[j] = b[j]
<1> DEFINE p == SubSeq(b, 1, n)
<1>1. n \in Nat /\ n <= Len(b) /\ Len(b) \in Nat OBVIOUS
<1>2. CASE n = 0
  <2>1. p = <<>> BY <1>2, SubSeqEmpty
  <2>2. QED BY <1>2, <2>1
<1>3. CASE n > 0
  <2>1. \A i \in 1 .. n : b[i] \in Nat BY <1>1
  <2> HIDE DEF p
  <2>2. /\ SubSeq(b, 1, n) \in Seq(Nat) /\ Len(SubSeq(b, 1, n)) = IF 1 <= n THEN n - 1 + 1 ELSE 0
        /\ \A i \in 1 .. n - 1 + 1 : SubSeq(b, 1, n)[i] = b[1 + i - 1]
    BY <1>1, <2>1, SubSeqProperties
  <2>3. n - 1 + 1 = n /\ \A i \in 1 .. n : 1 + i - 1 = i BY <1>1
  <2>4. QED BY <1>3, <2>2, <2>3
<1>4. QED BY <1>1, <1>2, <1>3

(* What the history says of the bytes drained in a step.                   *)
Follows(b) ==
  b \in Seq(Nat) /\ \A j \in 1 .. Len(b) : b[j] = Place + j

\* Nothing drained keeps the order, and so does what follows.
LEMMA OrderKept ==
  ASSUME BuffInv, NEW b, Follows(b) \/ b = <<>>, sent' = sent \o b, from' = from
  PROVE  /\ InOrder' /\ sent' \in Seq(Nat) /\ Len(b) \in Nat /\ Place' = Place + Len(b)
         /\ Place \in Nat
<1>1. sent \in Seq(Nat) /\ from \in Nat /\ \A i \in 1 .. Len(sent) : sent[i] = from + i
  BY DEF BuffInv, Typed, InOrder
<1>2. b \in Seq(Nat) /\ \A j \in 1 .. Len(b) : b[j] = from + Len(sent) + j
  <2>1. CASE b = <<>> BY <2>1
  <2>2. CASE Follows(b) BY <2>2 DEF Follows, Place
  <2>3. QED BY <2>1, <2>2
<1>3. /\ sent \o b \in Seq(Nat) /\ Len(sent \o b) = Len(sent) + Len(b)
      /\ \A i \in 1 .. Len(sent \o b) : (sent \o b)[i] = from + i
  BY ONLY <1>1, <1>2, FollowOn
<1>4. Len(sent) \in Nat /\ Len(b) \in Nat BY <1>1, <1>2
<1>5. InOrder' BY <1>3 DEF InOrder
<1>6. Place' = Place + Len(b)
  <2>1. Len(sent') = Len(sent) + Len(b) BY <1>3
  <2>2. QED BY <1>1, <1>4, <2>1 DEF Place
<1>7. QED BY <1>1, <1>3, <1>4, <1>5, <1>6 DEF Place

(* What a read changes.                                                    *)
Took(r) ==
  /\ Vector' /\ Standing' /\ Reserve'
  /\ unsent' \in Cursors /\ {added, comes}' \subseteq Nat /\ added' + comes' = added + comes
  /\ state' \subseteq Flags /\ (source = "memory" => "ERROR" \notin state')
  /\ r.bytes \in Seq(Nat) /\ Len(r.bytes) \in Nat
  /\ \A j \in 1 .. Len(r.bytes) : r.bytes[j] = added - unsent.total + j
  /\ added' - unsent'.total = added - unsent.total + Len(r.bytes)
  /\ "END" \in state' => "END" \in state \/ (unsent.total = 0 /\ comes = 0)
  /\ unsent.total = 0 =>
       unsent' = unsent /\ comes' = comes - Len(r.bytes) /\ Len(r.bytes) <= comes
  /\ unsent.total > 0 => comes' = comes /\ (unsent'.total = 0 => unsent'.s = NULL)

LEMMA TakeIs ==
  ASSUME BuffInv, source # "out", NEW r, Gives(r), Take(r),
         total' = total, tail' = tail, source' = source
  PROVE  Took(r)
<1>1. /\ v' = r.v /\ unsent' = r.unsent /\ state' = r.flags \union (state \intersect {"END"})
      /\ unsent.total = 0 => added' = added + Len(r.bytes) /\ comes' = comes - Len(r.bytes)
      /\ unsent.total # 0 => added' = added /\ comes' = comes
  BY DEF Take
<1>2. /\ r.v = v /\ r.unsent \in Cursors /\ Stands(r.unsent, v, total)
      /\ r.unsent.s.kind # "same"
      /\ r.bytes \in Seq(Nat) /\ r.flags \subseteq Flags
      /\ source = "memory" => "ERROR" \notin r.flags
      /\ \A j \in 1 .. Len(r.bytes) : r.bytes[j] = added - unsent.total + j
      /\ unsent.total > 0 =>
           /\ r.unsent.total = unsent.total - Len(r.bytes)
           /\ "END" \notin r.flags
           /\ r.unsent.total = 0 => r.unsent.s = NULL
      /\ unsent.total = 0 =>
           /\ r.unsent = unsent /\ Len(r.bytes) <= comes
           /\ "END" \in r.flags => comes = 0
  BY DEF Gives
<1>3. /\ Vector /\ Reserve /\ unsent.total \in Nat /\ added \in Nat /\ comes \in Nat
      /\ state \subseteq Flags /\ total \in Nat
  BY DEF BuffInv, Typed, Cursors
<1>4. Len(r.bytes) \in Nat BY <1>2
<1> HIDE DEF BuffInv, Gives, Take
<1> DEFINE n == Len(r.bytes)
           t == r.unsent.total
<1>5. unsent.total = 0 \/ unsent.total > 0 BY <1>3
<1>6. Vector'
  <2>1. v' = v BY <1>1, <1>2
  <2>2. Vector BY <1>3
  <2>3. QED BY ONLY <2>1, <2>2, total' = total, tail' = tail, source' = source DEF Vector
<1>7. Standing'
  <2>1. v' = v /\ unsent' \in Cursors /\ Stands(unsent', v', total') /\ unsent'.s.kind # "same"
    BY <1>1, <1>2
  <2>2. QED BY <2>1 DEF Standing
<1>8. added' \in Nat /\ comes' \in Nat /\ added' + comes' = added + comes
  BY <1>1, <1>2, <1>3, <1>4, <1>5
<1>9. Reserve'
  <2>1. /\ source \in {"memory", "out"} => comes = 0 /\ added = total
        /\ unsent.total > 0 => added = total
    BY <1>3 DEF Reserve
  <2>2. source \in {"memory", "out"} => comes' = 0 /\ added' = total
    BY <1>1, <1>2, <1>3, <1>4, <1>5, <2>1
  <2>3. unsent'.total > 0 => added' = total
    <3>1. CASE unsent.total = 0 BY <1>1, <1>2, <3>1
    <3>2. CASE unsent.total > 0 BY <1>1, <2>1, <3>2
    <3>3. QED BY <1>5, <3>1, <3>2
  <2>4. QED BY <2>2, <2>3 DEF Reserve
<1>10. added' - unsent'.total = added - unsent.total + n
  <2>1. CASE unsent.total = 0
    <3>1. unsent' = unsent /\ added' = added + n BY <1>1, <1>2, <2>1
    <3>2. unsent'.total = 0 BY <2>1, <3>1
    <3>3. QED BY <1>3, <1>4, <2>1, <3>1, <3>2
  <2>2. CASE unsent.total > 0
    <3>1. unsent'.total = unsent.total - n /\ added' = added BY <1>1, <1>2, <2>2
    <3>2. QED BY <1>3, <1>4, <3>1
  <2>3. QED BY <1>5, <2>1, <2>2
<1>11. state' \subseteq Flags /\ (source = "memory" => "ERROR" \notin state')
       /\ ("END" \in state' => "END" \in state \/ (unsent.total = 0 /\ comes = 0))
  <2>1. "END" # "ERROR" /\ "END" \in Flags BY DEF Flags
  <2>2. QED BY <1>1, <1>2, <1>3, <1>5, <2>1
<1>12. unsent.total = 0 => unsent' = unsent /\ comes' = comes - n /\ n <= comes
  BY <1>1, <1>2
<1>13. unsent.total > 0 => comes' = comes /\ (unsent'.total = 0 => unsent'.s = NULL)
  BY <1>1, <1>2
<1>14. unsent' \in Cursors BY <1>1, <1>2
<1>15. QED BY ONLY <1>2, <1>4, <1>6, <1>7, <1>8, <1>9, <1>10, <1>11, <1>12, <1>13, <1>14 DEF Took
-----------------------------------------------------------------------------
\* What BuffInv says of the types, in the forms the steps need.
LEMMA InvFacts ==
  ASSUME BuffInv
  PROVE  /\ unsent \in Cursors /\ unsent.total \in Nat
         /\ added \in Nat /\ comes \in Nat /\ total \in Nat /\ from \in Nat
         /\ sent \in Seq(Nat) /\ Len(sent) \in Nat /\ Place \in Nat
         /\ MAX_BYTES \in Nat /\ added + comes <= MAX_BYTES /\ total <= MAX_BYTES
         /\ Holds(v, total) /\ Len(v) \in Nat /\ v \in Seq(Strs)
         /\ Exact \/ Lost
<1>1. /\ unsent \in Cursors /\ sent \in Seq(Nat) /\ {from, added, comes, total} \subseteq Nat
      /\ added + comes <= MAX_BYTES /\ total <= MAX_BYTES
      /\ Holds(v, total) /\ (Exact \/ Lost)
  BY DEF BuffInv, Typed, Vector
<1>2. unsent.total \in Nat BY <1>1 DEF Cursors
<1>3. Len(v) \in Nat /\ v \in Seq(Strs) BY <1>1, StrFacts
<1>4. Len(sent) \in Nat /\ Place \in Nat BY <1>1 DEF Place
<1>5. QED BY <1>1, <1>2, <1>3, <1>4, Constants

(* Bytes that fill the Buff.                                               *)
LEMMA FillStep ==
  ASSUME BuffInv, ~began, NEW n \in Nat, AddNext(n),
         UNCHANGED <<source, task, to, sent, from, began>>,
         comes' \in Nat, added' + comes' <= MAX_BYTES,
         source \in {"memory", "out"} => comes' = 0, state' \subseteq Flags
  PROVE  BuffInv'
<1>1. /\ v' = Grown(n).v /\ tail' = Grown(n).tail /\ total' = total + n
      /\ unsent' = [unsent EXCEPT !.total = unsent.total + n] /\ added' = added + n
  BY DEF AddNext
<1>2. /\ sent = <<>> /\ from = 0 /\ task = "idle" /\ to = "ok"
      /\ unsent = [s |-> NULL, offset |-> 0, idx |-> 0, total |-> total]
      /\ added = total /\ Whole(v, total, 1)
  BY DEF BuffInv, Filling
<1>3. /\ Holds(v, total) /\ tail = Len(v) - 1 /\ added \in Nat /\ v \in Seq(Strs)
      /\ source \in {"memory", "out", "file", "socket"} /\ began \in BOOLEAN
  <2>1. Vector BY DEF BuffInv
  <2>2. source \in {"memory", "out", "file", "socket"} /\ began \in BOOLEAN
    BY DEF BuffInv, Typed
  <2>3. QED BY <2>1, <2>2, InvFacts DEF Vector
<1>a. MAX_BYTES \in Nat BY Constants
<1> HIDE DEF BuffInv, AddNext
<1>4. Fresh(Grown(n), added + n)
  <2> DEFINE vec == [v |-> v, tail |-> tail]
  <2>1. vec.v = v /\ vec.tail = tail OBVIOUS
  <2> HIDE DEF vec
  <2>2. Fresh(vec, added) BY <1>2, <1>3, <2>1 DEF Fresh
  <2>3. Fresh([v |-> v, tail |-> tail], added) BY <2>2 DEF vec
  <2>4. QED BY <1>3, <2>3, GrownFresh
<1>5. total' = added' /\ added' = added + n /\ added' \in Nat BY <1>1, <1>2, <1>3
<1>6. Holds(v', total') /\ Whole(v', total', 1) /\ tail' = Len(v') - 1
  <2> DEFINE g == Grown(n)
  <2>1. Holds(g.v, added + n) /\ Whole(g.v, added + n, 1) /\ g.tail = Len(g.v) - 1
    BY <1>4 DEF Fresh
  <2> HIDE DEF g
  <2>2. v' = g.v /\ tail' = g.tail /\ total' = added + n BY <1>1, <1>5 DEF g
  <2>3. QED BY <2>1, <2>2
<1>7. unsent' = [s |-> NULL, offset |-> 0, idx |-> 0, total |-> total'] BY <1>1, <1>2
<1>8. /\ unsent'.s = NULL /\ unsent'.offset = 0 /\ unsent'.idx = 0 /\ unsent'.total = total'
      /\ unsent' \in Cursors
  <2>1. NULL \in Headers /\ total' \in Nat BY <1>5, Kinds
  <2>2. QED BY <1>7, <2>1 DEF Cursors
<1>9. Typed'
  <2>1. sent' \in Seq(Nat) /\ {from, added, comes, total}' \subseteq Nat
    BY <1>2, <1>5
  <2>2. total' <= MAX_BYTES /\ from' <= MAX_BYTES BY <1>2, <1>5, <1>a
  <2>3. task' = "idle" /\ to' = "ok" /\ began' \in BOOLEAN /\ source' = source
    BY <1>2, <1>3
  <2>4. QED BY <1>3, <1>8, <2>1, <2>2, <2>3 DEF Typed
<1>10. Vector' BY <1>6 DEF Vector
<1>11. Reserve' BY <1>5 DEF Reserve
<1>12. Standing'
  <2>1. 0 \in 0 .. Len(v') BY <1>6, StrFacts
  <2>2. Unset(unsent', v', total') BY <1>6, <1>8, <2>1 DEF Unset
  <2>3. QED BY <1>8, <2>2, Kinds DEF Standing, Stands
<1>13. Filling' BY <1>2, <1>5, <1>6, <1>7 DEF Filling
<1>14. Looping' BY <1>2 DEF Looping
<1>15. Exact'
  <2>1. Len(sent') = 0 /\ from' = 0 BY <1>2
  <2>2. Place' = 0 BY <2>1 DEF Place
  <2>3. QED BY <1>5, <1>8, <2>2 DEF Exact
<1>16. InOrder' BY <1>2 DEF InOrder
<1>17. QED BY <1>9, <1>10, <1>11, <1>12, <1>13, <1>14, <1>15, <1>16 DEF BuffInv

LEMMA AddBytesStep ==
  ASSUME ~Refill, BuffInv, NEW n \in Nat, Buff_AddBytes(n)
  PROVE  BuffInv'
<1>1. /\ ~began /\ source \in {"memory", "out"} /\ AddNext(n) /\ added + n <= MAX_BYTES
      /\ state' = state \ {"SUCCESS", "END"}
      /\ UNCHANGED <<source, comes, task, to, sent, from, began>>
  BY DEF Buff_AddBytes, MayAdd
<1>2. comes = 0 /\ added \in Nat /\ state \subseteq Flags BY <1>1 DEF BuffInv, Typed, Reserve
<1>3. added' = added + n BY <1>1 DEF AddNext
<1>4. /\ UNCHANGED <<source, task, to, sent, from, began>>
      /\ comes' \in Nat /\ added' + comes' <= MAX_BYTES
      /\ source \in {"memory", "out"} => comes' = 0
      /\ state' \subseteq Flags
  BY <1>1, <1>2, <1>3, Constants
<1> HIDE DEF BuffInv
<1>5. QED BY <1>1, <1>4, FillStep

LEMMA ReadAmountStep ==
  ASSUME ~Refill, BuffInv, NEW amount \in Nat, NEW n \in Nat,
         NEW outcome \in ReadOutcomes, Buff_ReadAmount(amount, n, outcome)
  PROVE  BuffInv'
<1>1. /\ ~began /\ source \in {"file", "socket"} /\ AddNext(n) /\ n <= comes
      /\ comes' = comes - n
      /\ UNCHANGED <<source, task, to, sent, from, began>>
  BY DEF Buff_ReadAmount, MayAdd
<1>2. comes \in Nat /\ added \in Nat /\ state \subseteq Flags /\ added + comes <= MAX_BYTES
  BY DEF BuffInv, Typed
<1>3. added' = added + n BY <1>1 DEF AddNext
<1>4. comes' \in Nat /\ added' + comes' <= MAX_BYTES BY <1>1, <1>2, <1>3, Constants
<1>5. state' \subseteq Flags
  <2>1. state' \subseteq state \union {"PROCESSING", "SUCCESS", "NOOP", "MORE", "ERROR"}
    BY DEF Buff_ReadAmount
  <2>2. {"PROCESSING", "SUCCESS", "NOOP", "MORE", "ERROR"} \subseteq Flags BY DEF Flags
  <2>3. QED BY <1>2, <2>1, <2>2
<1> HIDE DEF BuffInv
<1>6. source \in {"memory", "out"} => comes' = 0 BY <1>1
<1>7. QED BY <1>1, <1>4, <1>5, <1>6, FillStep

(* To begin a loop changes no more than that.                              *)
LEMMA FlushStep ==
  ASSUME BuffInv, Buff_Flush
  PROVE  BuffInv'
<1>1. /\ task = "idle" /\ source = "out" /\ task' = "flush" /\ began' = TRUE
      /\ UNCHANGED <<v, total, tail, unsent, state, source, comes, to, added, sent, from>>
  BY DEF Buff_Flush, vecVars
<1>2. Typed' BY <1>1 DEF BuffInv, Typed
<1>3. Vector' BY <1>1 DEF BuffInv, Vector
<1>4. Reserve' BY <1>1 DEF BuffInv, Reserve
<1>5. Standing' BY <1>1 DEF BuffInv, Standing
<1>6. Filling' /\ Looping' BY <1>1 DEF Filling, Looping
<1>7. (Exact \/ Lost)'
  <2>1. CASE Exact BY <1>1, <2>1 DEF Exact, Place
  <2>2. CASE Lost BY <1>1, <2>2 DEF Lost
  <2>3. QED BY <2>1, <2>2 DEF BuffInv
<1>8. InOrder' BY <1>1 DEF BuffInv, InOrder
<1>9. QED BY <1>2, <1>3, <1>4, <1>5, <1>6, <1>7, <1>8 DEF BuffInv

LEMMA PipeStep ==
  ASSUME BuffInv, Buff_Pipe
  PROVE  BuffInv'
<1>1. /\ task = "idle" /\ source # "out" /\ task' = "pipe" /\ began' = TRUE
      /\ UNCHANGED <<v, total, tail, unsent, state, source, comes, to, added, sent, from>>
  BY DEF Buff_Pipe, vecVars
<1>2. Typed' BY <1>1 DEF BuffInv, Typed
<1>3. Vector' BY <1>1 DEF BuffInv, Vector
<1>4. Reserve' BY <1>1 DEF BuffInv, Reserve
<1>5. Standing' BY <1>1 DEF BuffInv, Standing
<1>6. Filling' /\ Looping' BY <1>1 DEF Filling, Looping
<1>7. (Exact \/ Lost)'
  <2>1. CASE Exact BY <1>1, <2>1 DEF Exact, Place
  <2>2. CASE Lost BY <1>1, <2>2 DEF Lost
  <2>3. QED BY <2>1, <2>2 DEF BuffInv
<1>8. InOrder' BY <1>1 DEF BuffInv, InOrder
<1>9. QED BY <1>2, <1>3, <1>4, <1>5, <1>6, <1>7, <1>8 DEF BuffInv

\* A read into a Str gives all it took.
LEMMA GetStrStep ==
  ASSUME BuffInv, NEW room \in Nat, Buff_GetStr(room)
  PROVE  BuffInv'
<1>1. /\ task = "idle" /\ source # "out" /\ began' = TRUE
      /\ source = "memory" \/ to = "ok" \/ "ERROR" \notin state
      /\ UNCHANGED <<total, tail, source, to, from>>
  BY DEF Buff_GetStr
<1>2. PICK r \in Reads(room) :
        /\ Take(r) /\ sent' = sent \o r.bytes
        /\ task' = IF r.crashed THEN "crashed" ELSE task
  BY DEF Buff_GetStr
<1>3. Looping /\ Typed BY DEF BuffInv
<1> HIDE DEF BuffInv
<1>4. Gives(r) BY <1>1, ReadsIs
<1>5. task' = "idle"
  <2>1. r.crashed = FALSE BY <1>4 DEF Gives
  <2>2. QED BY <1>1, <1>2, <2>1
<1>6. Took(r)
  <2>1. total' = total /\ tail' = tail /\ source' = source BY <1>1
  <2>2. QED BY <1>1, <1>2, <1>4, <2>1, TakeIs
<1>7. /\ Vector' /\ Standing' /\ Reserve'
      /\ unsent' \in Cursors /\ added' \in Nat /\ comes' \in Nat /\ added' + comes' = added + comes
      /\ state' \subseteq Flags
      /\ r.bytes \in Seq(Nat) /\ Len(r.bytes) \in Nat
      /\ \A j \in 1 .. Len(r.bytes) : r.bytes[j] = added - unsent.total + j
      /\ added' - unsent'.total = added - unsent.total + Len(r.bytes)
      /\ unsent.total = 0 =>
           unsent' = unsent /\ comes' = comes - Len(r.bytes) /\ Len(r.bytes) <= comes
  BY <1>6 DEF Took
<1>8. /\ unsent.total \in Nat /\ added \in Nat /\ comes \in Nat /\ Place \in Nat
      /\ (Exact \/ Lost)
  BY InvFacts
<1>9. unsent'.total \in Nat BY <1>7 DEF Cursors
<1>10. Lost => unsent.total = 0 /\ comes = 0 /\ r.bytes = <<>>
  <2>1. SUFFICES ASSUME Lost PROVE unsent.total = 0 /\ comes = 0 /\ r.bytes = <<>>
    OBVIOUS
  <2>2. unsent.total = 0 /\ comes = 0 BY <1>1, <2>1 DEF Lost
  <2>3. Len(r.bytes) = 0 BY <1>7, <2>2
  <2> DEFINE b == r.bytes
  <2> HIDE DEF b
  <2>4. b \in Seq(Nat) /\ Len(b) = 0 BY <1>7, <2>3 DEF b
  <2>5. b = <<>> BY <2>4
  <2>6. QED BY <2>2, <2>5 DEF b
<1>11. Follows(r.bytes) \/ r.bytes = <<>>
  <2>1. CASE Exact
    <3>1. added - unsent.total = Place BY <1>8, <2>1 DEF Exact
    <3>2. QED BY <1>7, <3>1 DEF Follows
  <2>2. CASE Lost BY <1>10, <2>2
  <2>3. QED BY <1>8, <2>1, <2>2
<1>12. InOrder' /\ sent' \in Seq(Nat) /\ Place' = Place + Len(r.bytes)
  <2>1. sent' = sent \o r.bytes /\ from' = from BY <1>1, <1>2
  <2>2. QED BY <1>11, <2>1, OrderKept
<1>13. (Exact \/ Lost)'
  <2>1. CASE Exact
    <3>1. unsent'.total = added' - Place'
      <4> DEFINE a == added
                 b == added'
                 x == unsent.total
                 y == unsent'.total
                 p == Place
                 n == Len(r.bytes)
      <4>1. /\ a \in Nat /\ b \in Nat /\ x \in Nat /\ y \in Nat /\ p \in Nat /\ n \in Nat
            /\ x = a - p /\ b - y = a - x + n /\ Place' = p + n
        BY <1>7, <1>8, <1>9, <1>12, <2>1 DEF Exact
      <4> HIDE DEF a, b, x, y, p, n
      <4>2. y = b - (p + n) BY ONLY <4>1
      <4>3. QED BY <4>1, <4>2 DEF y, b
    <3>2. QED BY <3>1 DEF Exact
  <2>2. CASE Lost
    <3>1. unsent' = unsent /\ comes' = 0 /\ unsent'.total = 0
      <4>1. Len(r.bytes) = 0 BY <1>10, <2>2
      <4>2. QED BY <1>7, <1>8, <1>10, <2>2, <4>1
    <3>2. source' = source /\ to' = to BY <1>1
    <3>3. Lost' BY <1>1, <1>10, <2>2, <3>1, <3>2 DEF Lost
    <3>4. QED BY <3>3
  <2>3. QED BY <1>8, <2>1, <2>2
<1>14. Typed'
  <2>1. added' + comes' <= MAX_BYTES BY <1>3, <1>7 DEF Typed
  <2>2. QED BY <1>1, <1>3, <1>5, <1>7, <1>12, <2>1 DEF Typed
<1>15. Filling' BY <1>1 DEF Filling
<1>16. Looping' BY <1>5 DEF Looping
<1>17. QED BY <1>7, <1>12, <1>13, <1>14, <1>15, <1>16 DEF BuffInv

\* A step of a pipe drains what it read as far as the other Buff takes it.
LEMMA PipeStepStep ==
  ASSUME BuffInv, Buff_Pipe_Step
  PROVE  BuffInv'
<1>1. /\ task = "pipe" /\ UNCHANGED <<total, tail, source, from, began>>
  BY DEF Buff_Pipe_Step
<1>2. Looping /\ Typed /\ Vector /\ Reserve /\ Standing /\ Filling /\ InOrder /\ (Exact \/ Lost)
  BY DEF BuffInv
<1>3. source # "out" /\ began = TRUE
  <2>1. source # "out" BY <1>1, <1>2 DEF Looping
  <2>2. began = TRUE BY <1>1, <1>2 DEF Filling, Typed
  <2>3. QED BY <2>1, <2>2
<1>4. CASE state \intersect {"END", "ERROR"} # {}
  <2>1. /\ task' = "idle" /\ UNCHANGED <<v, unsent, state, sent, added, comes, to>>
    BY <1>4 DEF Buff_Pipe_Step
  <2> HIDE DEF BuffInv
  <2>2. Typed' BY <1>1, <1>2, <2>1 DEF Typed
  <2>3. Vector' BY <1>1, <1>2, <2>1 DEF Vector
  <2>4. Reserve' BY <1>1, <1>2, <2>1 DEF Reserve
  <2>5. Standing' BY <1>1, <1>2, <2>1 DEF Standing
  <2>6. Filling' /\ Looping' BY <1>1, <1>3, <2>1 DEF Filling, Looping
  <2>7. (Exact \/ Lost)'
    <3>1. CASE Exact BY <1>1, <2>1, <3>1 DEF Exact, Place
    <3>2. CASE Lost BY <1>1, <1>4, <2>1, <3>2 DEF Lost
    <3>3. QED BY <1>2, <3>1, <3>2
  <2>8. InOrder' BY <1>1, <1>2, <2>1 DEF InOrder
  <2>9. QED BY <2>2, <2>3, <2>4, <2>5, <2>6, <2>7, <2>8 DEF BuffInv
<1>5. CASE state \intersect {"END", "ERROR"} = {}
  <2>1. PICK r \in Reads(BLOCK), n \in 0 .. BLOCK :
          /\ n <= Len(r.bytes) /\ (to = "failed" => n = 0)
          /\ Take(r)
          /\ sent' = sent \o SubSeq(r.bytes, 1, n)
          /\ to' = IF n < Len(r.bytes) THEN "failed" ELSE to
          /\ task' = IF r.crashed THEN "crashed" ELSE task
    BY <1>5 DEF Buff_Pipe_Step
  <2> HIDE DEF BuffInv
  <2>2. Gives(r) BY <1>3, Constants, ReadsIs
  <2>3. task' = "pipe"
    <3>1. r.crashed = FALSE BY <2>2 DEF Gives
    <3>2. QED BY <1>1, <2>1, <3>1
  <2>4. Took(r)
    <3>1. total' = total /\ tail' = tail /\ source' = source BY <1>1
    <3>2. QED BY <1>3, <2>1, <2>2, <3>1, TakeIs
  <2>5. /\ Vector' /\ Standing' /\ Reserve'
        /\ unsent' \in Cursors /\ added' \in Nat /\ comes' \in Nat
        /\ added' + comes' = added + comes
        /\ state' \subseteq Flags /\ (source = "memory" => "ERROR" \notin state')
        /\ r.bytes \in Seq(Nat) /\ Len(r.bytes) \in Nat
        /\ \A j \in 1 .. Len(r.bytes) : r.bytes[j] = added - unsent.total + j
        /\ added' - unsent'.total = added - unsent.total + Len(r.bytes)
        /\ "END" \in state' => "END" \in state \/ (unsent.total = 0 /\ comes = 0)
        /\ unsent.total = 0 =>
             unsent' = unsent /\ comes' = comes - Len(r.bytes) /\ Len(r.bytes) <= comes
        /\ unsent.total > 0 => comes' = comes /\ (unsent'.total = 0 => unsent'.s = NULL)
    BY <2>4 DEF Took
  <2>6. /\ unsent.total \in Nat /\ added \in Nat /\ comes \in Nat /\ Place \in Nat
    BY InvFacts
  <2>7. unsent'.total \in Nat BY <2>5 DEF Cursors
  <2> DEFINE b == r.bytes
             p == SubSeq(b, 1, n)
  <2>8. n \in 0 .. Len(b) /\ n \in Nat BY <2>1, <2>5
  <2>9. p \in Seq(Nat) /\ Len(p) = n /\ \A j \in 1 .. n : p[j] = b[j]
    <3>1. b \in Seq(Nat) BY <2>5
    <3> HIDE DEF b
    <3>2. QED BY <2>8, <3>1, Piece
  <2>10. Lost => n = 0 /\ to = "failed" BY <2>1 DEF Lost
  <2>11. Follows(p) \/ p = <<>>
    <3>1. CASE Exact
      <4>1. added - unsent.total = Place BY <2>6, <3>1 DEF Exact
      <4>2. \A j \in 1 .. n : b[j] = Place + j
        <5>1. \A j \in 1 .. n : j \in 1 .. Len(b) BY <2>5, <2>8
        <5>2. \A j \in 1 .. Len(b) : b[j] = Place + j BY <2>5, <4>1
        <5>3. QED BY <5>1, <5>2
      <4> HIDE DEF p, b
      <4>3. \A j \in 1 .. Len(p) : p[j] = Place + j BY <2>9, <4>2
      <4>4. QED BY <2>9, <4>3 DEF Follows
    <3>2. CASE Lost
      <4> HIDE DEF p
      <4>1. p \in Seq(Nat) /\ Len(p) = 0 BY <2>9, <2>10, <3>2
      <4>2. QED BY <4>1
    <3>3. QED BY <1>2, <3>1, <3>2
  <2>12. InOrder' /\ sent' \in Seq(Nat) /\ Place' = Place + n
    <3>1. sent' = sent \o p /\ from' = from BY <1>1, <2>1
    <3> HIDE DEF p
    <3>2. InOrder' /\ sent' \in Seq(Nat) /\ Place' = Place + Len(p) BY <2>11, <3>1, OrderKept
    <3>3. QED BY <2>9, <3>2
  <2>13. ASSUME Exact /\ n = Len(b) PROVE (Exact \/ Lost)'
    <3>1. unsent'.total = added' - Place'
      <4> DEFINE a == added
                 c == added'
                 x == unsent.total
                 y == unsent'.total
                 q == Place
                 l == Len(b)
      <4>1. /\ a \in Nat /\ c \in Nat /\ x \in Nat /\ y \in Nat /\ q \in Nat /\ l \in Nat
            /\ x = a - q /\ c - y = a - x + l /\ Place' = q + l
        BY <2>5, <2>6, <2>7, <2>12, <2>13 DEF Exact
      <4> HIDE DEF a, c, x, y, q, l
      <4>2. y = c - (q + l) BY ONLY <4>1
      <4>3. QED BY <4>1, <4>2 DEF y, c
    <3>2. QED BY <3>1 DEF Exact
  <2>14. ASSUME Lost \/ (Exact /\ n # Len(b)) PROVE (Exact \/ Lost)'
    <3> DEFINE dry == unsent.total = 0 /\ comes = 0
    <3>1. to' = "failed"
      <4>1. CASE Lost BY <2>1, <2>10, <4>1
      <4>2. CASE n # Len(b)
        <5>1. n < Len(b) BY <2>5, <2>8, <4>2
        <5>2. QED BY <2>1, <5>1
      <4>3. QED BY <2>14, <4>1, <4>2
    <3>2. dry => unsent'.total = 0 /\ comes' = 0 /\ Len(b) = 0
      BY <2>5, <2>6
    <3>3. \/ source # "memory" /\ "ERROR" \in state'
          \/ state' \intersect {"END", "ERROR"} # {} => unsent'.total = 0 /\ comes' = 0
      <4>1. "END" \notin state BY <1>5
      <4>2. CASE "ERROR" \in state' BY <2>5, <4>2
      <4>3. CASE "ERROR" \notin state' BY <2>5, <3>2, <4>1, <4>3
      <4>4. QED BY <4>2, <4>3
    <3>4. source = "memory" /\ unsent'.total = 0 => unsent'.s = NULL
      <4>1. SUFFICES ASSUME source = "memory", unsent'.total = 0 PROVE unsent'.s = NULL
        OBVIOUS
      <4>2. comes = 0 BY <1>2, <4>1 DEF Reserve
      <4>3. CASE unsent.total = 0
        <5>1. unsent' = unsent /\ Len(b) = 0 BY <2>5, <2>6, <4>2, <4>3
        <5>2. n = Len(b) BY <2>8, <5>1
        <5>3. Lost BY <2>14, <5>2
        <5>4. unsent.s = NULL BY <1>3, <4>1, <4>3, <5>3 DEF Lost
        <5>5. QED BY <5>1, <5>4
      <4>4. CASE unsent.total > 0 BY <2>5, <4>1, <4>4
      <4>5. QED BY <2>6, <4>3, <4>4
    <3>5. Lost' BY <1>1, <2>3, <3>1, <3>3, <3>4 DEF Lost
    <3>6. QED BY <3>5
  <2>15. (Exact \/ Lost)'
    <3>1. (Exact /\ n = Len(b)) => (Exact \/ Lost)' BY <2>13
    <3>2. (Lost \/ (Exact /\ n # Len(b))) => (Exact \/ Lost)' BY <2>14
    <3> HIDE DEF b
    <3>3. QED BY ONLY <1>2, <3>1, <3>2
  <2>16. Typed'
    <3>1. added' + comes' <= MAX_BYTES BY <1>2, <2>5 DEF Typed
    <3>2. to' \in {"ok", "failed"} BY <1>2, <2>1 DEF Typed
    <3>3. QED BY <1>1, <1>2, <2>3, <2>5, <2>12, <3>1, <3>2 DEF Typed
  <2>17. Filling' BY <1>1, <1>3 DEF Filling
  <2>18. Looping' BY <1>1, <1>3, <2>3 DEF Looping
  <2>19. QED BY <2>5, <2>12, <2>15, <2>16, <2>17, <2>18 DEF BuffInv
<1>6. QED BY <1>4, <1>5
-----------------------------------------------------------------------------
\* A seek in memory: what is left is what is behind the place.
LEMMA SeekStep ==
  ASSUME BuffInv, task = "idle", source = "memory",
         NEW p \in Nat, p <= total, Moves(p),
         unsent' \in Cursors, Stands(unsent', v, total), unsent'.s.kind # "same",
         unsent'.total = total - p, state' \subseteq Flags,
         UNCHANGED <<v, total, tail, source, comes, task, to, added>>
  PROVE  BuffInv'
<1>1. Typed /\ Vector /\ Reserve BY DEF BuffInv
<1>2. from' = p /\ sent' = <<>> /\ began' = TRUE BY DEF Moves
<1>3. total \in Nat /\ total <= MAX_BYTES /\ MAX_BYTES \in Nat /\ added = total
  <2>1. added = total BY <1>1 DEF Reserve
  <2> HIDE DEF BuffInv
  <2>2. QED BY <2>1, InvFacts
<1>4. Typed'
  <2>1. from' \in Nat /\ from' <= MAX_BYTES BY <1>2, <1>3
  <2>2. sent' \in Seq(Nat) BY <1>2
  <2>3. QED BY <1>1, <1>2, <2>1, <2>2 DEF Typed
<1>5. Vector' BY <1>1 DEF Vector
<1>6. Reserve' BY <1>1, <1>3 DEF Reserve
<1>7. Standing' BY DEF Standing
<1>8. Filling' /\ Looping' BY <1>2 DEF Filling, Looping
<1>9. Exact'
  <2>1. Place' = p
    <3>1. Len(sent') = 0 BY <1>2
    <3>2. QED BY <1>2, <3>1 DEF Place
  <2>2. QED BY <1>3, <2>1 DEF Exact
<1>10. InOrder' BY <1>2 DEF InOrder
<1>11. QED BY <1>4, <1>5, <1>6, <1>7, <1>8, <1>9, <1>10 DEF BuffInv

\* What a seek in memory starts from.
LEMMA SeekFacts ==
  ASSUME BuffInv, source = "memory", v # <<>>
  PROVE  /\ Holds(v, total) /\ Whole(v, total, 1) /\ added = total
         /\ Started \in Cursors /\ Started.s.kind = "copy" /\ Position(Started, v, total)
         /\ Started.total \in Nat
         /\ unsent.s = NULL => Started.total = total
         /\ unsent.s # NULL => Started = unsent
<1>1. /\ Holds(v, total) /\ Whole(v, total, 1) /\ added = total
      /\ unsent \in Cursors /\ Stands(unsent, v, total) /\ unsent.s.kind # "same"
  BY DEF BuffInv, Typed, Vector, Reserve, Standing
<1> HIDE DEF BuffInv
<1>2. /\ Started \in Cursors /\ Started.s.kind = "copy" /\ Position(Started, v, total)
      /\ unsent.s = NULL => Started.total = total
      /\ unsent.s # NULL => Started = unsent
  BY <1>1, StartedIs
<1>3. Started.total \in Nat BY <1>2 DEF Cursors
<1>4. QED BY <1>1, <1>2, <1>3

\* A seek from where unsent stands.
LEMMA WalkStep ==
  ASSUME BuffInv, task = "idle", source = "memory", v # <<>>, NEW n \in Int,
         MaySeek(Started, n), unsent' = VecPos(Started, n),
         Moves(total - (Started.total - n)),
         UNCHANGED <<v, total, tail, state, source, comes, task, to, added>>
  PROVE  BuffInv'
<1>1. /\ Holds(v, total) /\ Whole(v, total, 1)
      /\ Started \in Cursors /\ Started.s.kind = "copy" /\ Position(Started, v, total)
      /\ Started.total \in Nat
  BY SeekFacts
<1>2. total \in Nat /\ state \subseteq Flags BY DEF BuffInv, Typed
<1> HIDE DEF BuffInv
<1>3. /\ unsent' \in Cursors /\ unsent'.s.kind = "copy" /\ Position(unsent', v, total)
      /\ unsent'.total = Started.total - n
  <2> DEFINE u == Started
             w == VecPos(u, n)
  <2> HIDE DEF u
  <2>1. /\ w \in Cursors /\ w.s.kind = "copy" /\ Position(w, v, total) /\ w.total = u.total - n
    BY <1>1, VecPosIs DEF u
  <2>2. unsent' = w BY DEF u
  <2> HIDE DEF w
  <2>3. QED BY <2>1, <2>2 DEF u
<1> DEFINE p == total - (Started.total - n)
<1>4. Started.total - n \in 0 .. total BY DEF MaySeek
<1>5. p \in Nat /\ p <= total /\ total - p = Started.total - n BY <1>1, <1>2, <1>4
<1>6. Stands(unsent', v, total) /\ unsent'.s.kind # "same" BY <1>3 DEF Stands
<1>7. Moves(p) OBVIOUS
<1> HIDE DEF p
<1>8. unsent'.total = total - p /\ state' \subseteq Flags BY <1>2, <1>3, <1>5
<1>9. UNCHANGED <<v, total, tail, source, comes, task, to, added>> OBVIOUS
<1>10. QED BY <1>3, <1>5, <1>6, <1>7, <1>8, <1>9, SeekStep

LEMMA PosAbsStep ==
  ASSUME BuffInv, NEW p \in Nat, Buff_PosAbs(p)
  PROVE  BuffInv'
<1> DEFINE n == p + Started.total - total
<1>1. /\ task = "idle" /\ source = "memory" /\ v # <<>>
      /\ MaySeek(Started, n) /\ unsent' = VecPos(Started, n) /\ Moves(p)
      /\ UNCHANGED <<v, total, tail, state, source, comes, task, to, added>>
  BY DEF Buff_PosAbs, vecVars
<1>2. Started.total \in Nat BY <1>1, SeekFacts
<1>3. total \in Nat BY InvFacts
<1>4. n \in Int /\ total - (Started.total - n) = p BY <1>2, <1>3
<1> HIDE DEF n, BuffInv
<1>5. Moves(total - (Started.total - n)) BY <1>1, <1>4
<1>6. QED BY <1>1, <1>4, <1>5, WalkStep

LEMMA PosStep ==
  ASSUME BuffInv, NEW n \in Int, Buff_Pos(n)
  PROVE  BuffInv'
<1>1. /\ task = "idle" /\ source = "memory" /\ v # <<>>
      /\ MaySeek(Started, n) /\ unsent' = VecPos(Started, n)
      /\ Moves(IF unsent.s = NULL THEN n ELSE Place + n)
      /\ UNCHANGED <<v, total, tail, state, source, comes, task, to, added>>
  BY DEF Buff_Pos, vecVars
<1> HIDE DEF BuffInv
<1>2. /\ Started.total \in Nat /\ added = total
      /\ unsent.s = NULL => Started.total = total
      /\ unsent.s # NULL => Started = unsent
  BY <1>1, SeekFacts
<1>3. total \in Nat /\ Place \in Nat /\ unsent.total \in Nat /\ (Exact \/ Lost) BY InvFacts
<1>4. total - (Started.total - n) = IF unsent.s = NULL THEN n ELSE Place + n
  <2>1. CASE unsent.s = NULL BY <1>2, <1>3, <2>1
  <2>2. CASE unsent.s # NULL
    <3>1. ~Lost \/ unsent.total = 0 BY <1>1 DEF Lost
    <3>2. ~Lost BY <1>1, <2>2, <3>1 DEF Lost
    <3>3. unsent.total = added - Place BY <1>3, <3>2 DEF Exact
    <3>4. Started.total = total - Place BY <1>2, <2>2, <3>3
    <3>5. QED BY <1>3, <2>2, <3>4
  <2>3. QED BY <2>1, <2>2
<1>5. Moves(total - (Started.total - n)) BY <1>1, <1>4
<1>6. QED BY <1>1, <1>5, WalkStep

\* A seek from the end stands in the last Str, or behind it.
LEMMA PosEndStep ==
  ASSUME BuffInv, NEW n \in Nat, Buff_PosEnd(n)
  PROVE  BuffInv'
<1> DEFINE L == Len(v)
           last == SetUnsentStr(unsent, L - 1)
           u == [last EXCEPT !.total = 0]
<1>1. /\ task = "idle" /\ source = "memory" /\ v # <<>> /\ Moves(total - n)
      /\ n = 0 => /\ unsent' = [unsent EXCEPT !.idx = L - 1, !.s = NULL, !.total = 0]
                  /\ state' = state \union {"END"}
      /\ n # 0 => n <= Header(u.s, v).len /\ unsent' = Back(u, n) /\ state' = state
      /\ UNCHANGED <<v, total, tail, source, comes, task, to, added>>
  BY DEF Buff_PosEnd, vecVars
<1>2. Holds(v, total) /\ Whole(v, total, 1) BY <1>1, SeekFacts
<1>3. unsent \in Cursors /\ total \in Nat /\ state \subseteq Flags
  BY DEF BuffInv, Typed
<1> HIDE DEF BuffInv
<1>4. /\ L \in Nat /\ L # 0 /\ L - 1 \in 0 .. L - 1 /\ L - 1 \in 0 .. L /\ L \in 1 .. L
      /\ L - 1 + 1 = L
  <2>1. v \in Seq(Strs) BY <1>2, StrFacts
  <2>2. L \in Nat /\ L # 0 BY <1>1, <2>1
  <2> HIDE DEF L
  <2>3. QED BY <2>2
<1>5. UNCHANGED <<v, total, tail, source, comes, task, to, added>> BY <1>1
<1>6. CASE n = 0
  <2>1. unsent' = [unsent EXCEPT !.idx = L - 1, !.s = NULL, !.total = 0]
        /\ state' = state \union {"END"} /\ total - n = total
    BY <1>1, <1>3, <1>6
  <2> HIDE DEF L
  <2>a. unsent' = [s |-> NULL, offset |-> unsent.offset, idx |-> L - 1, total |-> 0]
    BY <1>3, <2>1 DEF Cursors
  <2>b. L - 1 \in Nat /\ unsent.offset \in Nat BY <1>3, <1>4 DEF Cursors
  <2>2. /\ unsent' \in Cursors /\ unsent'.s = NULL /\ unsent'.idx = L - 1 /\ unsent'.total = 0
    BY <2>a, <2>b, Kinds DEF Cursors
  <2>3. Unset(unsent', v, total)
    <3>1. L - 1 \in 0 .. Len(v) BY <1>4 DEF L
    <3>2. QED BY <2>2, <3>1 DEF Unset
  <2>4. Stands(unsent', v, total) /\ unsent'.s.kind # "same" BY <2>2, <2>3, Kinds DEF Stands
  <2>5. state' \subseteq Flags BY <1>3, <2>1 DEF Flags
  <2>6. Moves(total) /\ total <= total /\ unsent'.total = total - total
    BY <1>1, <1>3, <2>1, <2>2
  <2>7. QED BY <1>1, <1>3, <1>5, <2>2, <2>4, <2>5, <2>6, SeekStep
<1>7. CASE n # 0
  <2>1. n <= Header(u.s, v).len /\ unsent' = Back(u, n) /\ state' = state BY <1>1, <1>7
  <2>2. /\ last \in Cursors /\ last.s.kind = "copy" /\ last.idx = L - 1 /\ last.offset = 0
        /\ Header(last.s, v).start = 0 /\ Header(last.s, v).len = Size(v, total, L)
        /\ Placed(last, v, total) /\ Rest(last, v, total) = total - Start(L)
    <3> DEFINE i == L - 1
               w == SetUnsentStr(unsent, i)
    <3>1. i \in 0 .. Len(v) - 1 /\ i + 1 = L BY <1>4
    <3> HIDE DEF i
    <3>2. /\ w \in Cursors /\ w.s.kind = "copy" /\ w.idx = i /\ w.offset = 0
          /\ Header(w.s, v).start = 0 /\ Header(w.s, v).len = Size(v, total, i + 1)
          /\ Placed(w, v, total) /\ Rest(w, v, total) = total - Start(i + 1)
      BY <1>2, <1>3, <3>1, SetIs
    <3> HIDE DEF L, w
    <3>3. QED BY <3>1, <3>2 DEF i, w
  <2>3. Size(v, total, L) = total - Start(L) /\ Start(L) \in Nat /\ Start(L) < total
    <3>1. /\ Start(L) \in Nat /\ Start(L) < total
          /\ Size(v, total, L) = Until(v, total, L) - Start(L)
          /\ Until(v, total, L) = total
      BY <1>2, <1>4, StrFacts
    <3> HIDE DEF L
    <3>2. QED BY <3>1
  <2> HIDE DEF last
  <2>4. /\ u \in Cursors /\ u.s = last.s /\ u.idx = last.idx /\ u.offset = last.offset
        /\ u.total = 0 /\ Placed(u, v, total) /\ Rest(u, v, total) = Rest(last, v, total)
    <3> DEFINE t == 0
               w == [last EXCEPT !.total = t]
    <3>1. t \in Nat OBVIOUS
    <3> HIDE DEF t
    <3>2. /\ w \in Cursors /\ w.s = last.s /\ w.idx = last.idx /\ w.offset = last.offset
          /\ w.total = t /\ Placed(w, v, total) /\ Rest(w, v, total) = Rest(last, v, total)
      BY <2>2, <3>1, CountIs
    <3>3. u = w BY DEF t
    <3> HIDE DEF u, w
    <3>4. QED BY <3>2, <3>3 DEF t
  <2> DEFINE h == Header(u.s, v)
             b == BackTo(u, h, 0)
             m == MoveIn(b, b.s.len - n)
  <2>5. h.len = total - Start(L) /\ h.start = 0 /\ Rest(u, v, total) = h.len
        /\ h.len \in Nat /\ n \in 1 .. h.len
    BY <1>3, <1>7, <2>1, <2>2, <2>3, <2>4
  <2>6. unsent' = [m EXCEPT !.total = b.total + n]
    <3> DEFINE k == IF u.offset > n THEN n ELSE u.offset
    <3>1. k = 0 BY <2>2, <2>4
    <3>2. Back(u, n) = IF n = k THEN BackTo(u, h, k)
                       ELSE [MoveIn(BackTo(u, h, k), BackTo(u, h, k).s.len - (n - k)) EXCEPT
                               !.total = BackTo(u, h, k).total + n - k]
      BY DEF Back, BackTo
    <3> HIDE DEF k, h, u
    <3>3. Back(u, n) = [MoveIn(b, b.s.len - (n - 0)) EXCEPT !.total = b.total + n - 0]
      BY <1>7, <3>1, <3>2
    <3>4. n - 0 = n OBVIOUS
    <3>5. b.total + n - 0 = b.total + n
      <4>1. b.total \in Int
        <5>1. /\ u \in Cursors /\ Placed(u, v, total) /\ u.s.kind = "copy" /\ u.offset = 0
          BY <2>2, <2>4
        <5>2. 0 \in 0 .. u.offset /\ (0 > 0 => Header(u.s, v).len > 0) BY <5>1
        <5>3. BackTo(u, Header(u.s, v), 0) \in Cursors BY <1>2, <5>1, <5>2, BackToIs
        <5>4. QED BY <5>3 DEF h, Cursors
      <4> HIDE DEF b
      <4>2. QED BY <4>1
    <3> HIDE DEF b
    <3>6. QED BY <2>1, <3>3, <3>4, <3>5
  <2>7. /\ b \in Cursors /\ b.s.kind = "copy" /\ b.total = u.total + 0
        /\ b.s.len = h.len + 0 /\ Header(b.s, v).len = b.s.len
        /\ Placed(b, v, total) /\ Rest(b, v, total) = Rest(u, v, total) + 0
    <3>1. u.s.kind = "copy" /\ u.offset = 0 BY <2>2, <2>4
    <3>2. 0 \in 0 .. u.offset /\ (0 > 0 => Header(u.s, v).len > 0) BY <3>1
    <3> HIDE DEF u
    <3>3. QED BY <1>2, <2>4, <3>1, <3>2, BackToIs
  <2> HIDE DEF b, u, h
  <2>8. b.total = 0 /\ b.s.len = h.len /\ Rest(b, v, total) = h.len
    BY <2>4, <2>5, <2>7
  <2>9. b.s.len - n \in 0 .. Header(b.s, v).len BY <2>5, <2>7, <2>8
  <2>10. /\ m \in Cursors /\ m.s.kind = "copy" /\ Placed(m, v, total)
         /\ Rest(m, v, total) = Rest(b, v, total) - (b.s.len - n)
    BY <1>2, <2>7, <2>9, MoveInIs
  <2>11. Rest(m, v, total) = n BY <2>5, <2>8, <2>10
  <2> HIDE DEF m
  <2>12. unsent' = [m EXCEPT !.total = n]
    <3>1. b.total + n = n BY <2>8
    <3>2. QED BY <2>6, <3>1
  <2>13. /\ unsent' \in Cursors /\ unsent'.s = m.s /\ unsent'.total = n
         /\ Placed(unsent', v, total) /\ Rest(unsent', v, total) = n
    BY <2>10, <2>11, <2>12, CountIs
  <2>14. Stands(unsent', v, total) /\ unsent'.s.kind # "same"
    BY <2>10, <2>13 DEF Stands, Position
  <2> DEFINE p == total - n
  <2>15. p \in Nat /\ p <= total /\ total - p = n BY <1>3, <2>3, <2>5
  <2>16. Moves(p) BY <1>1
  <2> HIDE DEF p
  <2>17. unsent'.total = total - p /\ state' \subseteq Flags BY <1>3, <2>1, <2>13, <2>15
  <2>18. QED BY <1>1, <1>5, <2>13, <2>14, <2>15, <2>16, <2>17, SeekStep
<1>8. QED BY <1>6, <1>7

\* A seek in a file that nothing was buffered of.
LEMMA PosFdStep ==
  ASSUME BuffInv, NEW p \in Int, Buff_PosFd(p)
  PROVE  BuffInv'
<1>1. /\ task = "idle" /\ source \in {"file", "socket"} /\ v = <<>>
      /\ UNCHANGED <<v, total, tail, unsent, source, task, to>>
  BY DEF Buff_PosFd, vecVars
<1>2. Typed /\ Vector /\ Reserve /\ Standing /\ Filling /\ (Exact \/ Lost) /\ InOrder
  BY DEF BuffInv
<1>3. /\ total = 0 /\ added \in Nat /\ comes \in Nat /\ added + comes <= MAX_BYTES
      /\ MAX_BYTES \in Nat /\ state \subseteq Flags
  <2>1. total = 0 BY <1>1, <1>2 DEF Vector, Holds
  <2>2. state \subseteq Flags BY <1>2 DEF Typed
  <2>3. QED BY <2>1, <2>2, InvFacts
<1>4. unsent.total = 0
  <2>1. Stands(unsent, v, total) BY <1>2 DEF Standing
  <2>2. Len(v) = 0 BY <1>1
  <2>3. ~Placed(unsent, v, total)
    <3>1. ~(unsent.idx \in 0 .. Len(v) - 1) BY <2>2
    <3>2. QED BY <3>1 DEF Placed
  <2>4. Unset(unsent, v, total) BY <2>1, <2>3 DEF Stands, Position
  <2>5. QED BY <1>3, <2>4 DEF Unset
<1> HIDE DEF BuffInv
<1>5. Vector' BY <1>1, <1>2 DEF Vector
<1>6. Standing' BY <1>1, <1>2 DEF Standing
<1>7. Reserve' BY <1>1, <1>4 DEF Reserve
<1>8. Looping' BY <1>1 DEF Looping
<1>9. CASE source = "file" /\ p >= 0
  <2>1. /\ p <= added + comes /\ added' = p /\ comes' = added + comes - p
        /\ state' = (state \ {"PROCESSING"}) \union (IF p > 0 THEN {"PROCESSING"} ELSE {})
        /\ from' = p /\ sent' = <<>> /\ began' = TRUE
    BY <1>9 DEF Buff_PosFd, Moves
  <2>2. p \in Nat /\ added' \in Nat /\ comes' \in Nat /\ added' + comes' = added + comes
        /\ from' \in Nat /\ from' <= MAX_BYTES
    BY <1>3, <1>9, <2>1
  <2>3. state' \subseteq Flags BY <1>3, <2>1 DEF Flags
  <2>4. sent' \in Seq(Nat) BY <2>1
  <2>5. Typed' BY <1>1, <1>2, <1>3, <2>1, <2>2, <2>3, <2>4 DEF Typed
  <2>6. Filling' BY <2>1 DEF Filling
  <2>7. Exact'
    <3>1. Place' = p
      <4>1. Len(sent') = 0 BY <2>1
      <4>2. QED BY <2>1, <2>2, <4>1 DEF Place
    <3>2. QED BY <1>1, <1>4, <2>1, <2>2, <3>1 DEF Exact
  <2>8. InOrder' BY <2>1 DEF InOrder
  <2>9. QED BY <1>5, <1>6, <1>7, <1>8, <2>5, <2>6, <2>7, <2>8 DEF BuffInv
<1>10. CASE ~(source = "file" /\ p >= 0)
  <2>1. /\ state' = (state \ {"PROCESSING"}) \union {"ERROR", "END"}
        /\ UNCHANGED <<added, comes, sent, from, began>>
    BY <1>10 DEF Buff_PosFd
  <2>2. state' \subseteq Flags BY <1>3, <2>1 DEF Flags
  <2>3. Typed' BY <1>1, <1>2, <2>1, <2>2 DEF Typed
  <2>4. Filling' BY <1>1, <1>2, <2>1 DEF Filling
  <2>5. (Exact \/ Lost)'
    <3>1. CASE Exact BY <1>1, <2>1, <3>1 DEF Exact, Place
    <3>2. CASE Lost BY <1>1, <2>1, <3>2 DEF Lost
    <3>3. QED BY <1>2, <3>1, <3>2
  <2>6. InOrder' BY <1>2, <2>1 DEF InOrder
  <2>7. QED BY <1>5, <1>6, <1>7, <1>8, <2>3, <2>4, <2>5, <2>6 DEF BuffInv
<1>11. QED BY <1>9, <1>10
-----------------------------------------------------------------------------
\* What a flush sends from: the Str unsent is on, or the first one.
LEMMA CurrentIs ==
  ASSUME BuffInv, unsent.total > 0
  PROVE  /\ Current(unsent) \in Cursors /\ Position(Current(unsent), v, total)
         /\ Current(unsent).total = unsent.total
<1> DEFINE u == Current(unsent)
<1>1. Holds(v, total) /\ unsent \in Cursors /\ Stands(unsent, v, total)
  BY DEF BuffInv, Typed, Vector, Standing
<1> HIDE DEF BuffInv
<1>2. CASE unsent.s # NULL
  <2>1. u = unsent BY <1>2 DEF Current
  <2>2. Position(unsent, v, total) BY <1>1, <1>2 DEF Stands, Unset
  <2> HIDE DEF u
  <2>3. QED BY <1>1, <2>1, <2>2 DEF u
<1>3. CASE unsent.s = NULL
  <2>1. /\ unsent.total = total /\ unsent.idx = 0 /\ unsent.offset = 0
        /\ Whole(v, total, 1) /\ total > 0 /\ total \in Nat
    <3>1. ~Position(unsent, v, total) BY <1>3, Kinds DEF Position, Placed
    <3>2. Unset(unsent, v, total) BY <1>1, <3>1 DEF Stands
    <3>3. QED BY <1>1, <3>2 DEF Unset, Holds
  <2>2. 0 \in 0 .. Len(v) - 1 /\ 0 + 1 = 1
    <3>1. Len(v) \in Nat /\ v \in Seq(Strs) /\ (v = <<>> => total = 0)
      BY <1>1, StrFacts DEF Holds
    <3>2. Len(v) # 0 BY <2>1, <3>1
    <3>3. QED BY <3>1, <3>2
  <2> DEFINE s == Recorded(v, 0)
             h == Incr(Header(s, v), 0)
             w == SetUnsentStr(unsent, 0)
  <2>3. /\ s \in Headers /\ s.kind = "copy" /\ s.start = 0 /\ s.len = v[0 + 1].len
    BY <1>1, <2>2, RecordedIs
  <2> HIDE DEF s
  <2>4. s.len \in Nat /\ s = [kind |-> "copy", at |-> s.at, start |-> s.start, len |-> s.len]
    BY <2>3, Kinds
  <2>5. h.start = s.start /\ h.len = s.len
    <3>1. Header(s, v).start = s.start /\ Header(s, v).len = s.len BY <2>3, HeaderIs
    <3>2. QED BY <2>3, <2>4, <3>1 DEF Incr
  <2> HIDE DEF h
  <2>6. [s EXCEPT !.start = h.start, !.len = h.len] = s BY <2>4, <2>5
  <2>7. u = [unsent EXCEPT !.s = s]
    <3>1. u = [unsent EXCEPT !.s = [s EXCEPT !.start = h.start, !.len = h.len]]
      BY <1>3, <2>1 DEF Current, s, h
    <3>2. QED BY <2>6, <3>1
  <2>8. u = w
    <3>1. w = [unsent EXCEPT !.idx = 0, !.s = s, !.offset = 0] BY DEF SetUnsentStr, s
    <3> HIDE DEF u, w
    <3>2. u = [s |-> s, offset |-> 0, idx |-> 0, total |-> unsent.total]
      BY <1>1, <2>1, <2>7 DEF Cursors
    <3>3. w = [s |-> s, offset |-> 0, idx |-> 0, total |-> unsent.total]
      BY <1>1, <3>1 DEF Cursors
    <3>4. QED BY <3>2, <3>3
  <2>9. /\ w \in Cursors /\ w.total = unsent.total
        /\ Placed(w, v, total) /\ Rest(w, v, total) = total - Start(1)
    BY <1>1, <2>1, <2>2, SetIs
  <2> HIDE DEF w
  <2>10. total - Start(1) = total BY <2>1, Starts
  <2>11. Position(w, v, total) BY <2>1, <2>9, <2>10 DEF Position
  <2> HIDE DEF u
  <2>12. QED BY <2>8, <2>9, <2>11 DEF u
<1>4. QED BY <1>2, <1>3

\* To take the whole of a Str leaves its bytes, and the other Strs.
LEMMA MovedIs ==
  ASSUME Holds(v, total), NEW u \in Cursors, Placed(u, v, total)
  PROVE  LET w == Moved(u, Header(u.s, v).len)
         IN  /\ Holds(w, total) /\ Len(w) = Len(v)
             /\ \A k \in 1 .. Len(v) : k # u.idx + 1 => w[k] = v[k]
             /\ Whole(w, total, u.idx + 2)
             /\ \A k \in 1 .. Len(v) : Until(w, total, k) = Until(v, total, k)
                                       /\ Size(w, total, k) = Size(v, total, k)
<1> DEFINE h == Header(u.s, v)
           w == Moved(u, h.len)
           L == Len(v)
           k0 == u.idx + 1
<1>1. /\ L \in Nat /\ v \in Seq(Strs) /\ k0 \in 1 .. L /\ h.len \in Nat /\ u.idx \in Nat
      /\ u.s.kind \in {"copy", "same"} /\ u.s.at = u.idx /\ Whole(v, total, u.idx + 2)
  <2>1. u.idx \in Nat /\ k0 \in 1 .. L /\ h.len \in Nat BY RestIs
  <2>2. QED BY <2>1, StrFacts DEF Placed
<1>2. CASE u.s.kind = "copy"
  <2>1. w = v BY <1>2 DEF Moved
  <2> HIDE DEF w
  <2>2. QED BY <1>1, <2>1 DEF w
<1>3. CASE u.s.kind = "same"
  <2> DEFINE s == v[k0]
             t == [[s EXCEPT !.start = s.start] EXCEPT !.len = 0]
  <2>1. s \in Strs /\ s.start = 0 /\ h.start = s.start /\ h.len = s.len
    <3>1. h.start = v[u.s.at + 1].start /\ h.len = v[u.s.at + 1].len BY <1>3, HeaderIs
    <3>2. s \in Strs BY <1>1, StrFacts
    <3>3. s.start = 0 BY <1>1 DEF Holds
    <3>4. QED BY <1>1, <3>1, <3>2, <3>3
  <2>2. w = [v EXCEPT ![k0] = t]
    <3> DEFINE g == Incr(h, h.len)
    <3>1. g.start = s.start /\ g.len = 0 BY <1>1, <2>1 DEF Incr
    <3>2. w = [v EXCEPT ![u.s.at + 1].start = g.start, ![u.s.at + 1].len = g.len]
      BY <1>3 DEF Moved
    <3> HIDE DEF g, h
    <3>3. w = [v EXCEPT ![k0].start = s.start, ![k0].len = 0] BY <1>1, <3>1, <3>2
    <3> HIDE DEF w
    <3> DEFINE x == [v EXCEPT ![k0].start = s.start]
    <3>4. w = [x EXCEPT ![k0].len = 0] BY <3>3
    <3>5. DOMAIN v = 1 .. L /\ v = [i \in 1 .. L |-> v[i]] BY <1>1
    <3> HIDE DEF L, k0
    <3>6. /\ x = [i \in 1 .. L |-> IF i = k0 THEN [v[i] EXCEPT !.start = s.start] ELSE v[i]]
      BY <3>5
    <3>7. w = [i \in 1 .. L |-> IF i = k0 THEN [x[i] EXCEPT !.len = 0] ELSE x[i]]
      BY <3>4, <3>6
    <3>8. [v EXCEPT ![k0] = t] = [i \in 1 .. L |-> IF i = k0 THEN t ELSE v[i]]
      BY <3>5
    <3>9. x[k0] = [s EXCEPT !.start = s.start] /\ \A i \in 1 .. L : i # k0 => x[i] = v[i]
      BY <1>1, <3>6
    <3> HIDE DEF x, s
    <3>10. \A i \in 1 .. L : (IF i = k0 THEN [x[i] EXCEPT !.len = 0] ELSE x[i])
                             = (IF i = k0 THEN t ELSE v[i])
      BY <3>9
    <3> HIDE DEF t
    <3>11. QED BY <3>7, <3>8, <3>10
  <2>3. t \in Strs /\ t.mem = s.mem /\ t.start = 0 /\ t.len = 0
    <3> DEFINE a == s.start
               y == [s EXCEPT !.start = a]
    <3>1. s \in Strs /\ a = 0 /\ a \in Nat BY <2>1
    <3> HIDE DEF s, a
    <3>2. y \in Strs /\ y.mem = s.mem /\ y.start = a BY <3>1 DEF Strs
    <3>3. t = [y EXCEPT !.len = 0] BY DEF a
    <3> HIDE DEF y, t
    <3>4. QED BY <3>1, <3>2, <3>3 DEF Strs
  <2> HIDE DEF t, w
  <2>4. /\ w \in Seq(Strs) /\ Len(w) = L /\ w[k0] = t
        /\ \A k \in 1 .. L : k # k0 => w[k] = v[k]
    <3> HIDE DEF s, k0
    <3>1. /\ [v EXCEPT ![k0] = t] \in Seq(Strs) /\ Len([v EXCEPT ![k0] = t]) = Len(v)
          /\ \A j \in 1 .. Len(v) : [v EXCEPT ![k0] = t][j] = IF j = k0 THEN t ELSE v[j]
      BY <1>1, <2>3, ExceptSeq
    <3>2. QED BY <1>1, <2>2, <3>1
  <2>5. \A k \in 1 .. L : Until(w, total, k) = Until(v, total, k)
                          /\ Size(w, total, k) = Size(v, total, k)
    BY <2>4 DEF Until, Size
  <2>6. Holds(w, total)
    <3>1. total \in Nat /\ (w = <<>> <=> total = 0)
      <4>1. total \in Nat /\ (v = <<>> <=> total = 0) BY DEF Holds
      <4>2. v # <<>> /\ w # <<>> BY <1>1, <2>4
      <4>3. QED BY <4>1, <4>2
    <3>2. ASSUME NEW k \in 1 .. L
          PROVE  /\ Size(w, total, k) \in 1 .. SEG
                 /\ Len(w[k].mem) = Size(w, total, k)
                 /\ \A j \in 1 .. Size(w, total, k) : w[k].mem[j] = Start(k) + j
                 /\ w[k].start = 0
                 /\ w[k].len \in {0, Size(w, total, k)}
      <4>1. /\ Size(v, total, k) \in 1 .. SEG
            /\ Len(v[k].mem) = Size(v, total, k)
            /\ \A j \in 1 .. Size(v, total, k) : v[k].mem[j] = Start(k) + j
            /\ v[k].start = 0
            /\ v[k].len \in {0, Size(v, total, k)}
        BY DEF Holds
      <4>2. CASE k = k0
        <5>1. w[k].mem = v[k].mem /\ w[k].start = 0 /\ w[k].len = 0 BY <2>3, <2>4, <4>2
        <5>2. QED BY <2>5, <4>1, <5>1
      <4>3. CASE k # k0 BY <2>4, <2>5, <4>1, <4>3
      <4>4. QED BY <4>2, <4>3
    <3>3. QED BY <2>4, <3>1, <3>2 DEF Holds
  <2>7. Whole(w, total, u.idx + 2)
    <3>1. ASSUME NEW k \in 1 .. L, k >= u.idx + 2 PROVE w[k].len = Size(w, total, k)
      <4>1. k # k0 BY <1>1, <3>1
      <4>2. v[k].len = Size(v, total, k) BY <1>1, <3>1 DEF Whole
      <4>3. QED BY <2>4, <2>5, <4>1, <4>2
    <3>2. QED BY <2>4, <3>1 DEF Whole
  <2>8. QED BY <2>4, <2>5, <2>6, <2>7 DEF w
<1>4. QED BY <1>1, <1>2, <1>3

\* Where unsent stands when all of its Str is gone.
LEMMA NextIs ==
  ASSUME Holds(v, total), NEW u \in Cursors, Position(u, v, total),
         NEW w, w = Moved(u, Header(u.s, v).len),
         NEW c, c = [MoveIn(u, Header(u.s, v).len) EXCEPT
                       !.idx = IF u.idx >= Len(v) - 1 THEN @ ELSE @ + 1,
                       !.s = IF u.idx >= Len(v) - 1 THEN NULL ELSE Span_Get(v, u.idx + 1),
                       !.total = @ - Header(u.s, v).len]
  PROVE  /\ c \in Cursors /\ Stands(c, w, total) /\ c.total = u.total - Header(u.s, v).len
         /\ Holds(w, total) /\ Len(w) = Len(v)
<1> DEFINE n == Header(u.s, v).len
           m == MoveIn(u, n)
           L == Len(v)
           k == u.idx + 1
           last == u.idx >= L - 1
           i == IF last THEN u.idx ELSE u.idx + 1
           s == IF last THEN NULL ELSE Span_Get(v, u.idx + 1)
<1>1. Placed(u, v, total) /\ u.total = Rest(u, v, total) BY DEF Position
<1>2. /\ u.idx \in Nat /\ k \in 1 .. L /\ L \in Nat /\ n \in Nat /\ total \in Nat
      /\ u.offset \in Nat /\ u.total \in Nat
      /\ Until(v, total, k) \in Nat /\ Until(v, total, k) <= total /\ Until(v, total, L) = total
      /\ u.total = total - Until(v, total, k) + n
  <2>1. /\ u.idx \in Nat /\ k \in 1 .. L /\ n \in Nat
        /\ u.total = total - Until(v, total, k) + n
    BY <1>1, RestIs
  <2>2. u.offset \in Nat /\ u.total \in Nat BY DEF Cursors
  <2>3. QED BY <2>1, <2>2, StrFacts
<1>3. /\ Holds(w, total) /\ Len(w) = L /\ Whole(w, total, u.idx + 2)
      /\ \A j \in 1 .. L : Until(w, total, j) = Until(v, total, j)
                           /\ Size(w, total, j) = Size(v, total, j)
  BY <1>1, MovedIs
<1>4. c = [s |-> s, offset |-> u.offset + n, idx |-> i, total |-> u.total - n]
  <2>1. c = [m EXCEPT !.idx = IF last THEN @ ELSE @ + 1, !.s = s, !.total = @ - n] OBVIOUS
  <2> HIDE DEF s, last, n
  <2>2. \E x : m = [u EXCEPT !.offset = u.offset + n, !.s = x] BY DEF MoveIn
  <2>3. PICK x : m = [u EXCEPT !.offset = u.offset + n, !.s = x] BY <2>2
  <2> HIDE DEF m
  <2>4. m = [s |-> x, offset |-> u.offset + n, idx |-> u.idx, total |-> u.total]
    BY <2>3 DEF Cursors
  <2>5. c = [s |-> s, offset |-> m.offset, idx |-> IF last THEN m.idx ELSE m.idx + 1,
             total |-> m.total - n]
    BY <2>1, <2>4
  <2>6. m.offset = u.offset + n /\ m.idx = u.idx /\ m.total = u.total BY <2>4
  <2>7. QED BY <2>5, <2>6
<1>5. u.offset + n \in Nat /\ u.total - n \in Nat BY <1>2
<1>6. CASE last
  <2>1. u.idx = L - 1 /\ k = L BY <1>2, <1>6
  <2>2. u.total - n = 0 BY <1>2, <2>1
  <2>3. c = [s |-> NULL, offset |-> u.offset + n, idx |-> u.idx, total |-> 0]
    BY <1>4, <1>6, <2>2
  <2>4. /\ c \in Cursors /\ c.s = NULL /\ c.idx = u.idx /\ c.total = 0
    <3> DEFINE a == u.offset + n
               z == u.idx
    <3>1. a \in Nat /\ z \in Nat /\ 0 \in Nat /\ NULL \in Headers BY <1>2, <1>5, Kinds
    <3>2. c = [s |-> NULL, offset |-> a, idx |-> z, total |-> 0] BY <2>3
    <3> HIDE DEF a, z
    <3>3. /\ c \in Cursors /\ c.s = NULL /\ c.idx = z /\ c.total = 0
      BY ONLY <3>1, <3>2 DEF Cursors
    <3>4. QED BY <3>3 DEF z
  <2>5. u.idx \in 0 .. Len(w) BY <1>2, <1>3
  <2>6. Unset(c, w, total) BY <2>4, <2>5 DEF Unset
  <2>7. QED BY <1>3, <2>2, <2>4, <2>6 DEF Stands
<1>7. CASE ~last
  <2> DEFINE j == u.idx + 1
  <2>1. j \in 0 .. L - 1 /\ j \in Nat /\ j + 1 \in 1 .. L /\ k < L BY <1>2, <1>7
  <2>2. c = [s |-> Same(j), offset |-> u.offset + n, idx |-> j, total |-> u.total - n]
    BY <1>4, <1>7, <2>1 DEF Span_Get
  <2> HIDE DEF j
  <2>3. /\ c \in Cursors /\ c.s = Same(j) /\ c.idx = j /\ c.total = u.total - n
        /\ c.s.kind = "same" /\ c.s.at = j
    <3> DEFINE a == u.offset + n
               t == u.total - n
               x == Same(j)
    <3>1. /\ a \in Nat /\ t \in Nat /\ x \in Headers /\ x.kind = "same" /\ x.at = j /\ j \in Nat
      BY <1>5, <2>1, Kinds
    <3>2. c = [s |-> x, offset |-> a, idx |-> j, total |-> t] BY <2>2
    <3> HIDE DEF a, t, x
    <3>3. /\ c \in Cursors /\ c.s = x /\ c.idx = j /\ c.total = t
      BY ONLY <3>1, <3>2 DEF Cursors
    <3>4. QED BY <3>1, <3>3 DEF x, t
  <2>4. /\ w[j + 1].start = 0 /\ w[j + 1].len = Size(w, total, j + 1)
    <3>1. w[j + 1].start = 0 BY <1>3, <2>1 DEF Holds
    <3>2. j + 1 >= u.idx + 2 BY <1>2 DEF j
    <3>3. QED BY <1>3, <2>1, <3>1, <3>2 DEF Whole
  <2>5. Header(c.s, w).start = 0 /\ Header(c.s, w).len = Size(w, total, j + 1)
    BY <2>3, <2>4, HeaderIs
  <2>6. /\ Size(w, total, j + 1) \in Nat /\ Until(w, total, j + 1) \in Nat
        /\ Start(j + 1) \in Nat
        /\ Size(w, total, j + 1) = Until(w, total, j + 1) - Start(j + 1)
    BY <1>3, <2>1, StrFacts
  <2>7. Placed(c, w, total)
    <3>1. Whole(w, total, j + 2)
      <4>1. \A x \in 1 .. Len(w) : x >= j + 2 => x >= u.idx + 2
        <5> DEFINE y == u.idx
        <5>1. j = y + 1 /\ y \in Nat BY <1>2 DEF j
        <5> HIDE DEF y
        <5>2. \A x \in 1 .. Len(w) : x \in Int OBVIOUS
        <5>3. \A x \in 1 .. Len(w) : x >= j + 2 => x >= y + 2 BY ONLY <5>1, <5>2
        <5>4. QED BY <5>3 DEF y
      <4>2. QED BY <1>3, <4>1 DEF Whole
    <3>2. c.idx \in 0 .. Len(w) - 1 BY <1>3, <2>1, <2>3
    <3>3. 0 + Size(w, total, j + 1) = Size(w, total, j + 1) BY <2>6
    <3> DEFINE x == Header(c.s, w)
               z == Size(w, total, j + 1)
    <3>4. x.start = 0 /\ x.len = z /\ z \in Nat /\ 0 + z = z /\ 0 \in Nat
      BY <2>5, <2>6, <3>3
    <3>5. x.start + x.len = z BY <3>4
    <3>6. c.s.kind = "same" /\ c.s.at = c.idx /\ c.idx = j BY <2>3
    <3> HIDE DEF x, z
    <3>7. QED BY ONLY <3>1, <3>2, <3>4, <3>5, <3>6 DEF Placed, x, z
  <2>8. u.total - n = Rest(c, w, total)
    <3>1. Rest(c, w, total) = total - Until(w, total, j + 1) + Size(w, total, j + 1)
      BY <2>3, <2>5 DEF Rest
    <3>2. Rest(c, w, total) = total - Start(j + 1) BY <1>2, <2>6, <3>1
    <3>3. Until(v, total, k) = Start(k + 1) /\ k = j BY <2>1 DEF Until, j
    <3> DEFINE a == u.total
               b == Until(v, total, k)
               r == Rest(c, w, total)
    <3>4. /\ b \in Nat /\ n \in Nat /\ total \in Nat
          /\ a = total - b + n /\ r = total - b
      BY <1>2, <3>2, <3>3
    <3> HIDE DEF a, b, r, n
    <3>5. a - n = r BY ONLY <3>4
    <3>6. QED BY <3>5 DEF a, r
  <2>9. Position(c, w, total) BY <2>3, <2>7, <2>8 DEF Position
  <2>10. QED BY <1>3, <2>3, <2>9 DEF Stands
<1>8. QED BY <1>6, <1>7

\* A send to the descriptor takes all of the Str unsent is on, or fails.
LEMMA SendIs ==
  ASSUME BuffInv, source = "out", unsent.total > 0, Buff_sendToFd,
         UNCHANGED <<total, source, from, added>>
  PROVE  /\ Holds(v', total) /\ Len(v') = Len(v)
         /\ unsent' \in Cursors /\ Stands(unsent', v', total)
         /\ state' \subseteq Flags /\ to' \in {"ok", "failed"}
         /\ sent' \in Seq(Nat) /\ InOrder' /\ (Exact \/ Lost)'
         /\ unsent'.total > 0 => unsent.total > 0
<1> DEFINE u == Current(unsent)
           n == Header(u.s, v).len
           cleared == state \ {"SUCCESS", "NOOP", "PROCESSING", "MORE"}
           last == u.idx >= Len(v) - 1
<1>1. /\ u \in Cursors /\ Position(u, v, total) /\ u.total = unsent.total BY CurrentIs
<1>2. /\ Holds(v, total) /\ state \subseteq Flags /\ to \in {"ok", "failed"} /\ added = total
      /\ (Exact \/ Lost)
  BY DEF BuffInv, Typed, Vector, Reserve
<1>3. /\ added \in Nat /\ total \in Nat /\ unsent.total \in Nat /\ Place \in Nat
      /\ sent \in Seq(Nat)
  BY InvFacts
<1>4. \/ /\ to = "ok"
         /\ sent' = sent \o Bytes(u.s, v, n)
         /\ v' = Moved(u, n)
         /\ unsent' = [MoveIn(u, n) EXCEPT
                         !.idx = IF last THEN @ ELSE @ + 1,
                         !.s = IF last THEN NULL ELSE Span_Get(v, u.idx + 1),
                         !.total = @ - n]
         /\ state' = cleared \union {IF last THEN "PROCESSING" ELSE "MORE"}
         /\ to' = to
      \/ \E k \in 0 .. n - 1 :
           /\ to = "failed" => k = 0
           /\ sent' = sent \o Bytes(u.s, v, k)
           /\ unsent' = u
           /\ state' = cleared \union {"ERROR"}
           /\ to' = "failed"
           /\ v' = v
  BY DEF Buff_sendToFd
<1> HIDE DEF u, BuffInv
<1>5. Placed(u, v, total) /\ u.total = Rest(u, v, total) BY <1>1 DEF Position
<1>6. n \in Nat BY <1>1, <1>2, <1>5, RestIs
<1>7. from' = from /\ added' = added /\ source' = source /\ total' = total OBVIOUS
<1>8. ASSUME NEW k \in 0 .. n
      PROVE  /\ Bytes(u.s, v, k) \in Seq(Nat) /\ Len(Bytes(u.s, v, k)) = k
             /\ Exact => Follows(Bytes(u.s, v, k))
  <2> DEFINE b == Bytes(u.s, v, k)
  <2>1. b \in Seq(Nat) /\ Len(b) = k /\ \A j \in 1 .. k : b[j] = total - Rest(u, v, total) + j
    BY <1>1, <1>2, <1>5, BytesAre
  <2> HIDE DEF b
  <2>2. Exact => total - Rest(u, v, total) = Place
    <3> DEFINE p == Place
               x == unsent.total
    <3>1. Rest(u, v, total) = x /\ (Exact => x = total - p) /\ total \in Nat /\ p \in Nat /\ x \in Nat
      BY <1>1, <1>2, <1>3, <1>5 DEF Exact
    <3> HIDE DEF p, x
    <3>2. Exact => total - Rest(u, v, total) = p BY ONLY <3>1
    <3>3. QED BY <3>2 DEF p
  <2>3. Exact => Follows(b) BY <2>1, <2>2 DEF Follows
  <2>4. QED BY <2>1, <2>3 DEF b
<1>9. CASE /\ to = "ok"
           /\ sent' = sent \o Bytes(u.s, v, n)
           /\ v' = Moved(u, n)
           /\ unsent' = [MoveIn(u, n) EXCEPT
                           !.idx = IF last THEN @ ELSE @ + 1,
                           !.s = IF last THEN NULL ELSE Span_Get(v, u.idx + 1),
                           !.total = @ - n]
           /\ state' = cleared \union {IF last THEN "PROCESSING" ELSE "MORE"}
           /\ to' = to
  <2>1. Exact BY <1>2, <1>9 DEF Lost
  <2>2. n \in 0 .. n BY <1>6
  <2>3. Len(Bytes(u.s, v, n)) = n /\ Follows(Bytes(u.s, v, n)) BY <1>8, <2>1, <2>2
  <2>4. /\ unsent' \in Cursors /\ Stands(unsent', v', total) /\ unsent'.total = u.total - n
        /\ Holds(v', total) /\ Len(v') = Len(v)
    BY <1>1, <1>2, <1>9, NextIs
  <2>5. InOrder' /\ sent' \in Seq(Nat) /\ Place' = Place + n
    <3> DEFINE b == Bytes(u.s, v, n)
    <3>1. Follows(b) /\ Len(b) = n /\ sent' = sent \o b BY <1>9, <2>3
    <3> HIDE DEF b, n
    <3>2. InOrder' /\ sent' \in Seq(Nat) /\ Place' = Place + Len(b)
      BY <1>7, <3>1, OrderKept
    <3>3. QED BY <3>1, <3>2
  <2>6. Exact'
    <3>1. unsent.total = added - Place BY <2>1 DEF Exact
    <3>2. unsent'.total = added - (Place + n) BY <1>1, <1>3, <1>6, <2>4, <3>1
    <3>3. QED BY <1>7, <2>5, <3>2 DEF Exact
  <2>7. state' \subseteq Flags
    <3>1. state' \subseteq state \union {"PROCESSING", "MORE"} BY <1>9
    <3>2. {"PROCESSING", "MORE"} \subseteq Flags BY DEF Flags
    <3>3. QED BY <1>2, <3>1, <3>2
  <2>8. to' \in {"ok", "failed"} BY <1>9
  <2>9. QED BY <2>4, <2>5, <2>6, <2>7, <2>8
<1>10. CASE \E k \in 0 .. n - 1 :
              /\ to = "failed" => k = 0
              /\ sent' = sent \o Bytes(u.s, v, k)
              /\ unsent' = u
              /\ state' = cleared \union {"ERROR"}
              /\ to' = "failed"
              /\ v' = v
  <2>1. PICK k \in 0 .. n - 1 :
          /\ to = "failed" => k = 0
          /\ sent' = sent \o Bytes(u.s, v, k)
          /\ unsent' = u
          /\ state' = cleared \union {"ERROR"}
          /\ to' = "failed"
          /\ v' = v
    BY <1>10
  <2>2. k \in 0 .. n BY <1>6
  <2> DEFINE b == Bytes(u.s, v, k)
  <2>3. b \in Seq(Nat) /\ Len(b) = k /\ (Exact => Follows(b)) BY <1>8, <2>2
  <2>4. sent' = sent \o b BY <2>1
  <2> HIDE DEF b, n
  <2>5. Lost => b = <<>>
    <3>1. Lost => Len(b) = 0 BY <2>1, <2>3 DEF Lost
    <3>2. QED BY <2>3, <3>1
  <2>6. Follows(b) \/ b = <<>> BY <1>2, <2>3, <2>5
  <2>7. InOrder' /\ sent' \in Seq(Nat) BY <1>7, <2>4, <2>6, OrderKept
  <2>8. Lost' BY <1>7, <2>1 DEF Lost
  <2>9. unsent' \in Cursors /\ Stands(unsent', v', total)
    BY <1>1, <2>1 DEF Stands
  <2>10. state' \subseteq Flags
    <3>1. state' \subseteq state \union {"ERROR"} BY <2>1
    <3>2. {"ERROR"} \subseteq Flags BY DEF Flags
    <3>3. QED BY <1>2, <3>1, <3>2
  <2>11. Holds(v', total) /\ Len(v') = Len(v) BY <1>2, <2>1
  <2>12. QED BY <2>1, <2>7, <2>8, <2>9, <2>10, <2>11
<1>11. QED BY <1>4, <1>9, <1>10

LEMMA FlushStepStep ==
  ASSUME BuffInv, Buff_Flush_Step
  PROVE  BuffInv'
<1>1. /\ task = "flush" /\ UNCHANGED <<total, tail, source, comes, added, from, began>>
      /\ IF unsent.total > 0
         THEN Buff_sendToFd
         ELSE /\ state' = (state \ {"MORE", "NOOP", "PROCESSING"}) \union {"SUCCESS", "END"}
              /\ UNCHANGED <<v, unsent, sent, to>>
      /\ task' \in {"flush", "idle"}
  BY DEF Buff_Flush_Step
<1>2. Looping /\ Typed /\ Vector /\ Reserve /\ Standing /\ Filling /\ InOrder /\ (Exact \/ Lost)
  BY DEF BuffInv
<1>3. source = "out" /\ began = TRUE
  <2>1. source = "out" BY <1>1, <1>2 DEF Looping
  <2>2. began = TRUE BY <1>1, <1>2 DEF Filling, Typed
  <2>3. QED BY <2>1, <2>2
<1>a. added = total /\ comes = 0 BY <1>2, <1>3 DEF Reserve
<1> HIDE DEF BuffInv
<1>4. /\ Holds(v', total) /\ Len(v') = Len(v)
      /\ unsent' \in Cursors /\ Stands(unsent', v', total)
      /\ state' \subseteq Flags /\ to' \in {"ok", "failed"}
      /\ sent' \in Seq(Nat) /\ InOrder' /\ (Exact \/ Lost)'
  <2>1. CASE unsent.total > 0
    <3>1. Buff_sendToFd /\ UNCHANGED <<total, source, from, added>> BY <1>1, <2>1
    <3>2. QED BY <1>3, <2>1, <3>1, SendIs
  <2>2. CASE ~(unsent.total > 0)
    <3>1. /\ state' = (state \ {"MORE", "NOOP", "PROCESSING"}) \union {"SUCCESS", "END"}
          /\ UNCHANGED <<v, unsent, sent, to>>
      BY <1>1, <2>2
    <3>2. state' \subseteq Flags
      <4>1. state \subseteq Flags BY <1>2 DEF Typed
      <4>2. {"SUCCESS", "END"} \subseteq Flags BY DEF Flags
      <4>3. QED BY <3>1, <4>1, <4>2
    <3>3. Holds(v', total) /\ Len(v') = Len(v) BY <1>2, <3>1 DEF Vector
    <3>4. unsent' \in Cursors /\ sent' \in Seq(Nat) /\ to' \in {"ok", "failed"}
      BY <1>2, <3>1 DEF Typed
    <3>5. Stands(unsent', v', total) BY <1>2, <3>1 DEF Standing
    <3>6. InOrder' BY <1>1, <1>2, <3>1 DEF InOrder
    <3>7. (Exact \/ Lost)'
      <4>1. CASE Exact BY <1>1, <3>1, <4>1 DEF Exact, Place
      <4>2. CASE Lost BY <1>1, <1>3, <3>1, <4>2 DEF Lost
      <4>3. QED BY <1>2, <4>1, <4>2
    <3>8. QED BY <3>2, <3>3, <3>4, <3>5, <3>6, <3>7
  <2>3. QED BY <2>1, <2>2
<1>5. Typed'
  <2>1. task' \in {"idle", "flush", "pipe"} BY <1>1
  <2>2. QED BY <1>1, <1>2, <1>4, <2>1 DEF Typed
<1>6. Vector' BY <1>1, <1>2, <1>3, <1>4 DEF Vector
<1>7. Reserve' BY <1>1, <1>a DEF Reserve
<1>8. Standing' BY <1>1, <1>3, <1>4 DEF Standing
<1>9. Filling' BY <1>1, <1>3 DEF Filling
<1>10. Looping' BY <1>1, <1>3 DEF Looping
<1>11. QED BY <1>4, <1>5, <1>6, <1>7, <1>8, <1>9, <1>10 DEF BuffInv
-----------------------------------------------------------------------------
LEMMA InitStands ==
  ASSUME Init
  PROVE  BuffInv
<1>1. /\ v = <<>> /\ total = 0 /\ tail = -1
      /\ unsent = [s |-> NULL, offset |-> 0, idx |-> 0, total |-> 0]
      /\ state = {} /\ source \in {"memory", "out", "file", "socket"}
      /\ source \in {"memory", "out"} => comes = 0
      /\ comes \in 0 .. MAX_BYTES
      /\ task = "idle" /\ to = "ok"
      /\ added = 0 /\ sent = <<>> /\ from = 0 /\ began = FALSE
  BY Constants DEF Init
<1>2. unsent \in Cursors /\ unsent.s = NULL /\ unsent.idx = 0 /\ unsent.offset = 0
      /\ unsent.total = 0
  BY <1>1, Kinds DEF Cursors
<1>3. v \in Seq(Strs) /\ Len(v) = 0 /\ sent \in Seq(Nat) /\ Len(sent) = 0 BY <1>1
<1>4. Typed
  <2>1. comes \in Nat /\ added + comes <= MAX_BYTES /\ total <= MAX_BYTES /\ from <= MAX_BYTES
    BY <1>1, Constants
  <2>2. {from, added, comes, total} \subseteq Nat BY <1>1, <2>1
  <2>3. QED BY <1>1, <1>2, <1>3, <2>1, <2>2 DEF Typed, Flags
<1>5. Whole(v, total, 1) BY <1>3 DEF Whole
<1>6. Vector
  <2>1. Holds(v, total) BY <1>1, <1>3 DEF Holds
  <2>2. QED BY <1>1, <1>3, <1>5, <2>1 DEF Vector
<1>7. Reserve BY <1>1 DEF Reserve
<1>8. Standing
  <2>1. Unset(unsent, v, total) BY <1>2, <1>3 DEF Unset
  <2>2. QED BY <1>2, <2>1, Kinds DEF Standing, Stands
<1>9. Filling BY <1>1, <1>5 DEF Filling
<1>10. Looping BY <1>1 DEF Looping
<1>11. Exact
  <2>1. Place = 0 BY <1>1, <1>3 DEF Place
  <2>2. QED BY <1>1, <1>2, <2>1 DEF Exact
<1>12. InOrder BY <1>3 DEF InOrder
<1>13. QED BY <1>4, <1>6, <1>7, <1>8, <1>9, <1>10, <1>11, <1>12 DEF BuffInv

LEMMA StutterStands ==
  ASSUME BuffInv, UNCHANGED vars
  PROVE  BuffInv'
<1>1. UNCHANGED <<v, total, tail, unsent, state, source, comes, task, to, added, sent,
                  from, began>>
  BY DEF vars
<1>2. Typed' BY <1>1 DEF BuffInv, Typed
<1>3. Vector' BY <1>1 DEF BuffInv, Vector
<1>4. Reserve' BY <1>1 DEF BuffInv, Reserve
<1>5. Standing' BY <1>1 DEF BuffInv, Standing
<1>6. Filling' /\ Looping' BY <1>1 DEF BuffInv, Filling, Looping
<1>7. (Exact \/ Lost)'
  <2>1. CASE Exact BY <1>1, <2>1 DEF Exact, Place
  <2>2. CASE Lost BY <1>1, <2>2 DEF Lost
  <2>3. QED BY <2>1, <2>2 DEF BuffInv
<1>8. InOrder' BY <1>1 DEF BuffInv, InOrder
<1>9. QED BY <1>2, <1>3, <1>4, <1>5, <1>6, <1>7, <1>8 DEF BuffInv

LEMMA NextStands ==
  ASSUME ~Refill, BuffInv, [Next]_vars
  PROVE  BuffInv'
<1> HIDE DEF BuffInv
<1> USE Constants
<1>1. ASSUME NEW n \in 1 .. MAX_BYTES, Buff_AddBytes(n) PROVE BuffInv'
  <2>1. n \in Nat OBVIOUS
  <2>2. QED BY <1>1, <2>1, AddBytesStep
<1>2. ASSUME NEW amount \in 1 .. MAX_BYTES, NEW n \in 0 .. MAX_BYTES,
             NEW outcome \in ReadOutcomes, Buff_ReadAmount(amount, n, outcome)
      PROVE  BuffInv'
  <2>1. amount \in Nat /\ n \in Nat OBVIOUS
  <2>2. QED BY <1>2, <2>1, ReadAmountStep
<1>3. ASSUME NEW room \in 1 .. SEG + 1, Buff_GetStr(room) PROVE BuffInv'
  <2>1. room \in Nat OBVIOUS
  <2>2. QED BY <1>3, <2>1, GetStrStep
<1>4. ASSUME NEW p \in 0 .. MAX_BYTES, Buff_PosAbs(p) \/ Buff_PosEnd(p) PROVE BuffInv'
  <2>1. p \in Nat OBVIOUS
  <2>2. QED BY <1>4, <2>1, PosAbsStep, PosEndStep
<1>5. ASSUME NEW n \in -MAX_BYTES .. MAX_BYTES, Buff_Pos(n) PROVE BuffInv'
  <2>1. n \in Int OBVIOUS
  <2>2. QED BY <1>5, <2>1, PosStep
<1>6. ASSUME NEW p \in -1 .. MAX_BYTES, Buff_PosFd(p) PROVE BuffInv'
  <2>1. p \in Int OBVIOUS
  <2>2. QED BY <1>6, <2>1, PosFdStep
<1>7. CASE UNCHANGED vars BY <1>7, StutterStands
<1>8. QED
  BY <1>1, <1>2, <1>3, <1>4, <1>5, <1>6, <1>7, FlushStep, FlushStepStep, PipeStep,
     PipeStepStep
  DEF Next

(* The Strs of the vector hold the bytes of the stream in their order,     *)
(* unsent stands at a place among them, and what it says is left is what   *)
(* was not drained yet, or the other side of the draining has failed.      *)
(* This is so in a Buff that is filled before it is drained.               *)
THEOREM BuffInvariant ==
  ASSUME ~Refill
  PROVE  Spec => []BuffInv
<1>1. Init => BuffInv BY InitStands
<1>2. BuffInv /\ [Next]_vars => BuffInv' BY NextStands
<1>3. QED BY <1>1, <1>2, PTL DEF Spec

(* Cursors and counts of a Buff stay within its Strs and its bytes.        *)
THEOREM BuffIsTyped ==
  ASSUME ~Refill
  PROVE  Spec => []TypeOK
<1>1. ASSUME BuffInv PROVE TypeOK
  <2>1. Typed /\ Vector /\ Standing BY <1>1 DEF BuffInv
  <2>2. /\ Holds(v, total) /\ Len(v) \in Nat /\ unsent \in Cursors
        /\ added \in Nat /\ comes \in Nat /\ total \in Nat /\ from \in Nat
        /\ unsent.total \in Nat
        /\ MAX_BYTES \in Nat /\ added + comes <= MAX_BYTES /\ total <= MAX_BYTES
    BY <1>1, InvFacts
  <2> HIDE DEF BuffInv
  <2>3. \A i \in 1 .. Len(v) : v[i].len \in 0 .. SEG /\ v[i].start \in 0 .. SEG
    <3>1. \A i \in 1 .. Len(v) : /\ Size(v, total, i) \in 1 .. SEG
                                 /\ v[i].start = 0 /\ v[i].len \in {0, Size(v, total, i)}
      BY <2>2 DEF Holds
    <3>2. SEG \in Nat BY Constants
    <3>3. QED BY <3>1, <3>2
  <2>4. {total, comes, added} \subseteq 0 .. MAX_BYTES BY <2>2
  <2>5. tail \in -1 .. Len(v) - 1 BY <2>1, <2>2 DEF Vector
  <2>6. unsent.idx \in 0 .. Len(v) /\ unsent.total \in 0 .. total
    <3>1. Stands(unsent, v, total) BY <2>1 DEF Standing
    <3>2. CASE Unset(unsent, v, total) BY <2>2, <3>2 DEF Unset
    <3>3. CASE Position(unsent, v, total)
      <4>1. Placed(unsent, v, total) /\ unsent.total = Rest(unsent, v, total)
        BY <3>3 DEF Position
      <4>2. /\ unsent.idx \in Nat /\ unsent.idx + 1 \in 1 .. Len(v)
            /\ Rest(unsent, v, total) \in 0 .. total
        BY <2>2, <4>1, RestIs
      <4>3. QED BY <2>2, <4>1, <4>2
    <3>4. QED BY <3>1, <3>2, <3>3 DEF Stands
  <2>7. from \in 0 .. MAX_BYTES
    <3>1. from <= MAX_BYTES BY <2>1 DEF Typed
    <3>2. QED BY <2>2, <3>1
  <2>8. /\ state \subseteq Flags /\ source \in {"memory", "out", "file", "socket"}
        /\ task \in {"idle", "flush", "pipe", "crashed"} /\ to \in {"ok", "failed"}
        /\ began \in BOOLEAN
    BY <2>1 DEF Typed
  <2>9. QED BY <2>3, <2>4, <2>5, <2>6, <2>7, <2>8 DEF TypeOK
<1>2. QED BY <1>1, BuffInvariant, PTL

(* The bytes that leave a Buff are those behind the place the client moved *)
(* to, in order, none twice and none left out (Buff_Flush, Buff_GetStr,    *)
(* Buff_Pipe and the seeks), also when the descriptor fails.               *)
THEOREM BuffInOrder ==
  ASSUME ~Refill
  PROVE  Spec => []InOrder
<1>1. BuffInv => InOrder BY DEF BuffInv
<1>2. QED BY <1>1, BuffInvariant, PTL

(* unsent.total is what is left of the stream until the descriptor fails,  *)
(* and Buff_GetStr never goes on through the NULL that unsent.s is after   *)
(* the last Str.                                                           *)
THEOREM BuffUnsentExact ==
  ASSUME ~Refill
  PROVE  Spec => []UnsentExact
<1>1. ASSUME BuffInv PROVE UnsentExact
  <2>1. task # "crashed" /\ (Exact \/ Lost) BY <1>1 DEF BuffInv, Typed
  <2>2. to = "ok" => Exact BY <2>1 DEF Lost
  <2>3. QED BY <2>1, <2>2 DEF UnsentExact, Exact
<1>2. QED BY <1>1, BuffInvariant, PTL
-----------------------------------------------------------------------------
DirItem(c)  == [kind |-> "dir", path |-> c]
FileItem(f) == [kind |-> "file", file |-> f]

Items == {DirItem(c) : c \in DOMAIN Folders} \union {FileItem(f) : f \in Entries}

Frames == [dir : Everything, left : SUBSET Items, noop : BOOLEAN]

(* Directories that are climbed, one in the other, each with entries of its *)
(* own that are left; and what all of them have left.                       *)
Stack(s) == s \in Seq(Frames) /\ \A i \in DOMAIN s : s[i].left \subseteq Listing(s[i].dir)
Distinct(s) == \A i, j \in DOMAIN s : s[i].dir = s[j].dir => i = j
Left(s) == UNION {s[i].left : i \in DOMAIN s}

Outstanding == Left(climb)

ClimbTyped ==
  /\ use \in Uses /\ pass \in {1, 2} /\ time \in Nat
  /\ Stack(climb) /\ got \in Seq(Items)

(* With a filter only directories that it accepts are climbed.             *)
Within ==
  use = "filter" =>
    /\ \A i \in DOMAIN climb : climb[i].dir = Root \/ Accepts(pass, climb[i].dir)
    /\ \A k \in DOMAIN got :
         /\ \E f \in Entries : got[k] = FileItem(f)
         /\ got[k].file.dir = Root \/ Accepts(1, got[k].file.dir)
              \/ (pass = 2 /\ Accepts(2, got[k].file.dir))
         /\ time >= got[k].file.time

(* Without one: of the directories seen so far, what is not outstanding    *)
(* was gathered, and a directory was seen when that above it was and its   *)
(* entry is not outstanding.                                               *)
Met(seen) == FilesIn(seen) \ Outstanding

Seen(seen) ==
  /\ Root \in seen /\ seen \subseteq Everything
  /\ \A i \in DOMAIN climb : climb[i].dir \in seen /\ ~climb[i].noop
  /\ Distinct(climb)
  /\ \A c \in DOMAIN Folders :
       c \in seen <=> Folders[c] \in seen /\ DirItem(c) \notin Outstanding

Kept(seen) ==
  /\ Gathered = {e \in Met(seen) : Takes(e.file)}
                  \union IF use = "all" THEN {DirItem(c) : c \in seen \ {Root}} ELSE {}
  /\ \A i, j \in DOMAIN got : got[i] = got[j] => i = j
  /\ use = "sel" => /\ time \in {0} \union {e.file.time : e \in Met(seen)}
                    /\ \A e \in Met(seen) : time >= e.file.time

ClimbWhole == use \in {"all", "sel"} => \E seen : Seen(seen) /\ Kept(seen)

DirsInv == ClimbTyped /\ Within /\ ClimbWhole
-----------------------------------------------------------------------------
\* The entries of a directory are those that have it as their parent.
LEMMA Listed ==
  /\ \A d, c : DirItem(c) \in Listing(d) <=> c \in DOMAIN Folders /\ Folders[c] = d
  /\ \A d, f : FileItem(f) \in Listing(d) <=> f \in Entries /\ f.dir = d
  /\ \A d : Listing(d) \subseteq Items
<1>1. ASSUME NEW c, NEW f PROVE DirItem(c) # FileItem(f)
  BY DEF DirItem, FileItem
<1>2. ASSUME NEW c, NEW b, DirItem(c) = DirItem(b) PROVE c = b
  <2>1. DirItem(c).path = c /\ DirItem(b).path = b
    BY DEF DirItem
  <2>2. QED BY <1>2, <2>1
<1>3. ASSUME NEW f, NEW g, FileItem(f) = FileItem(g) PROVE f = g
  <2>1. FileItem(f).file = f /\ FileItem(g).file = g
    BY DEF FileItem
  <2>2. QED BY <1>3, <2>1
<1>4. ASSUME NEW d
      PROVE  Listing(d) = {DirItem(c) : c \in {x \in DOMAIN Folders : Folders[x] = d}}
                            \union {FileItem(f) : f \in {x \in Entries : x.dir = d}}
  BY DEF Listing, DirItem, FileItem
<1>5. QED BY <1>1, <1>2, <1>3, <1>4 DEF Items

\* An entry is in one directory.
LEMMA OneParent ==
  ASSUME NEW d, NEW b, NEW e, e \in Listing(d), e \in Listing(b)
  PROVE  d = b
<1>1. e \in Items
  BY Listed
<1>2. CASE \E c \in DOMAIN Folders : e = DirItem(c)
  BY <1>2, Listed
<1>3. CASE \E f \in Entries : e = FileItem(f)
  BY <1>3, Listed
<1>4. QED BY <1>1, <1>2, <1>3 DEF Items

\* Without the last of a sequence the others are as they were.
LEMMA FrontOf ==
  ASSUME NEW S, NEW s \in Seq(S), s # <<>>
  PROVE  /\ Front(s) \in Seq(S) /\ Len(Front(s)) = Len(s) - 1
         /\ \A i \in 1 .. Len(s) - 1 : Front(s)[i] = s[i]
<1>1. Len(s) \in Nat \ {0} /\ \A i \in 1 .. Len(s) : s[i] \in S
  OBVIOUS
<1> DEFINE m == Len(s) - 1
<1>2. m \in Nat /\ Len(s) = m + 1 /\ \A i \in 1 .. m : s[i] \in S
  BY <1>1
<1> HIDE DEF m
<1>3. /\ SubSeq(s, 1, m) \in Seq(S)
      /\ Len(SubSeq(s, 1, m)) = IF 1 <= m THEN m - 1 + 1 ELSE 0
      /\ \A i \in 1 .. m - 1 + 1 : SubSeq(s, 1, m)[i] = s[1 + i - 1]
  BY <1>2, SubSeqProperties
<1>4. /\ SubSeq(s, 1, m) \in Seq(S) /\ Len(SubSeq(s, 1, m)) = m
      /\ \A i \in 1 .. m : SubSeq(s, 1, m)[i] = s[i]
  BY <1>2, <1>3
<1>5. QED BY <1>2, <1>4 DEF Front, m

\* The last directory being climbed is replaced.
LEMMA Replaced ==
  ASSUME NEW S, NEW s \in Seq(S), s # <<>>, NEW here \in S
  PROVE  /\ Append(Front(s), here) \in Seq(S)
         /\ Len(Append(Front(s), here)) = Len(s)
         /\ \A i \in 1 .. Len(s) - 1 : Append(Front(s), here)[i] = s[i]
         /\ Append(Front(s), here)[Len(s)] = here
<1> DEFINE f == Front(s)
<1>1. Len(s) \in Nat \ {0}
  OBVIOUS
<1>2. f \in Seq(S) /\ Len(f) = Len(s) - 1 /\ \A i \in 1 .. Len(s) - 1 : f[i] = s[i]
  BY FrontOf
<1> HIDE DEF f
<1>3. /\ Append(f, here) \in Seq(S) /\ Len(Append(f, here)) = Len(s)
      /\ \A i \in 1 .. Len(s) - 1 : Append(f, here)[i] = s[i]
      /\ Append(f, here)[Len(s)] = here
  BY <1>1, <1>2
<1>4. QED BY <1>3 DEF f

\* An entry is taken: it was left in the last directory only.
LEMMA EntryTaken ==
  ASSUME NEW s, Stack(s), NEW n \in Nat \ {0}, Len(s) = n, NEW e, e \in s[n].left,
         NEW here, here.dir = s[n].dir, here.left = s[n].left \ {e},
         NEW t \in Seq(Frames), Len(t) = n,
         \A i \in 1 .. n - 1 : t[i] = s[i], t[n] = here
  PROVE  /\ Stack(t)
         /\ \A i \in 1 .. n : t[i].dir = s[i].dir
         /\ Distinct(s) => Distinct(t) /\ Left(t) = Left(s) \ {e}
<1>1. /\ DOMAIN s = 1 .. n /\ s \in Seq(Frames)
      /\ \A i \in DOMAIN s : s[i].left \subseteq Listing(s[i].dir)
  BY DEF Stack
<1>2. DOMAIN t = 1 .. n /\ DOMAIN s = (1 .. n - 1) \union {n} /\ DOMAIN t = (1 .. n - 1) \union {n}
      /\ n \notin 1 .. n - 1
  BY <1>1
<1>3. \A i \in 1 .. n : t[i].dir = s[i].dir /\ t[i].left \subseteq s[i].left
  BY <1>1, <1>2
<1>4. Stack(t)
  BY <1>1, <1>2, <1>3 DEF Stack
<1>5. ASSUME Distinct(s) PROVE Distinct(t) /\ Left(t) = Left(s) \ {e}
  <2>1. Distinct(t)
    BY <1>1, <1>2, <1>3, <1>5 DEF Distinct
  <2>2. \A i \in 1 .. n - 1 : e \notin s[i].left
    <3>1. SUFFICES ASSUME NEW i \in 1 .. n - 1, e \in s[i].left PROVE FALSE
      OBVIOUS
    <3>2. i \in DOMAIN s /\ n \in DOMAIN s /\ i # n
      BY <1>2
    <3>3. e \in Listing(s[i].dir) /\ e \in Listing(s[n].dir)
      BY <3>1, <3>2, <1>1
    <3>4. s[i].dir = s[n].dir
      BY <3>3, OneParent
    <3>5. QED BY <3>2, <3>4, <1>5 DEF Distinct
  <2>3. Left(s) = s[n].left \union UNION {s[i].left : i \in 1 .. n - 1}
    BY <1>2 DEF Left
  <2>4. Left(t) = here.left \union UNION {s[i].left : i \in 1 .. n - 1}
    <3>1. Left(t) = t[n].left \union UNION {t[i].left : i \in 1 .. n - 1}
      BY <1>2 DEF Left
    <3>2. {t[i].left : i \in 1 .. n - 1} = {s[i].left : i \in 1 .. n - 1}
      OBVIOUS
    <3>3. QED BY <3>1, <3>2
  <2>5. QED BY <2>1, <2>2, <2>3, <2>4
<1>6. QED BY <1>2, <1>3, <1>4, <1>5

\* A directory is opened: all that is in it is left.
LEMMA FramePushed ==
  ASSUME NEW s, Stack(s), NEW d \in Everything, NEW t, t = s \o <<Frame(d)>>
  PROVE  /\ Stack(t) /\ Len(t) = Len(s) + 1 /\ Len(s) \in Nat
         /\ \A i \in 1 .. Len(s) : t[i] = s[i]
         /\ t[Len(s) + 1] = Frame(d)
         /\ Left(t) = Left(s) \union Listing(d)
<1> DEFINE f == Frame(d)
           n == Len(s)
<1>1. f \in Frames /\ f.dir = d /\ f.left = Listing(d)
  BY Listed DEF Frame, Frames
<1>s. s \in Seq(Frames) /\ t = s \o <<f>>
  BY DEF Stack
<1> HIDE DEF f
<1>2. /\ t \in Seq(Frames) /\ Len(t) = n + 1 /\ n \in Nat /\ DOMAIN s = 1 .. n
      /\ \A i \in 1 .. n : t[i] = s[i]
      /\ t[n + 1] = f
  BY <1>1, <1>s
<1> HIDE DEF n
<1>3. DOMAIN t = 1 .. n + 1 /\ DOMAIN t = (1 .. n) \union {n + 1}
  BY <1>2
<1>4. Stack(t)
  BY <1>1, <1>2, <1>3 DEF Stack
<1>5. Left(t) = Left(s) \union Listing(d)
  <2>1. Left(t) = t[n + 1].left \union UNION {t[i].left : i \in 1 .. n}
    BY <1>3 DEF Left
  <2>2. {t[i].left : i \in 1 .. n} = {s[i].left : i \in DOMAIN s}
    BY <1>2
  <2>3. t[n + 1].left = Listing(d) BY <1>1, <1>2
  <2>4. Left(s) = UNION {s[i].left : i \in DOMAIN s} BY DEF Left
  <2>5. QED BY ONLY <2>1, <2>2, <2>3, <2>4
<1>6. QED BY <1>2, <1>4, <1>5 DEF n, f

\* A directory that has nothing left is done.
LEMMA FramePopped ==
  ASSUME NEW s, Stack(s), s # <<>>, s[Len(s)].left = {}, NEW t, t = Front(s)
  PROVE  /\ Stack(t) /\ Len(t) = Len(s) - 1 /\ Len(s) \in Nat \ {0}
         /\ \A i \in 1 .. Len(t) : t[i] = s[i]
         /\ Left(t) = Left(s)
<1> DEFINE n == Len(s)
<1>1. n \in Nat \ {0} /\ DOMAIN s = 1 .. n /\ s \in Seq(Frames) /\ s[n].left = {}
      /\ \A i \in 1 .. n : s[i] \in Frames
  BY DEF Stack
<1>2. /\ t \in Seq(Frames) /\ Len(t) = n - 1
      /\ \A i \in 1 .. n - 1 : t[i] = s[i]
  BY <1>1, FrontOf
<1> HIDE DEF n
<1>3. DOMAIN t = 1 .. n - 1 /\ DOMAIN s = (1 .. n - 1) \union {n}
  BY <1>1, <1>2
<1>4. Stack(t)
  BY <1>1, <1>2, <1>3 DEF Stack
<1>5. Left(t) = Left(s)
  <2>1. Left(s) = s[n].left \union UNION {s[i].left : i \in 1 .. n - 1}
    BY <1>3 DEF Left
  <2>2. {s[i].left : i \in 1 .. n - 1} = {t[i].left : i \in DOMAIN t}
    BY <1>2, <1>3
  <2>3. QED BY <1>1, <2>1, <2>2 DEF Left
<1>6. QED BY <1>1, <1>2, <1>4, <1>5 DEF n
-----------------------------------------------------------------------------
\* The directory whose entry is next.
LEMMA AtTop ==
  ASSUME ClimbTyped, climb # <<>>
  PROVE  /\ Len(climb) \in Nat \ {0} /\ DOMAIN climb = 1 .. Len(climb)
         /\ Len(climb) \in DOMAIN climb
         /\ Top = climb[Len(climb)] /\ Top \in Frames
         /\ Top.dir \in Everything /\ Top.left \subseteq Listing(Top.dir)
<1>1. Len(climb) \in Nat \ {0} /\ DOMAIN climb = 1 .. Len(climb) /\ climb \in Seq(Frames)
  BY DEF ClimbTyped, Stack
<1>2. Len(climb) \in DOMAIN climb
  BY <1>1
<1>3. Top = climb[Len(climb)]
  BY DEF Top, Last
<1>4. Top \in Frames /\ Top.left \subseteq Listing(Top.dir)
  BY <1>1, <1>2, <1>3 DEF ClimbTyped, Stack
<1>5. QED BY <1>1, <1>2, <1>3, <1>4 DEF Frames

\* An entry of that directory is taken.
LEMMA TopTaken ==
  ASSUME ClimbTyped, climb # <<>>, NEW e \in Top.left,
         NEW here \in Frames, here.dir = Top.dir, here.left = Top.left \ {e}
  PROVE  LET t == Append(Front(climb), here)
         IN  /\ Stack(t) /\ DOMAIN t = DOMAIN climb /\ Len(t) = Len(climb)
             /\ \A i \in DOMAIN climb : t[i].dir = climb[i].dir
             /\ \A i \in DOMAIN climb : t[i] = climb[i] \/ t[i] = here
             /\ Distinct(climb) => Distinct(t) /\ Left(t) = Outstanding \ {e}
<1> DEFINE t == Append(Front(climb), here)
           n == Len(climb)
<1>1. /\ n \in Nat \ {0} /\ DOMAIN climb = 1 .. n /\ Top = climb[n]
      /\ Stack(climb) /\ climb \in Seq(Frames)
  BY AtTop DEF ClimbTyped, Stack
<1>2. /\ t \in Seq(Frames) /\ Len(t) = n
      /\ \A i \in 1 .. n - 1 : t[i] = climb[i]
      /\ t[n] = here
  <2>1. /\ Append(Front(climb), here) \in Seq(Frames)
        /\ Len(Append(Front(climb), here)) = Len(climb)
        /\ \A i \in 1 .. Len(climb) - 1 : Append(Front(climb), here)[i] = climb[i]
        /\ Append(Front(climb), here)[Len(climb)] = here
    <3>1. climb \in Seq(Frames) /\ climb # <<>> /\ here \in Frames
      BY <1>1
    <3>2. QED BY ONLY <3>1, Replaced
  <2>2. QED BY <2>1
<1>3. DOMAIN t = 1 .. n
  BY <1>2
<1>n. Len(climb) = n
  OBVIOUS
<1> HIDE DEF n, t
<1>4. e \in climb[n].left /\ here.dir = climb[n].dir /\ here.left = climb[n].left \ {e}
  BY <1>1
<1>5. /\ Stack(t)
      /\ \A i \in 1 .. n : t[i].dir = climb[i].dir
      /\ Distinct(climb) => Distinct(t) /\ Left(t) = Left(climb) \ {e}
  <2>1. /\ Stack(climb) /\ n \in Nat \ {0} /\ Len(climb) = n
        /\ e \in climb[n].left /\ here.dir = climb[n].dir
        /\ here.left = climb[n].left \ {e}
        /\ t \in Seq(Frames) /\ Len(t) = n
        /\ \A i \in 1 .. n - 1 : t[i] = climb[i]
        /\ t[n] = here
    BY <1>1, <1>2, <1>n, <1>4
  <2>2. QED BY ONLY <2>1, EntryTaken
<1>6. \A i \in 1 .. n : i \in 1 .. n - 1 \/ i = n
  BY <1>1
<1>7. QED BY <1>1, <1>2, <1>3, <1>n, <1>5, <1>6 DEF Outstanding, t

\* What is gathered is put behind what was.
LEMMA GotMore ==
  ASSUME NEW s \in Seq(Items), NEW e \in Items
  PROVE  LET t == Append(s, e)
         IN  /\ t \in Seq(Items) /\ ToSet(t) = ToSet(s) \union {e}
             /\ \A k \in DOMAIN t : (k \in DOMAIN s /\ t[k] = s[k]) \/ t[k] = e
             /\ e \notin ToSet(s) /\ (\A i, j \in DOMAIN s : s[i] = s[j] => i = j)
                  => \A i, j \in DOMAIN t : t[i] = t[j] => i = j
<1> DEFINE t == Append(s, e)
           n == Len(s)
<1>1. /\ n \in Nat /\ DOMAIN s = 1 .. n /\ t \in Seq(Items) /\ DOMAIN t = 1 .. n + 1
      /\ \A i \in 1 .. n : t[i] = s[i]
      /\ t[n + 1] = e
  OBVIOUS
<1> HIDE DEF n, t
<1>2. \A k \in 1 .. n + 1 : k \in 1 .. n \/ k = n + 1
  BY <1>1
<1>3. 1 .. n \subseteq 1 .. n + 1 /\ n + 1 \in 1 .. n + 1 /\ n + 1 \notin 1 .. n
  BY <1>1
<1>4. ToSet(t) = ToSet(s) \union {e}
  BY <1>1, <1>2, <1>3 DEF ToSet
<1>5. \A k \in DOMAIN t : (k \in DOMAIN s /\ t[k] = s[k]) \/ t[k] = e
  BY <1>1, <1>2
<1>6. ASSUME e \notin ToSet(s), \A i, j \in DOMAIN s : s[i] = s[j] => i = j,
             NEW i \in DOMAIN t, NEW j \in DOMAIN t, t[i] = t[j]
      PROVE  i = j
  <2>1. \A k \in 1 .. n : s[k] # e
    BY <1>1, <1>6 DEF ToSet
  <2>2. QED BY <1>1, <1>2, <1>6, <2>1
<1>7. QED BY <1>1, <1>4, <1>5, <1>6 DEF t

\* A file is given to the function for files, or is not when NOOP is set.
LEMMA FileStep ==
  ASSUME DirsInv, climb # <<>>, NEW e \in Top.left, SeeFile(e)
  PROVE  DirsInv'
<1> DEFINE x == Top.noop \/ (use = "ext" /\ ~e.file.match)
           here == [Top EXCEPT !.left = @ \ {e}, !.noop = x]
           takes == ~Top.noop /\ Takes(e.file)
<1>1. /\ ClimbTyped /\ Within /\ ClimbWhole /\ got \in Seq(Items) /\ time \in Nat
      /\ Top \in Frames /\ Top.noop \in BOOLEAN /\ Top.dir \in Everything
      /\ Len(climb) \in DOMAIN climb /\ Top = climb[Len(climb)]
  BY AtTop DEF DirsInv, ClimbTyped, Frames
<1>2. /\ e \in Items /\ e = FileItem(e.file) /\ e.file \in Entries
      /\ e.file.dir = Top.dir /\ e.file.time \in Nat
  <2>1. e \in Listing(Top.dir) /\ e.kind = "file"
    BY AtTop, <1>1 DEF SeeFile
  <2>2. e \in Items
    BY <2>1, Listed
  <2>3. PICK f \in Entries : e = FileItem(f)
    BY <2>1, <2>2 DEF Items, DirItem
  <2>4. e.file = f
    BY <2>3 DEF FileItem
  <2>5. QED BY <2>1, <2>2, <2>3, <2>4, Listed, DirsAssumption
<1>3. /\ climb' = Append(Front(climb), here)
      /\ got' = (IF takes THEN Append(got, e) ELSE got)
      /\ time' = (IF ~Top.noop /\ use \in {"sel", "filter"} /\ e.file.time > time
                  THEN e.file.time ELSE time)
      /\ use' = use /\ pass' = pass
  BY DEF SeeFile
<1>4. x \in BOOLEAN
  BY <1>1
<1> HIDE DEF x
<1>5. here \in Frames /\ here.dir = Top.dir /\ here.left = Top.left \ {e} /\ here.noop = x
  <2>1. Top \in Frames /\ x \in BOOLEAN
    BY <1>1, <1>4
  <2> DEFINE f == Top
  <2> HIDE DEF f
  <2>2. f = Top
    BY DEF f
  <2>3. f \in Frames
    BY <2>1, <2>2
  <2>4. here = [f EXCEPT !.left = f.left \ {e}, !.noop = x]
    BY <2>2
  <2> HIDE DEF here
  <2>5. QED BY ONLY <2>1, <2>2, <2>3, <2>4 DEF Frames
<1> HIDE DEF here
<1>6. /\ Stack(climb') /\ DOMAIN climb' = DOMAIN climb
      /\ \A i \in DOMAIN climb : climb'[i].dir = climb[i].dir
      /\ \A i \in DOMAIN climb : climb'[i] = climb[i] \/ climb'[i] = here
      /\ Distinct(climb) => Distinct(climb') /\ Left(climb') = Outstanding \ {e}
  <2> DEFINE t == Append(Front(climb), here)
  <2>1. /\ ClimbTyped /\ climb # <<>> /\ e \in Top.left
        /\ here \in Frames /\ here.dir = Top.dir /\ here.left = Top.left \ {e}
    BY <1>1, <1>5
  <2>2. /\ Stack(t) /\ DOMAIN t = DOMAIN climb /\ Len(t) = Len(climb)
        /\ \A i \in DOMAIN climb : t[i].dir = climb[i].dir
        /\ \A i \in DOMAIN climb : t[i] = climb[i] \/ t[i] = here
        /\ Distinct(climb) => Distinct(t) /\ Left(t) = Outstanding \ {e}
    BY ONLY <2>1, TopTaken
  <2>3. climb' = t
    BY <1>3
  <2> HIDE DEF t
  <2>4. QED BY <2>2, <2>3
<1>7. \/ takes /\ got' = Append(got, e)
      \/ ~takes /\ got' = got
  BY <1>3
<1>8. /\ got' \in Seq(Items)
      /\ ToSet(got') = ToSet(got) \union (IF takes THEN {e} ELSE {})
      /\ \A k \in DOMAIN got' : (k \in DOMAIN got /\ got'[k] = got[k]) \/ (takes /\ got'[k] = e)
      /\ e \notin ToSet(got) /\ (\A i, j \in DOMAIN got : got[i] = got[j] => i = j)
           => \A i, j \in DOMAIN got' : got'[i] = got'[j] => i = j
  <2>1. CASE takes /\ got' = Append(got, e)
    <3>1. got \in Seq(Items) /\ e \in Items
      BY <1>1, <1>2
    <3> DEFINE t == Append(got, e)
    <3>2. /\ t \in Seq(Items) /\ ToSet(t) = ToSet(got) \union {e}
          /\ \A k \in DOMAIN t : (k \in DOMAIN got /\ t[k] = got[k]) \/ t[k] = e
          /\ e \notin ToSet(got) /\ (\A i, j \in DOMAIN got : got[i] = got[j] => i = j)
              => \A i, j \in DOMAIN t : t[i] = t[j] => i = j
      BY ONLY <3>1, GotMore
    <3>t. got' = t
      BY <2>1
    <3> HIDE DEF t
    <3> HIDE DEF takes
    <3>3. QED BY <2>1, <3>2, <3>t
  <2>2. CASE ~takes /\ got' = got
    <3> HIDE DEF takes
    <3>1. QED BY <1>1, <2>2
  <2>3. QED BY <1>7, <2>1, <2>2
<1>9. time' \in Nat /\ time' >= time
  BY <1>1, <1>2, <1>3
<1>10. ClimbTyped'
  BY <1>1, <1>3, <1>6, <1>8, <1>9 DEF ClimbTyped
<1>11. Within'
  <2> SUFFICES ASSUME use = "filter" PROVE Within'
    BY <1>3 DEF Within
  <2>1. \A i \in DOMAIN climb' : climb'[i].dir = Root \/ Accepts(pass', climb'[i].dir)
    BY <1>1, <1>3, <1>6 DEF Within
  <2>2. ASSUME NEW k \in DOMAIN got', k \in DOMAIN got, got'[k] = got[k]
        PROVE  /\ \E f \in Entries : got'[k] = FileItem(f)
               /\ got'[k].file.dir = Root \/ Accepts(1, got'[k].file.dir)
                    \/ (pass' = 2 /\ Accepts(2, got'[k].file.dir))
               /\ time' >= got'[k].file.time
    <3>1. /\ \E f \in Entries : got[k] = FileItem(f)
          /\ got[k].file.dir = Root \/ Accepts(1, got[k].file.dir)
               \/ (pass = 2 /\ Accepts(2, got[k].file.dir))
          /\ time >= got[k].file.time
      BY <1>1, <2>2 DEF Within
    <3>2. got[k].file.time \in Nat
      BY <3>1, DirsAssumption DEF FileItem
    <3>3. QED BY <1>1, <1>3, <1>9, <2>2, <3>1, <3>2
  <2>3. ASSUME NEW k \in DOMAIN got', takes, got'[k] = e
        PROVE  /\ \E f \in Entries : got'[k] = FileItem(f)
               /\ got'[k].file.dir = Root \/ Accepts(1, got'[k].file.dir)
                    \/ (pass' = 2 /\ Accepts(2, got'[k].file.dir))
               /\ time' >= got'[k].file.time
    <3>1. e.file.dir = Root \/ Accepts(pass, e.file.dir)
      BY <1>1, <1>2 DEF Within
    <3>2. pass \in {1, 2}
      BY <1>1 DEF ClimbTyped
    <3>3. time' >= e.file.time
      BY <1>1, <1>2, <1>3, <2>3
    <3>4. QED BY <1>2, <1>3, <2>3, <3>1, <3>2, <3>3
  <2>4. QED BY <1>8, <2>1, <2>2, <2>3 DEF Within
<1>12. ClimbWhole'
  <2> SUFFICES ASSUME use \in {"all", "sel"} PROVE \E seen : Seen(seen)' /\ Kept(seen)'
    BY <1>3 DEF ClimbWhole
  <2>1. PICK seen : Seen(seen) /\ Kept(seen)
    BY <1>1 DEF ClimbWhole
  <2>2. Outstanding' = Outstanding \ {e} /\ Distinct(climb')
    BY <1>6, <2>1 DEF Seen, Outstanding
  <2>3. ~Top.noop /\ Top.dir \in seen /\ ~x
    BY <1>1, <2>1 DEF Seen, x
  <2>4. \A c \in DOMAIN Folders : DirItem(c) # e
    BY <1>2 DEF DirItem, FileItem
  <2>5. Seen(seen)'
    BY <1>5, <1>6, <2>1, <2>2, <2>3, <2>4 DEF Seen
  <2>6. e \in Outstanding /\ e \in FilesIn(seen)
    <3>1. e \in Outstanding
      BY <1>1 DEF Outstanding, Left
    <3>2. e \in FilesIn(seen)
      BY <1>2, <2>3 DEF FilesIn, FileItem
    <3>3. QED BY <3>1, <3>2
  <2>7. Met(seen)' = Met(seen) \union {e} /\ e \notin Met(seen)
    BY <2>2, <2>6 DEF Met
  <2>8. e \notin Gathered
    BY <1>2, <2>1, <2>4, <2>7, DirsAssumption DEF Kept, Seen, Everything
  <2>9. takes <=> Takes(e.file)
    BY <2>3
  <2> HIDE DEF takes
  <2>10. Gathered' = {f \in Met(seen)' : Takes(f.file)'}
                       \union (IF use' = "all" THEN {DirItem(c) : c \in seen \ {Root}} ELSE {})
    <3>1. Gathered = {f \in Met(seen) : Takes(f.file)}
                       \union (IF use = "all" THEN {DirItem(c) : c \in seen \ {Root}} ELSE {})
      BY <2>1 DEF Kept
    <3>2. Gathered' = Gathered \union (IF Takes(e.file) THEN {e} ELSE {})
      BY <1>8, <2>9 DEF Gathered
    <3>3. \A f : Takes(f.file)' <=> Takes(f.file)
      BY <1>3 DEF Takes
    <3>4. QED BY <1>3, <2>7, <3>1, <3>2, <3>3
  <2>11. \A i, j \in DOMAIN got' : got'[i] = got'[j] => i = j
    BY <1>8, <2>1, <2>8 DEF Kept, Gathered
  <2>12. ASSUME use = "sel"
         PROVE  /\ time' \in {0} \union {f.file.time : f \in Met(seen)'}
                /\ \A f \in Met(seen)' : time' >= f.file.time
    <3>1. /\ time \in {0} \union {f.file.time : f \in Met(seen)}
          /\ \A f \in Met(seen) : time >= f.file.time
      BY <2>1, <2>12 DEF Kept
    <3>2. time' = IF e.file.time > time THEN e.file.time ELSE time
      BY <1>3, <2>3, <2>12
    <3>3. \A f \in Met(seen) : f.file.time \in Nat
      BY DirsAssumption DEF Met, FilesIn
    <3>4. QED BY <1>1, <1>2, <2>7, <3>1, <3>2, <3>3
  <2>13. Kept(seen)'
    BY <1>3, <2>10, <2>11, <2>12 DEF Kept
  <2>14. QED BY <2>5, <2>13
<1>13. QED BY <1>10, <1>11, <1>12 DEF DirsInv

\* A directory is given to the function for directories, and climbed if it is
\* not filtered out.
LEMMA DirStep ==
  ASSUME DirsInv, climb # <<>>, NEW e \in Top.left, OpenDir(e)
  PROVE  DirsInv'
<1> DEFINE c == e.path
           x == Rejected(c)
           here == [Top EXCEPT !.left = @ \ {e}, !.noop = x]
           t == Append(Front(climb), here)
<1>1. /\ ClimbTyped /\ Within /\ ClimbWhole /\ got \in Seq(Items) /\ time \in Nat
      /\ Top \in Frames /\ Top.noop \in BOOLEAN /\ Top.dir \in Everything
      /\ Len(climb) \in DOMAIN climb /\ Top = climb[Len(climb)]
  BY AtTop DEF DirsInv, ClimbTyped, Frames
<1>2. e \in Items /\ e = DirItem(c) /\ c \in DOMAIN Folders /\ Folders[c] = Top.dir
  <2>1. e \in Listing(Top.dir) /\ e.kind = "dir"
    BY AtTop, <1>1 DEF OpenDir
  <2>2. e \in Items
    BY <2>1, Listed
  <2>3. PICK d \in DOMAIN Folders : e = DirItem(d)
    BY <2>1, <2>2 DEF Items, FileItem
  <2>4. e.path = d
    BY <2>3 DEF DirItem
  <2>5. QED BY <2>1, <2>2, <2>3, <2>4, Listed
<1>3. /\ climb' = t \o (IF here.noop THEN <<>> ELSE <<Frame(c)>>)
      /\ got' = (IF use = "all" THEN Append(got, e) ELSE got)
      /\ use' = use /\ pass' = pass /\ time' = time
  BY DEF OpenDir
<1>4. x \in BOOLEAN /\ (x <=> use = "filter" /\ ~Accepts(pass, c))
  BY DEF Rejected
<1> HIDE DEF x, c
<1>5. here \in Frames /\ here.dir = Top.dir /\ here.left = Top.left \ {e} /\ here.noop = x
  <2>1. Top \in Frames /\ x \in BOOLEAN
    BY <1>1, <1>4
  <2> DEFINE f == Top
  <2> HIDE DEF f
  <2>2. f = Top
    BY DEF f
  <2>3. f \in Frames
    BY <2>1, <2>2
  <2>4. here = [f EXCEPT !.left = f.left \ {e}, !.noop = x]
    BY <2>2
  <2> HIDE DEF here
  <2>5. QED BY ONLY <2>1, <2>2, <2>3, <2>4 DEF Frames
<1> HIDE DEF here
<1>6. /\ Stack(t) /\ DOMAIN t = DOMAIN climb /\ Len(t) = Len(climb)
      /\ \A i \in DOMAIN climb : t[i].dir = climb[i].dir
      /\ \A i \in DOMAIN climb : t[i] = climb[i] \/ t[i] = here
      /\ Distinct(climb) => Distinct(t) /\ Left(t) = Outstanding \ {e}
  <2>1. /\ ClimbTyped /\ climb # <<>> /\ e \in Top.left
        /\ here \in Frames /\ here.dir = Top.dir /\ here.left = Top.left \ {e}
    BY <1>1, <1>5
  <2>2. QED BY ONLY <2>1, TopTaken
<1> HIDE DEF t
<1>7. /\ Stack(climb')
      /\ \A i \in DOMAIN climb' :
           \/ i \in DOMAIN climb /\ climb'[i] = t[i]
           \/ ~x /\ i \notin DOMAIN climb /\ climb'[i] = Frame(c)
      /\ DOMAIN climb \subseteq DOMAIN climb'
      /\ \A i, j \in DOMAIN climb' : i \notin DOMAIN climb /\ j \notin DOMAIN climb => i = j
      /\ ~x => Left(climb') = Left(t) \union Listing(c)
  <2>1. CASE x
    <3>1. climb' = t \o <<>> /\ t \in Seq(Frames)
      BY <1>3, <1>5, <1>6, <2>1 DEF Stack
    <3>2. climb' = t
      BY <3>1
    <3>3. QED BY <1>6, <2>1, <3>2
  <2>2. CASE ~x
    <3>1. climb' = t \o <<Frame(c)>> /\ c \in Everything
      BY <1>2, <1>3, <1>5, <2>2 DEF Everything
    <3> DEFINE u == t \o <<Frame(c)>>
    <3>2. /\ Stack(u) /\ Len(u) = Len(t) + 1 /\ Len(t) \in Nat
          /\ \A i \in 1 .. Len(t) : u[i] = t[i]
          /\ u[Len(t) + 1] = Frame(c)
          /\ Left(u) = Left(t) \union Listing(c)
      <4>1. Stack(t) /\ c \in Everything
        BY <1>6, <3>1
      <4>2. QED BY <4>1, FramePushed
    <3>3. climb' = u
      BY <3>1
    <3> HIDE DEF u
    <3>4. DOMAIN u = 1 .. Len(t) + 1 /\ DOMAIN t = 1 .. Len(t)
      BY <1>6, <3>2 DEF Stack
    <3>5. QED BY <1>6, <2>2, <3>2, <3>3, <3>4
  <2>3. QED BY <1>4, <2>1, <2>2
<1>8. Frame(c).dir = c /\ Frame(c).left = Listing(c) /\ ~Frame(c).noop
  BY DEF Frame
<1> DEFINE g == Append(got, e)
<1>9. /\ g \in Seq(Items) /\ ToSet(g) = ToSet(got) \union {e}
      /\ e \notin ToSet(got) /\ (\A i, j \in DOMAIN got : got[i] = got[j] => i = j)
          => \A i, j \in DOMAIN g : g[i] = g[j] => i = j
  BY <1>1, <1>2, GotMore
<1>10. \/ use = "all" /\ got' = g
       \/ use # "all" /\ got' = got
  BY <1>3
<1> HIDE DEF g
<1>11. ClimbTyped'
  BY <1>1, <1>3, <1>7, <1>9, <1>10 DEF ClimbTyped
<1>12. Within'
  <2> SUFFICES ASSUME use = "filter" PROVE Within'
    BY <1>3 DEF Within
  <2>1. \A i \in DOMAIN climb' : climb'[i].dir = Root \/ Accepts(pass', climb'[i].dir)
    <3>1. \A i \in DOMAIN climb : t[i].dir = Root \/ Accepts(pass, t[i].dir)
      BY <1>1, <1>6 DEF Within
    <3>2. ~x => Accepts(pass, c)
      BY <1>4
    <3>3. QED BY <1>3, <1>7, <1>8, <3>1, <3>2
  <2>2. QED BY <1>1, <1>3, <1>10, <2>1 DEF Within
<1>13. ClimbWhole'
  <2> SUFFICES ASSUME use \in {"all", "sel"} PROVE \E seen : Seen(seen)' /\ Kept(seen)'
    BY <1>3 DEF ClimbWhole
  <2>1. PICK before : Seen(before) /\ Kept(before)
    BY <1>1 DEF ClimbWhole
  <2> DEFINE seen == before \union {c}
  <2>2. ~x
    BY <1>4
  <2>3. e \in Outstanding /\ Top.dir \in before /\ c \in Everything /\ c # Root
    BY <1>1, <1>2, <2>1, DirsAssumption DEF Outstanding, Left, Seen, Everything
  <2>4. c \notin before
    BY <1>2, <2>1, <2>3 DEF Seen
  <2>5. /\ Outstanding' = (Outstanding \ {e}) \union Listing(c)
        /\ Distinct(t)
    BY <1>6, <1>7, <2>1, <2>2 DEF Seen, Outstanding
  <2>6. \A i \in DOMAIN climb : t[i].dir \in before /\ ~t[i].noop
    BY <1>5, <1>6, <2>1, <2>2 DEF Seen
  <2>7. \A i \in DOMAIN climb' : climb'[i].dir \in seen /\ ~climb'[i].noop
    BY <1>7, <1>8, <2>6
  <2>8. Distinct(climb')
    <3>1. SUFFICES ASSUME NEW i \in DOMAIN climb', NEW j \in DOMAIN climb',
                          climb'[i].dir = climb'[j].dir
                   PROVE  i = j
      BY DEF Distinct
    <3>2. CASE i \in DOMAIN climb /\ j \in DOMAIN climb
      BY <1>6, <1>7, <2>5, <3>1, <3>2 DEF Distinct
    <3>3. CASE i \notin DOMAIN climb \/ j \notin DOMAIN climb
      BY <1>7, <1>8, <2>4, <2>6, <3>1, <3>3
    <3>4. QED BY <3>2, <3>3
  <2>9. \A d \in DOMAIN Folders : d \in seen <=> Folders[d] \in seen /\ DirItem(d) \notin Outstanding'
    <3>1. SUFFICES ASSUME NEW d \in DOMAIN Folders
                   PROVE  d \in seen <=> Folders[d] \in seen /\ DirItem(d) \notin Outstanding'
      OBVIOUS
    <3>2. d \in before <=> Folders[d] \in before /\ DirItem(d) \notin Outstanding
      BY <2>1 DEF Seen
    <3>3. DirItem(d) \in Listing(c) <=> Folders[d] = c
      BY Listed
    <3>4. DirItem(d) = e <=> d = c
      <4>1. DirItem(d).path = d /\ DirItem(c).path = c
        BY DEF DirItem
      <4>2. QED BY <1>2, <4>1
    <3>5. Folders[c] \in before
      BY <1>2, <2>3
    <3>6. QED BY <2>4, <2>5, <3>2, <3>3, <3>4, <3>5
  <2>10. Seen(seen)'
    BY <2>1, <2>3, <2>7, <2>8, <2>9 DEF Seen
  <2>11. Met(seen)' = Met(before)
    <3>1. FilesIn(seen) = FilesIn(before) \union FilesIn({c})
      BY DEF FilesIn
    <3>2. FilesIn({c}) \subseteq Listing(c)
      BY DEF FilesIn, Listing
    <3>3. \A f \in FilesIn(before) : f \notin Listing(c) /\ f # e
      <4>1. SUFFICES ASSUME NEW f \in FilesIn(before) PROVE f \notin Listing(c) /\ f # e
        OBVIOUS
      <4>2. PICK h \in Entries : f = FileItem(h) /\ h.dir \in before
        BY DEF FilesIn, FileItem
      <4>3. f \notin Listing(c)
        BY <2>4, <4>2, Listed
      <4>4. f # e
        BY <1>2, <4>2 DEF DirItem, FileItem
      <4>5. QED BY <4>3, <4>4
    <3>4. QED BY <2>5, <3>1, <3>2, <3>3 DEF Met
  <2>12. e \notin Gathered
    <3>1. \A f \in Met(before) : f # e
      BY <1>2 DEF Met, FilesIn, DirItem
    <3>2. \A d \in before : DirItem(d) # e
      <4>1. SUFFICES ASSUME NEW d \in before, DirItem(d) = e PROVE FALSE
        OBVIOUS
      <4>2. DirItem(d).path = d /\ DirItem(c).path = c
        BY DEF DirItem
      <4>3. QED BY <1>2, <2>4, <4>1, <4>2
    <3>3. Gathered = {f \in Met(before) : Takes(f.file)}
                       \union (IF use = "all" THEN {DirItem(d) : d \in before \ {Root}} ELSE {})
      BY <2>1 DEF Kept
    <3>4. QED BY <3>1, <3>2, <3>3
  <2>13. Gathered' = {f \in Met(seen)' : Takes(f.file)'}
                       \union (IF use' = "all" THEN {DirItem(d) : d \in seen \ {Root}} ELSE {})
    <3>1. Gathered = {f \in Met(before) : Takes(f.file)}
                       \union (IF use = "all" THEN {DirItem(d) : d \in before \ {Root}} ELSE {})
      BY <2>1 DEF Kept
    <3>2. Gathered' = Gathered \union (IF use = "all" THEN {e} ELSE {})
      BY <1>9, <1>10 DEF Gathered
    <3>3. \A f : Takes(f.file)' <=> Takes(f.file)
      BY <1>3 DEF Takes
    <3>4. {DirItem(d) : d \in seen \ {Root}} = {DirItem(d) : d \in before \ {Root}} \union {e}
      BY <1>2, <2>3
    <3>5. QED BY <1>3, <2>11, <3>1, <3>2, <3>3, <3>4
  <2>14. \A i, j \in DOMAIN got' : got'[i] = got'[j] => i = j
    BY <1>9, <1>10, <2>1, <2>12 DEF Kept, Gathered
  <2>15. Kept(seen)'
    BY <1>3, <2>1, <2>11, <2>13, <2>14 DEF Kept
  <2>16. QED BY <2>10, <2>15
<1>14. QED BY <1>11, <1>12, <1>13 DEF DirsInv

\* The end of a directory: what was outstanding still is.
LEMMA CloseStep ==
  ASSUME DirsInv, CloseDir
  PROVE  DirsInv'
<1>1. /\ ClimbTyped /\ Within /\ ClimbWhole /\ climb # <<>> /\ Top.left = {}
      /\ climb' = Front(climb) /\ use' = use /\ pass' = pass /\ got' = got /\ time' = time
  BY DEF DirsInv, CloseDir
<1>2. Top = climb[Len(climb)] /\ Stack(climb)
  BY <1>1, AtTop DEF ClimbTyped
<1> DEFINE t == Front(climb)
<1>3. /\ Stack(t) /\ Len(t) = Len(climb) - 1 /\ Len(climb) \in Nat \ {0}
      /\ \A i \in 1 .. Len(t) : t[i] = climb[i]
      /\ Left(t) = Left(climb)
  <2>1. Stack(climb) /\ climb # <<>> /\ climb[Len(climb)].left = {}
    BY <1>1, <1>2
  <2>2. QED BY <2>1, FramePopped
<1>4. climb' = t
  BY <1>1
<1> HIDE DEF t
<1>5. DOMAIN t \subseteq DOMAIN climb /\ \A i \in DOMAIN t : t[i] = climb[i]
  <2>1. DOMAIN t = 1 .. Len(t) /\ DOMAIN climb = 1 .. Len(climb)
    BY <1>2, <1>3 DEF Stack
  <2>2. QED BY <1>3, <2>1
<1>6. ClimbTyped'
  BY <1>1, <1>3, <1>4 DEF ClimbTyped
<1>7. Within'
  BY <1>1, <1>4, <1>5 DEF Within
<1>8. ClimbWhole'
  <2> SUFFICES ASSUME use \in {"all", "sel"} PROVE \E seen : Seen(seen)' /\ Kept(seen)'
    BY <1>1 DEF ClimbWhole
  <2>1. PICK seen : Seen(seen) /\ Kept(seen)
    BY <1>1 DEF ClimbWhole
  <2>2. Outstanding' = Outstanding
    BY <1>3, <1>4 DEF Outstanding
  <2>3. Distinct(climb')
    BY <1>4, <1>5, <2>1 DEF Seen, Distinct
  <2>4. Seen(seen)'
    BY <1>4, <1>5, <2>1, <2>2, <2>3 DEF Seen
  <2>5. Kept(seen)'
    BY <1>1, <2>1, <2>2 DEF Kept, Met, Gathered, Takes
  <2>6. QED BY <2>4, <2>5
<1>9. QED BY <1>6, <1>7, <1>8 DEF DirsInv

\* The climb of the root, with which a pass begins.
LEMMA FromRoot ==
  /\ Stack(<<Frame(Root)>>) /\ DOMAIN <<Frame(Root)>> = {1}
  /\ <<Frame(Root)>>[1] = Frame(Root)
  /\ Frame(Root).dir = Root /\ Frame(Root).left = Listing(Root) /\ ~Frame(Root).noop
<1>1. Frame(Root).dir = Root /\ Frame(Root).left = Listing(Root) /\ Frame(Root).noop = FALSE
  BY DEF Frame
<1>2. Frame(Root) \in Frames
  BY Listed DEF Frame, Frames, Everything
<1> DEFINE f == Frame(Root)
<1> HIDE DEF f
<1>3. f \in Frames => <<f>> \in Seq(Frames) /\ DOMAIN <<f>> = {1} /\ <<f>>[1] = f
  OBVIOUS
<1>4. QED BY <1>1, <1>2, <1>3 DEF f, Stack

\* The second pass gathers into the same list.
LEMMA SecondStep ==
  ASSUME DirsInv, SecondPass
  PROVE  DirsInv'
<1>1. /\ ClimbTyped /\ Within /\ use = "filter" /\ pass = 1 /\ pass' = 2
      /\ climb' = <<Frame(Root)>> /\ use' = use /\ got' = got /\ time' = time
  BY DEF DirsInv, SecondPass
<1>2. ClimbTyped'
  BY <1>1, FromRoot DEF ClimbTyped
<1>3. Within'
  BY <1>1, FromRoot DEF Within
<1>4. ClimbWhole'
  BY <1>1 DEF ClimbWhole
<1>5. QED BY <1>2, <1>3, <1>4 DEF DirsInv
-----------------------------------------------------------------------------
\* At first the root is being climbed and nothing of it was seen.
LEMMA DirsInitInv == DirInit => DirsInv
<1> SUFFICES ASSUME DirInit PROVE DirsInv
  OBVIOUS
<1>1. /\ use \in Uses /\ pass = 1 /\ climb = <<Frame(Root)>> /\ got = <<>> /\ time = 0
  BY DEF DirInit
<1>2. got \in Seq(Items) /\ DOMAIN got = {}
  BY <1>1
<1>3. ClimbTyped
  BY <1>1, <1>2, FromRoot DEF ClimbTyped
<1>4. Within
  BY <1>1, <1>2, FromRoot DEF Within
<1>5. ClimbWhole
  <2>1. Outstanding = Listing(Root)
    BY <1>1, FromRoot DEF Outstanding, Left
  <2>2. Seen({Root})
    <3>1. Distinct(climb)
      BY <1>1, FromRoot DEF Distinct
    <3>2. \A c \in DOMAIN Folders :
            c \in {Root} <=> Folders[c] \in {Root} /\ DirItem(c) \notin Outstanding
      BY <2>1, Listed, DirsAssumption
    <3>3. QED BY <1>1, <3>1, <3>2, FromRoot DEF Seen, Everything
  <2>3. Met({Root}) = {}
    <3>1. FilesIn({Root}) \subseteq Listing(Root)
      BY DEF FilesIn, Listing
    <3>2. QED BY <2>1, <3>1 DEF Met
  <2>4. Gathered = {}
    BY <1>2 DEF Gathered, ToSet
  <2>5. Kept({Root})
    BY <1>1, <1>2, <2>3, <2>4 DEF Kept
  <2>6. QED BY <2>2, <2>5 DEF ClimbWhole
<1>6. QED BY <1>3, <1>4, <1>5 DEF DirsInv

\* Every entry, end of a directory and pass keeps the invariant.
LEMMA DirsStepInv == DirsInv /\ [DirNext]_dirvars => DirsInv'
<1> SUFFICES ASSUME DirsInv, [DirNext]_dirvars PROVE DirsInv'
  OBVIOUS
<1>1. CASE UNCHANGED dirvars
  BY <1>1 DEF dirvars, DirsInv, ClimbTyped, Within, ClimbWhole, Seen, Kept, Met, Outstanding,
              Gathered, Takes
<1>2. CASE climb # <<>> /\ \E e \in Top.left : OpenDir(e) \/ SeeFile(e)
  BY <1>2, DirStep, FileStep
<1>3. CASE CloseDir
  BY <1>3, CloseStep
<1>4. CASE SecondPass
  BY <1>4, SecondStep
<1>5. QED BY <1>1, <1>2, <1>3, <1>4 DEF DirNext

(* Without a filter: of the directories that were seen, what is not        *)
(* outstanding was gathered, once; with one, nothing below a directory     *)
(* that it leaves out (Dir_Climb and what it calls).                       *)
THEOREM DirsInvariant == DirSpec => []DirsInv
<1>1. QED BY DirsInitInv, DirsStepInv, PTL DEF DirSpec

\* With nothing outstanding the directories that were seen are all there are.
LEMMA AllSeen ==
  ASSUME climb = <<>>, NEW seen, Seen(seen)
  PROVE  seen = Everything /\ Outstanding = {}
<1>1. Outstanding = {}
  BY DEF Outstanding, Left
<1>2. QED BY <1>1, DirsAssumption DEF Seen

\* The latest of some times is the one that is not before any of them.
LEMMA LatestIs ==
  ASSUME NEW es, \A e \in es : e.file.time \in Nat,
         NEW t \in {0} \union {e.file.time : e \in es}, \A e \in es : t >= e.file.time
  PROVE  t = Latest(es)
<1> DEFINE Is(u) == u \in {0} \union {e.file.time : e \in es} /\ \A e \in es : u >= e.file.time
<1>1. Is(t)
  OBVIOUS
<1>2. Is(Latest(es))
  BY <1>1 DEF Latest
<1>3. ASSUME NEW u, Is(u) PROVE u = t
  <2>1. u \in Nat /\ t \in Nat
    BY <1>3
  <2>2. u >= t /\ t >= u
    BY <1>3, <2>1
  <2>3. QED BY <2>1, <2>2
<1>4. QED BY <1>2, <1>3

(* In whatever order the entries come, without a filter everything there   *)
(* is to be gathered is gathered, once, and the time is that of the latest *)
(* file; with one nothing is gathered from within a directory it leaves    *)
(* out (Dir_Gather, Dir_GatherSel, Dir_GatherFilterDir).                   *)
THEOREM DirsGatherExact == DirSpec => []GatherExact
<1>1. DirsInv => GatherExact
  <2> SUFFICES ASSUME DirsInv PROVE GatherExact
    OBVIOUS
  <2>1. ClimbTyped /\ Within /\ ClimbWhole
    BY DEF DirsInv
  <2>2. ASSUME climb = <<>>, use \in {"all", "sel"}
        PROVE  /\ Gathered = {e \in FilesIn(Everything) : Takes(e.file)} \union
                     IF use = "all"
                     THEN UNION {{e \in Listing(d) : e.kind = "dir"} : d \in Everything}
                     ELSE {}
               /\ \A e \in Gathered : ~Twice(e)
               /\ use = "sel" => time = Latest(FilesIn(Everything))
    <3>1. PICK seen : Seen(seen) /\ Kept(seen)
      BY <2>1, <2>2 DEF ClimbWhole
    <3>2. seen = Everything /\ Met(seen) = FilesIn(Everything)
      BY <2>2, <3>1, AllSeen DEF Met
    <3>3. UNION {{e \in Listing(d) : e.kind = "dir"} : d \in Everything}
            = {DirItem(c) : c \in Everything \ {Root}}
      <4>1. \A d : {e \in Listing(d) : e.kind = "dir"}
                    = {DirItem(c) : c \in {x \in DOMAIN Folders : Folders[x] = d}}
        BY DEF Listing, DirItem
      <4>2. Everything \ {Root} = DOMAIN Folders
        BY DirsAssumption DEF Everything
      <4>3. \A c \in DOMAIN Folders : Folders[c] \in Everything
        BY DirsAssumption
      <4>4. QED BY <4>1, <4>2, <4>3
    <3>4. Gathered = {e \in FilesIn(Everything) : Takes(e.file)}
                       \union (IF use = "all" THEN {DirItem(c) : c \in Everything \ {Root}} ELSE {})
      BY <3>1, <3>2 DEF Kept
    <3>5. \A e \in Gathered : ~Twice(e)
      BY <3>1 DEF Kept, Twice
    <3>6. ASSUME use = "sel" PROVE time = Latest(FilesIn(Everything))
      <4>1. \A e \in FilesIn(Everything) : e.file.time \in Nat
        BY DirsAssumption DEF FilesIn
      <4>2. /\ time \in {0} \union {e.file.time : e \in FilesIn(Everything)}
            /\ \A e \in FilesIn(Everything) : time >= e.file.time
        BY <3>1, <3>2, <3>6 DEF Kept
      <4>3. QED BY <4>1, <4>2, LatestIs
    <3>7. QED BY <3>3, <3>4, <3>5, <3>6
  <2>3. ASSUME use = "filter", NEW e \in Gathered
        PROVE  /\ e.file.dir = Root \/ Accepts(1, e.file.dir) \/ (pass = 2 /\ Accepts(2, e.file.dir))
               /\ time >= e.file.time
    BY <2>1, <2>3 DEF Within, Gathered, ToSet
  <2>4. QED BY <2>2, <2>3 DEF GatherExact
<1>2. QED BY <1>1, DirsInvariant, PTL
=============================================================================
