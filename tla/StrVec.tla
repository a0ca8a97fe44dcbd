------------------------------- MODULE StrVec -------------------------------
(***************************************************************************)
(* Texts kept as a list of byte ranges, src/src/mod/base/bytes/strvec.c    *)
(* and str.c, and the comparison of two of them, str_equals.c.  A Str is   *)
(* held by pointer: adding a StrVec to another shares its Strs, so that    *)
(* what is done to a Str in place is done to both.  A caller has two       *)
(* pointers, v and w, each to one of two vectors or both to the same, and  *)
(* mixes the operations: adding at the end, going back to an anchor,       *)
(* taking off the front, copying and realigning.                           *)
(***************************************************************************)
EXTENDS Integers, Sequences
LOCAL INSTANCE SequencesExt
LOCAL INSTANCE FiniteSetsExt
LOCAL INSTANCE Functions

CONSTANTS
  Pieces,       (* the bytes of one Str, or given to be added              *)
  Control,      (* the bytes that are not text (below 32)                  *)
  SLOT,         (* bytes compared at a time (8)                            *)
  STR_DEFAULT,  (* bytes of a Str made to be filled (512)                  *)
  STR_MAX,      (* bytes a single Str may have (2048)                      *)
  MAX_STRS,     (* bound: Strs ever made                                   *)
  MAX_TEXT,     (* bound: bytes of one vector                              *)
  MAX_OPS       (* bound: operations                                       *)

Pointers == {"v", "w"}
Vectors  == {1, 2}

VARIABLES
  strs,   (* every Str made: its bytes, and its alloc                      *)
  at,     (* the vector each pointer holds                                 *)
  vec,    (* p (the Strs, by index in strs), total, anchor and flags       *)
  text,   (* what each vector was made to say (history)                    *)
  mark,   (* what it said when it was anchored (history)                   *)
  ops     (* operations left (a bound)                                     *)

strvars == <<strs, at, vec, text, mark, ops>>

Other(x) == IF x = "v" THEN "w" ELSE "v"
Orig(x)  == vec[at[Other(x)]]
New(x)   == CHOOSE o \in Vectors : o # at[Other(x)]

Str(bytes, alloc) == [bytes |-> bytes, alloc |-> alloc]

(* Str_Add: what there is no room for is left out (and flagged).           *)
Str_Add(s, bytes) ==
  [s EXCEPT !.bytes = @ \o SubSeq(bytes, 1, Min({Len(bytes), s.alloc - Len(@)}))]

(* Str_Incr: the bytes start later; the room is counted from there.        *)
Str_Incr(s, n) ==
  [s EXCEPT !.bytes = IF Len(@) > n THEN SubSeq(@, n + 1, Len(@)) ELSE <<>>]

BytesOf(h, p) == [i \in DOMAIN p |-> h[p[i]].bytes]
Joined(h, p)  == FlattenSeq(BytesOf(h, p))
Lengths(h, p) == FoldLeft(LAMBDA sum, id : sum + Len(h[id].bytes), 0, p)

StrVec_Make ==
  [p |-> <<>>, total |-> 0, anchor |-> -1, aligned |-> FALSE, noshrink |-> FALSE]

(* StrVec_Add and StrVec_AddVec: the same Strs in another vector.          *)
StrVec_Add(h, y, id) == [y EXCEPT !.p = Append(@, id), !.total = @ + Len(h[id].bytes)]

StrVec_AddVec(h, y, p) == FoldLeft(LAMBDA acc, id : StrVec_Add(h, acc, id), y, p)

(* StrVec_SubVec and StrVec_AddVecAfter take the Strs from an index on.    *)
After(p, idx) == SubSeq(p, idx + 1, Len(p))

-----------------------------------------------------------------------------
StrVecInit ==
  /\ strs = <<>>
  /\ at = [x \in Pointers |-> IF x = "v" THEN 1 ELSE 2]
  /\ vec = [o \in Vectors |-> StrVec_Make]
  /\ text = [o \in Vectors |-> <<>>]
  /\ mark = [o \in Vectors |-> <<>>]
  /\ ops = MAX_OPS

Room(n) == Len(strs) + n <= MAX_STRS

Fits(o, bytes) == Len(text[o]) + Len(bytes) <= MAX_TEXT

(* The build tool's own paths may not shrink (programs/buildeka/main.c).   *)
NoShrink(o) ==
  /\ ~vec[o].noshrink
  /\ vec' = [vec EXCEPT ![o].noshrink = TRUE]
  /\ UNCHANGED <<strs, at, text, mark>>

(* A new Str at the end; literals have room for one byte more.             *)
Add(o, bytes, room) ==
  /\ Room(1) /\ Fits(o, bytes)
  /\ strs' = Append(strs, Str(bytes, Len(bytes) + room))
  /\ vec' = [vec EXCEPT ![o] = StrVec_Add(strs', @, Len(strs'))]
  /\ text' = [text EXCEPT ![o] = @ \o bytes]
  /\ UNCHANGED <<at, mark>>

(* The Strs of another vector, from an index on.                           *)
AddVecAfter(x, idx) ==
  LET o == at[x]
      p == After(Orig(x).p, idx)
  IN  /\ o # at[Other(x)] /\ p # <<>>
      /\ Fits(o, Joined(strs, p)) /\ Len(vec[o].p) + Len(p) <= MAX_STRS
      /\ vec' = [vec EXCEPT ![o] = StrVec_AddVec(strs, @, p)]
      /\ text' = [text EXCEPT ![o] = @ \o Joined(strs, p)]
      /\ UNCHANGED <<strs, at, mark>>

(* StrVec_AddChain with the pointers its callers give: a separator, and a  *)
(* string to be copied, which goes into the last Str if there is room, or  *)
(* with it into a Str that takes its place.  A vector is added as it is.   *)
(* Nobody gives a string to be copied behind a Str with room for it: the   *)
(* first branch, which leaves the total as it was, is not taken.           *)
ChainStr(h, y, bytes) ==
  LET last == h[Last(y.p)]
  IN  IF Len(last.bytes) + Len(bytes) < last.alloc
      THEN [h |-> [h EXCEPT ![Last(y.p)] = Str_Add(@, bytes)], y |-> y]
      ELSE [h |-> Append(h, Str(last.bytes \o bytes, Len(last.bytes) + Len(bytes) + 1)),
            y |-> [y EXCEPT !.p = Append(Front(@), Len(h) + 1), !.total = @ + Len(bytes)]]

AddChain(o, sep, bytes) ==
  /\ Room(2) /\ Fits(o, sep \o bytes)
  /\ LET h == Append(strs, Str(sep, Len(sep)))
         chain == ChainStr(h, StrVec_Add(h, vec[o], Len(h)), bytes)
     IN  /\ strs' = chain.h
         /\ vec' = [vec EXCEPT ![o] = chain.y]
  /\ text' = [text EXCEPT ![o] = @ \o sep \o bytes]
  /\ UNCHANGED <<at, mark>>

(* StrVec_AddBytes fills the last Str and makes more.  Its callers (Cursor *)
(* and Snip) give it a vector they filled in that way: it is not anchored, *)
(* and no other vector holds its Strs.                                     *)
Filled(o) ==
  /\ vec[o].anchor = -1 /\ IsInjective(vec[o].p)
  /\ \A i \in DOMAIN vec[o].p : strs[vec[o].p[i]].alloc = STR_DEFAULT
  /\ \A other \in Vectors \ {o} : ToSet(vec[o].p) \cap ToSet(vec[other].p) = {}

Chunks(bytes, size) ==
  [i \in 1 .. (Len(bytes) + size - 1) \div size |->
     SubSeq(bytes, (i - 1) * size + 1, Min({Len(bytes), i * size}))]

AddBytesRoom(o) ==
  IF vec[o].p = <<>> THEN 0
  ELSE strs[Last(vec[o].p)].alloc - Len(strs[Last(vec[o].p)].bytes)

AddBytes(o, bytes) ==
  LET take == Min({AddBytesRoom(o), Len(bytes)})
      rest == Chunks(SubSeq(bytes, take + 1, Len(bytes)), STR_DEFAULT)
      h == IF take = 0 THEN strs
           ELSE [strs EXCEPT ![Last(vec[o].p)] = Str_Add(@, SubSeq(bytes, 1, take))]
  IN  /\ bytes # <<>> /\ Filled(o) /\ Room(Len(rest)) /\ Fits(o, bytes)
      /\ strs' = h \o [i \in DOMAIN rest |-> Str(rest[i], STR_DEFAULT)]
      /\ vec' = [vec EXCEPT ![o].p = @ \o [i \in DOMAIN rest |-> Len(h) + i],
                            ![o].total = @ + Len(bytes)]
      /\ text' = [text EXCEPT ![o] = @ \o bytes]
      /\ UNCHANGED <<at, mark>>

-----------------------------------------------------------------------------
(* StrVec_PopTo: the Strs behind an index go, from the last on; an Error   *)
(* of a vector that may not shrink, as Pop, Anchor, Return and ReAlign.    *)
PopTo(h, y, idx) ==
  LET kept == SubSeq(y.p, 1, Min({idx + 1, Len(y.p)}))
  IN  IF y.noshrink THEN y
      ELSE [y EXCEPT !.p = kept, !.total = @ - Lengths(h, After(y.p, Len(kept)))]

(* What is said before the last Str.  No caller has it anchored: the       *)
(* anchor would outlive what it stands for.                                *)
Pop(o) ==
  /\ vec[o].total # 0 /\ vec[o].anchor = -1
  /\ vec' = [vec EXCEPT ![o] = PopTo(strs, @, Len(@.p) - 2)]
  /\ text' = [text EXCEPT ![o] = IF vec[o].noshrink THEN @
                                 ELSE SubSeq(@, 1, Len(@) - Len(strs[Last(vec[o].p)].bytes))]
  /\ UNCHANGED <<strs, at, mark>>

(* Setting an anchor twice is an Error; that of an empty vector is none.   *)
Anchor(o) ==
  /\ vec[o].anchor = -1 /\ ~vec[o].noshrink
  /\ vec' = [vec EXCEPT ![o].anchor = Len(vec[o].p) - 1]
  /\ mark' = [mark EXCEPT ![o] = text[o]]
  /\ UNCHANGED <<strs, at, text>>

(* The anchor stays, for the next Return.                                  *)
Return(o) ==
  /\ vec[o].anchor # -1
  /\ vec' = [vec EXCEPT ![o] = PopTo(strs, @, @.anchor)]
  /\ text' = [text EXCEPT ![o] = IF vec[o].noshrink THEN @ ELSE mark[o]]
  /\ UNCHANGED <<strs, at, mark>>

(* StrVec_Incr takes bytes off the front: a Str that stays in part is      *)
(* cloned, for others may hold it.  It is never called on an anchored      *)
(* vector, and does not ask whether the vector may shrink.                 *)
Dropped(o, n) == Max({0} \union {k \in DOMAIN vec[o].p :
                                   Lengths(strs, SubSeq(vec[o].p, 1, k)) <= n})

Incr_InPlace(o, n) ==
  LET gone == Dropped(o, n)
      part == n - Lengths(strs, SubSeq(vec[o].p, 1, gone))
      rest == After(vec[o].p, gone)
  IN  /\ n \in 1 .. vec[o].total /\ vec[o].anchor = -1 /\ Room(1)
      /\ strs' = IF part = 0 THEN strs ELSE [strs EXCEPT ![Head(rest)] = Str_Incr(@, part)]
      /\ vec' = [vec EXCEPT ![o].p = rest, ![o].total = @ - n]
      /\ text' = [text EXCEPT ![o] = SubSeq(@, n + 1, Len(@))]
      /\ UNCHANGED <<at, mark>>

Incr(o, n) ==
  LET gone == Dropped(o, n)
      part == n - Lengths(strs, SubSeq(vec[o].p, 1, gone))
      rest == After(vec[o].p, gone)
  IN  /\ n \in 1 .. vec[o].total /\ vec[o].anchor = -1 /\ Room(1)
      /\ strs' = IF part = 0 THEN strs ELSE Append(strs, Str_Incr(strs[Head(rest)], part))
      /\ vec' = [vec EXCEPT ![o].p = IF part = 0 THEN rest ELSE <<Len(strs')>> \o Tail(rest),
                            ![o].total = @ - n]
      /\ text' = [text EXCEPT ![o] = SubSeq(@, n + 1, Len(@))]
      /\ UNCHANGED <<at, mark>>

-----------------------------------------------------------------------------
(* A new vector in the place of what x pointed to, unless the other        *)
(* pointer holds that too.                                                 *)
Made(x, h, p, aligned, says) ==
  /\ strs' = h
  /\ at' = [at EXCEPT ![x] = New(x)]
  /\ vec' = [vec EXCEPT ![New(x)] = [StrVec_AddVec(h, StrVec_Make, p) EXCEPT !.aligned = aligned]]
  /\ text' = [text EXCEPT ![New(x)] = says]
  /\ mark' = [mark EXCEPT ![New(x)] = <<>>]

(* StrVec_FromLongBytes refers to the bytes in ranges of STR_MAX.          *)
FromLongBytes(x, bytes) ==
  LET parts == IF bytes = <<>> THEN <<bytes>> ELSE Chunks(bytes, STR_MAX)
  IN  /\ vec[at[x]].p = <<>> /\ vec[at[x]].anchor = -1
      /\ Room(Len(parts)) /\ Len(bytes) <= MAX_TEXT
      /\ Made(x, strs \o [i \in DOMAIN parts |-> Str(parts[i], Len(parts[i]))],
              [i \in DOMAIN parts |-> Len(strs) + i], FALSE, bytes)

(* StrVec_CopyTo clones the Strs up to an index, StrVec_Copy all of them.  *)
CopyTo(x, idx) ==
  LET all == Orig(x).p
      from == SubSeq(all, 1, Min({idx + 1, Len(all)}))
  IN  /\ from # <<>> /\ Room(Len(from))
      /\ Made(x, strs \o [i \in DOMAIN from |-> strs[from[i]]],
              [i \in DOMAIN from |-> Len(strs) + i], FALSE, Joined(strs, from))

Copy(x) == CopyTo(x, Len(Orig(x).p) - 1)

(* The same Strs, from one index to another.                               *)
SubVec(x, startIdx, endIdx) ==
  LET p == SubSeq(Orig(x).p, startIdx + 1, endIdx + 1)
  IN  /\ startIdx <= endIdx /\ endIdx < Len(Orig(x).p)
      /\ Made(x, strs, p, FALSE, Joined(strs, p))

(* StrVec_ReAlign: the same bytes in Strs that are full, but for the last. *)
(* A vector that came of it is given as it is, whatever was added since.   *)
ReAlign(x) ==
  LET joined == Joined(strs, Orig(x).p)
      parts == IF joined = <<>> THEN <<joined>>
               ELSE Chunks(joined, STR_DEFAULT)
  IN  /\ ~Orig(x).noshrink
      /\ IF Orig(x).aligned
         THEN at' = [at EXCEPT ![x] = at[Other(x)]] /\ UNCHANGED <<strs, vec, text, mark>>
         ELSE /\ Room(Len(parts))
              /\ Made(x, strs \o [i \in DOMAIN parts |-> Str(parts[i], STR_DEFAULT)],
                      [i \in DOMAIN parts |-> Len(strs) + i], TRUE, text[at[Other(x)]])

TextCharFilter(bytes) == ToSet(bytes) \cap Control = {}

(* StrVec_ToStr makes one Str of a vector: none, and an Error, when the    *)
(* text and a byte more do not fit; and an Error, with what came before,   *)
(* at a Str that is not text.  StrVec_Str gives it the room it needs.      *)
ToStr(y, length) ==
  IF y.total + 1 > Min({STR_MAX, length}) THEN [bytes |-> <<>>, error |-> TRUE]
  ELSE LET takes(acc, id) ==
             IF acc.error \/ ~TextCharFilter(strs[id].bytes) THEN [acc EXCEPT !.error = TRUE]
             ELSE [acc EXCEPT !.s = Str_Add(@, strs[id].bytes)]
           done == FoldLeft(takes, [s |-> Str(<<>>, length), error |-> FALSE], y.p)
       IN  [bytes |-> done.s.bytes, error |-> done.error]

StrVec_Str(y) == ToStr(y, y.total + 1)

(* What the total leaves out of the Strs is lost in these.                 *)
Str_AddVec(s, y) == FoldLeft(LAMBDA acc, id : Str_Add(acc, strs[id].bytes), s, y.p)

StrPrefixed(pre, y) == Str_AddVec(Str(pre, y.total + Len(pre)), y)

StrCombo(y, z) == Str_AddVec(Str_AddVec(Str(<<>>, y.total + z.total + 1), y), z)

(* StrVec_StrTo: up to the anchor, into as much room as is before it.      *)
StrTo(y, anchor) ==
  FoldLeft(LAMBDA s, id : Str_Add(s, strs[id].bytes),
           Str(<<>>, y.total - Lengths(strs, After(y.p, anchor)) + 1),
           SubSeq(y.p, 1, anchor + 1))

StrVecNext ==
  /\ ops > 0 /\ ops' = ops - 1
  /\ \E x \in Pointers :
       \/ NoShrink(at[x])
       \/ \E b \in Pieces, room \in {0, 1} : Add(at[x], b, room)
       \/ \E i \in 0 .. 1 : AddVecAfter(x, i)
       \/ \E b \in Pieces : AddChain(at[x], <<"/">>, b)
       \/ \E b \in Pieces : AddBytes(at[x], b)
       \/ \E b, c \in Pieces : FromLongBytes(x, b \o c)
       \/ Pop(at[x])
       \/ Anchor(at[x])
       \/ Return(at[x])
       \/ \E n \in 1 .. MAX_TEXT : Incr(at[x], n)
       \/ Copy(x)
       \/ \E i \in 0 .. 1 : CopyTo(x, i)
       \/ \E i, j \in 0 .. 2 : SubVec(x, i, j)
       \/ ReAlign(x)

-----------------------------------------------------------------------------
(* StrVec_NextSlot: a cursor is the Str it is on (0 before the first), the *)
(* bytes taken of it, or -1 when it is done with it, and the bytes taken   *)
(* in all.  A slot is filled from as many Strs as it needs.  A Str without *)
(* bytes ends the slot early, and every one after it.                      *)
Start == [i |-> 0, at |-> -1, offset |-> 0]

Enter(c) == IF c.at = -1 THEN [c EXCEPT !.i = @ + 1, !.at = 0] ELSE c

NextSlot(bs, c0) ==
  LET fill[c \in [i : Nat, at : Int, offset : Nat], slot \in Seq(STRING)] ==
        IF c.at = -1 /\ c.i = Len(bs) THEN [slot |-> slot, c |-> c]
        ELSE LET e == Enter(c)
                 s == bs[e.i]
                 n == Min({Len(s) - e.at, SLOT - (e.offset % SLOT)})
                 to == [e EXCEPT !.at = IF n = Len(s) - e.at THEN -1 ELSE @ + n,
                                 !.offset = @ + n]
                 got == slot \o SubSeq(s, e.at + 1, e.at + n)
             IN  IF n = 0 THEN [slot |-> slot, c |-> e]
                 ELSE IF to.offset % SLOT = 0 THEN [slot |-> got, c |-> to]
                 ELSE fill[to, got]
  IN  fill[c0, <<>>]

(* StrVec_EqualsStrVec: equal totals, then slot by slot.                   *)
EqualsStrVec_Once(bs, cs) ==
  /\ Len(FlattenSeq(bs)) = Len(FlattenSeq(cs))
  /\ NextSlot(bs, Start).slot = NextSlot(cs, Start).slot

EqualsStrVec(bs, cs) ==
  LET length == Len(FlattenSeq(bs))
      rounds == (length + SLOT - 1) \div SLOT
      walk(ds) == FoldLeft(LAMBDA acc, k : LET n == NextSlot(ds, acc.c)
                                           IN  [c |-> n.c, slots |-> Append(acc.slots, n.slot)],
                           [c |-> Start, slots |-> <<>>], [k \in 1 .. rounds |-> k])
  IN  /\ length = Len(FlattenSeq(cs))
      /\ walk(bs).slots = walk(cs).slots

(* Str_EqualsStrVec: a Str is one range; its own slots never end early.    *)
Str_EqualsStrVec(s, cs) == EqualsStrVec(<<s>>, cs)

(* Str_equalsStrPos, and Str_EqualsStr, which gives it the length of the   *)
(* first: no more than that is compared of the second.                     *)
equalsStrPos(a, offset, b, total) ==
  LET n == Min({Len(a) - offset, total})
  IN  /\ n >= 0 /\ n = Min({Len(b), total})
      /\ SubSeq(a, offset + 1, offset + n) = SubSeq(b, 1, n)

EqualsStr(a, b) == equalsStrPos(a, 0, b, Len(a))

(* Str_EndMatch compares as many bytes as come before the end.             *)
EndMatch(a, b) == Len(b) <= Len(a) /\ equalsStrPos(a, Len(a) - Len(b), b, Len(a) - Len(b))

NoBlank(o) == \A i \in DOMAIN vec[o].p : strs[vec[o].p[i]].bytes # <<>>

-----------------------------------------------------------------------------
(* A vector says what the operations on it, and on it only, made it say:   *)
(* neither what is done to another that shares its Strs, nor the same Str  *)
(* being in it twice, shows.  Its total is the number of its bytes, on     *)
(* which the room of every Str made of it depends: StrVec_Str gives all of *)
(* the text unless it is an Error, which it is just when the text is too   *)
(* long or not text, and with a prefix or another vector nothing is lost.  *)
(* While a vector is anchored, what it said then is still its beginning,   *)
(* so that StrVec_Return leads back to it.  The text up to a separator,    *)
(* which the build tool takes with StrVec_StrTo, has just the room it is   *)
(* given.                                                                  *)
IsText ==
  \A o \in Vectors :
    LET y == vec[o]
        s == StrVec_Str(y)
    IN  /\ Joined(strs, y.p) = text[o]
        /\ y.total = Len(text[o])
        /\ s.error = (Len(text[o]) + 1 > STR_MAX \/ ~TextCharFilter(text[o]))
        /\ ~s.error => s.bytes = text[o]
        /\ StrPrefixed(<<"-", "I">>, y).bytes = <<"-", "I">> \o text[o]
        /\ StrCombo(y, vec[at["w"]]).bytes = text[o] \o text[at["w"]]
        /\ y.anchor # -1 /\ ~y.noshrink => Joined(strs, PopTo(strs, y, y.anchor).p) = mark[o]
        /\ \A i \in DOMAIN y.p :
             Len(strs[y.p[i]].bytes) = 1 =>
               StrTo(y, i - 1).bytes = Joined(strs, SubSeq(y.p, 1, i))

(* However two texts are cut into Strs, comparing them a slot at a time    *)
(* tells whether they are the same, as long as no Str is without bytes; a  *)
(* Str against a vector is told the same way.  Two Strs with the same text *)
(* compare equal, and an ending is found (the reverse does not hold).      *)
EqualsExact ==
  NoBlank(1) /\ NoBlank(2) =>
    LET same == text[1] = text[2]
    IN  /\ EqualsStrVec(BytesOf(strs, vec[1].p), BytesOf(strs, vec[2].p)) = same
        /\ text[1] # <<>> =>
             (Str_EqualsStrVec(text[1], BytesOf(strs, vec[2].p)) = same)
        /\ same => EqualsStr(text[1], text[2])
        /\ IsSuffix(text[2], text[1]) => EndMatch(text[1], text[2])

=============================================================================
