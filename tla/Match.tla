-------------------------------- MODULE Match --------------------------------
(* Match of ext/parser/match.c: one pattern, a sequence of PatCharDef, fed a *)
(* byte at a time, and the Snips (ext/parser/snip.c) it files the bytes it   *)
(* has seen under: content, gap, unclaimed, skipped, boundary of a segment.  *)
(*                                                                           *)
(* A PatCharDef is [flags, from, to], its flags by the letters of pat_flags  *)
(* in patchar.h: X PAT_TERM, P PAT_OPTIONAL, M PAT_MANY, N PAT_ANY,          *)
(* I PAT_INVERT, C PAT_COUNT, G PAT_INVERT_CAPTURE, K PAT_KO, O PAT_KO_TERM, *)
(* S PAT_SINGLE, L PAT_LEAVE, D PAT_DROPOUT, U PAT_CONSUME, R PAT_REQUIRE_KO.*)
EXTENDS Cursor

Snip_Make(state, length) == [state |-> state, length |-> length]

SnipSpan_Total(sns, states) ==
  FoldLeft(LAMBDA n, sn : n + (IF sn.state \in states THEN sn.length ELSE 0), 0, sns)
AnySnip == {"", "C", "G", "B", "U", "K", "T"}

(* PAT_END closes every pattern; endDef is its index.                      *)
PatEnd == [flags |-> {}, from |-> 0, to |-> 0]
EndDef(mt) == Len(mt.def)

(* The first definition of the last term (a term that is the first         *)
(* definition alone is not counted).                                       *)
LastTerm(def) ==
  LET starts == {1} \union {k + 1 : k \in {j \in 2 .. Len(def) - 2 : "X" \in def[j].flags}}
  IN  CHOOSE k \in starts : \A j \in starts : j <= k

Match_Make(def, captureKey, jump) ==
  [def |-> Append(def, PatEnd), lastTerm |-> LastTerm(Append(def, PatEnd)), cur |-> 1,
   state |-> {}, remaining |-> -1, snip |-> Snip_Make("", 0), backlog |-> <<>>,
   captureKey |-> captureKey, jump |-> jump]

match_Reset(mt) == [mt EXCEPT !.cur = 1, !.remaining = 0]

CharMatched(c, d) == LET in == c >= d.from /\ c <= d.to
                     IN  IF "I" \in d.flags /\ "K" \notin d.flags THEN ~in ELSE in

(* The first of stops from k on, or the end of the definitions.            *)
FirstFrom(mt, k, stops) ==
  CHOOSE j \in k .. EndDef(mt) :
    /\ j \in stops \union {EndDef(mt)}
    /\ stops \intersect (k .. j - 1) = {}

match_NextTerm(mt) ==
  LET j == FirstFrom(mt, mt.cur, {i \in DOMAIN mt.def : "X" \in mt.def[i].flags})
  IN  [mt EXCEPT !.cur = IF "X" \in mt.def[j].flags THEN j + 1 ELSE j]

match_StartOfTerm(mt) ==
  [mt EXCEPT !.cur = CHOOSE j \in 1 .. mt.cur :
      /\ j = 1 \/ "X" \in mt.def[j - 1].flags
      /\ \A l \in j .. mt.cur - 1 : "X" \notin mt.def[l].flags]

match_EndOfKoTerm(mt) ==
  [mt EXCEPT !.cur = FirstFrom(mt, mt.cur,
      {i \in DOMAIN mt.def : "K" \notin mt.def[i].flags \/ "O" \in mt.def[i].flags})]

SnipSpan_Add(mt) == [mt EXCEPT !.backlog = Append(@, mt.snip)]

(* addCount: bytes of one kind are counted in one Snip.                    *)
Counted(mt, state, length) ==
  IF mt.snip.state = state THEN [mt EXCEPT !.snip.length = @ + length]
  ELSE [SnipSpan_Add(mt) EXCEPT !.snip = Snip_Make(state, length)]
AddCount(mt, state, length) ==
  Counted([mt EXCEPT !.snip.state = CASE @ = ""  -> state
                                      [] @ = "T" -> "C"
                                      [] OTHER   -> @], state, length)

(* Match_AddBoundrySnip of a match that has seen a byte.                   *)
Match_AddBoundrySnip(mt) ==
  IF mt.snip.length > 0 \/ mt.backlog # <<>> THEN AddCount(mt, "B", 0) ELSE mt

With(mt, flags) == [mt EXCEPT !.state = @ \union flags]
Without(mt, flags) == [mt EXCEPT !.state = @ \ flags]
Skip(mt) == [mt EXCEPT !.cur = @ + 1]

(* The label miss of Match_Feed.                                           *)
Missed(mt) == IF "SEARCH" \in mt.state THEN AddCount(match_Reset(mt), "K", 1)
              ELSE With(mt, {"NOOP"})
Miss(mt) == Missed(Without(mt, {"PROCESSING", "LAST_TERM"}))

(* The kind of Snip a matching byte is counted in.                         *)
SnipFlag(flags) ==
  CASE "L" \in flags                     -> "U"
    [] {"G", "I"} \subseteq flags        -> "U"
    [] "U" \in flags                     -> "G"
    [] {"N", "S", "G"} \subseteq flags   -> "T"
    [] "G" \in flags                     -> "U"
    [] OTHER                             -> "C"

(* A byte that ends the pattern (a knock-out).                             *)
AfterKo(mt, d) ==
  IF "K" \notin mt.def[mt.cur + 1].flags
  THEN IF "LEAVE" \in mt.state THEN Miss(mt) ELSE match_NextTerm(mt)
  ELSE IF "O" \in d.flags THEN Skip(mt) ELSE mt
KnockedOut(mt, d) ==
  LET ko == With(mt, {"KO"} \union (IF "L" \in d.flags THEN {"LEAVE"} ELSE {}))
  IN  AfterKo(match_EndOfKoTerm(AddCount(ko,
                IF "G" \in d.flags /\ "U" \notin d.flags THEN "U" ELSE "G", 1)), d)

(* A byte that the definition takes.                                       *)
LeaveKo(mt) == IF "KO" \in mt.state THEN [Without(mt, {"KO"}) EXCEPT !.snip.state = "C"] ELSE mt
MarkTerm(mt) == IF mt.cur >= mt.lastTerm THEN With(mt, {"PROCESSING", "LAST_TERM"})
                ELSE With(Without(mt, {"LAST_TERM"}), {"PROCESSING"})
Taken(mt, d) ==
  [AddCount(MarkTerm(LeaveKo(mt)), SnipFlag(d.flags), 1) EXCEPT !.remaining =
     IF "C" \in d.flags /\ {"N", "M"} \intersect d.flags = {} THEN @ - 1 ELSE @]

Repeats(mt, d) == \/ {"N", "M"} \intersect d.flags # {}
                  \/ "C" \in d.flags /\ mt.remaining > 0

(* One byte against the definitions from cur on: the loop of Match_Feed.   *)
(* r.out says that DROPOUT returned from inside of it.                     *)
RECURSIVE FeedLoop(_, _, _)
FeedLoop(mt, c, unclaimed) ==
  LET d    == mt.def[mt.cur]
      Done(m, u) == [mt |-> m, unclaimed |-> u, out |-> FALSE]
      Went(m)    == FeedLoop(m, c, TRUE)
  IN
  IF mt.cur = EndDef(mt) THEN Done(mt, unclaimed)
  ELSE IF CharMatched(c, d)
  THEN CASE {"K", "I"} \subseteq d.flags \/ {"K", "D"} \intersect d.flags = {} ->
             LET m0 == IF "K" \in d.flags THEN With(mt, {"KO_INVERT"}) ELSE mt
                 m == Taken(m0, d)
             IN  IF Repeats(m, d) THEN Done(With(match_StartOfTerm(m), {"TERM_FOUND"}), FALSE)
                 ELSE IF "I" \in d.flags THEN FeedLoop(Skip(m), c, FALSE)
                 ELSE Done(Without(match_NextTerm(m), {"TERM_FOUND"}), FALSE)
         [] "D" \in d.flags /\ ~({"K", "I"} \subseteq d.flags) ->
             [mt |-> With(mt, {"NOOP"}), unclaimed |-> FALSE, out |-> TRUE]
         [] OTHER ->
             IF "KO_INVERT" \in mt.state
             THEN FeedLoop(Skip(Without(mt, {"KO_INVERT"})), c, FALSE)
             ELSE Done(KnockedOut(mt, d), FALSE)
  ELSE CASE "KO" \in mt.state /\ "K" \in d.flags -> Went(Skip(mt))
         [] "KO" \in mt.state /\ "K" \notin d.flags ->
             LET m == IF "G" \in d.flags THEN mt ELSE [mt EXCEPT !.snip.state = "C"]
             IN  IF "LEAVE" \in m.state THEN Done(Miss(m), TRUE)
                 ELSE Went(Skip(Without(m, {"PROCESSING", "KO", "LAST_TERM"})))
         [] "KO" \notin mt.state /\ {"K", "P", "N"} \intersect d.flags # {} -> Went(Skip(mt))
         [] "KO" \notin mt.state /\ {"K", "P", "N"} \intersect d.flags = {} ->
             CASE "D" \in d.flags ->
                    LET m == Skip(mt)
                    IN  FeedLoop(IF "X" \in d.flags THEN AddCount(m, "U", 1) ELSE m, c, unclaimed)
               [] "D" \notin d.flags /\ "M" \in d.flags ->
                    IF "X" \notin d.flags THEN Went(Skip(mt))
                    ELSE IF "TERM_FOUND" \in mt.state /\ "R" \notin d.flags
                    THEN Went(match_NextTerm(mt)) ELSE Done(Miss(mt), TRUE)
               [] OTHER ->
                    IF "X" \notin d.flags /\ "I" \notin d.flags
                    THEN FeedLoop(Skip(mt), c, unclaimed) ELSE Done(Miss(mt), unclaimed)

(* Match_Feed.                                                             *)
Match_Feed(mt, c) ==
  IF "NOOP" \in mt.state THEN mt
  ELSE LET r == FeedLoop(mt, c, FALSE)
       IN  IF r.out \/ r.mt.cur # EndDef(mt) THEN r.mt
           ELSE LET a == IF r.unclaimed THEN AddCount(r.mt, "U", 1) ELSE r.mt
                    m == [SnipSpan_Add(a) EXCEPT !.snip.length = 0]
                IN  IF SnipSpan_Total(m.backlog, {"C"}) = 0 /\ "ACCEPT_EMPTY" \notin m.state
                    THEN [m EXCEPT !.state = {"NOOP"}]
                    ELSE With(Without(m, {"PROCESSING", "LAST_TERM"}), {"SUCCESS"})

(* StrVec_Snip: the content a match stands for, copied from the cursor's   *)
(* own bytes.  A Snip is copied from where the cursor is in one piece.     *)
StrVec_Snip(sns, curs) ==
  LET total == SnipSpan_Total(sns, AnySnip) - 1 - (IF "END" \in curs.state THEN 1 ELSE 0)
      Bytes(c, n) == [k \in 1 .. n |-> Byte([c EXCEPT !.p = c.p + k - 1])]
      Take(a, sn) == CASE sn.state \in {"B", ""} -> a
                       [] sn.state = "C" -> [c |-> Cursor_Incr(a.c, sn.length),
                                             v |-> a.v \o Bytes(a.c, sn.length)]
                       [] OTHER          -> [a EXCEPT !.c = Cursor_Incr(@, sn.length)]
  IN  FoldLeft(Take, [c |-> Cursor_Decr(curs, total), v |-> <<>>], sns).v
=============================================================================
