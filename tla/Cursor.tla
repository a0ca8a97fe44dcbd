------------------------------- MODULE Cursor -------------------------------
(* The Cursor of base/bytes/cursor.c: a position in a StrVec, a string that *)
(* lies in segments (Str).  A segment is a sequence of bytes; the vector is *)
(* the sequence of its segments.                                            *)
(*                                                                          *)
(* curs.i is the segment (it.idx + 1), curs.p the byte in it (ptr - start   *)
(* + 1, 0 for a NULL ptr), curs.end the segment's end when the cursor came  *)
(* to it, curs.pos the position the cursor reports, counted from 0.  Of     *)
(* type.state: "END", "PROCESSING", "BOUNDRY"; of the Iter: last (LAST).    *)
EXTENDS Integers, Sequences, SequencesExt

NUL == 0

Cursor_Setup(v) == [v |-> v, i |-> 1, p |-> 0, end |-> 0, pos |-> -1,
                    last |-> FALSE, state |-> {}]

(* Cursor_SetStr: to the first byte of segment i, if there is one.         *)
Cursor_SetStr(c) ==
  IF c.i \in DOMAIN c.v
  THEN [c EXCEPT !.p = 1, !.end = Len(c.v[c.i]), !.last = (c.i = Len(c.v)),
                 !.state = @ \union {"PROCESSING"}]
  ELSE [c EXCEPT !.p = 0, !.end = 0]

(* The byte at ptr.  An empty segment, which a read at the end of a file   *)
(* adds, has the NUL that follows its bytes.                               *)
Byte(c) == IF c.p \in DOMAIN c.v[c.i] THEN c.v[c.i][c.p] ELSE NUL

Cursor_NextByte(curs) ==
  LET c == [curs EXCEPT !.state = @ \ {"BOUNDRY"}]
  IN  CASE "PROCESSING" \notin c.state ->
             Cursor_SetStr([c EXCEPT !.i = 1, !.pos = 0])
        [] "PROCESSING" \in c.state /\ c.p >= c.end /\ c.last ->
             [c EXCEPT !.state = @ \union {"END"}]
        [] "PROCESSING" \in c.state /\ c.p >= c.end /\ ~c.last ->
             Cursor_SetStr([c EXCEPT !.i = @ + 1, !.pos = @ + 1,
                                     !.state = @ \union {"BOUNDRY"}])
        [] OTHER -> [c EXCEPT !.p = @ + 1, !.pos = @ + 1]

(* The loop of Cursor_Decr over the segments before the one it is in; room *)
(* is what is left in front of ptr.                                        *)
RECURSIVE StepBack(_, _)
StepBack(c, length) ==
  LET room == c.p - 1
  IN  IF length <= room THEN [c EXCEPT !.p = @ - length]
      ELSE IF c.i = 1 THEN c
      ELSE LET b == Cursor_SetStr([c EXCEPT !.i = @ - 1])
           IN  StepBack([b EXCEPT !.p = b.end], length - room - 1)

(* pos goes back by the length asked for even when the start is reached.   *)
Cursor_Decr(c, length) ==
  IF "PROCESSING" \notin c.state THEN c
  ELSE [IF length > 0 THEN StepBack(c, length) ELSE c EXCEPT !.pos = @ - length]

(* The loop of Cursor_Incr.  A length that ends on the last byte of a      *)
(* segment goes on to the first byte of the next, and leaves ptr alone in  *)
(* the last one.                                                           *)
RECURSIVE StepOn(_, _)
StepOn(c, length) ==
  LET room == c.end - c.p
  IN  IF length <= 0 THEN c
      ELSE IF length < room THEN [c EXCEPT !.p = @ + length]
      ELSE IF c.i = Len(c.v) THEN [c EXCEPT !.state = @ \union {"END"}]
      ELSE StepOn(Cursor_SetStr([c EXCEPT !.i = @ + 1]), length - room - 1)

Cursor_Incr(curs, length) ==
  LET c == IF curs.p = 0 THEN Cursor_SetStr(curs) ELSE curs
  IN  [StepOn(c, length) EXCEPT !.pos = @ + length]

(* Cursor_Add.                                                             *)
Cursor_Add(c, s) == [c EXCEPT !.v = Append(@, s), !.last = FALSE,
                              !.state = @ \ {"END"}]

(* Cursor_Update after the vector grew: ptr stays, END goes, LAST is told  *)
(* again.                                                                  *)
Cursor_Update(c) ==
  IF "END" \in c.state /\ c.end - c.p < Len(c.v[c.i])
  THEN [Cursor_SetStr(c) EXCEPT !.p = c.p, !.state = @ \ {"END"}]
  ELSE c

(* Cursor_Remaining: what is left from the cursor on, its byte included.   *)
Cursor_Remaining(curs) ==
  LET c == IF "PROCESSING" \in curs.state THEN curs
           ELSE Cursor_SetStr([curs EXCEPT !.i = 1, !.pos = 0])
  IN  IF c.p = 0 THEN <<>>
      ELSE SubSeq(c.v[c.i], c.p, c.end)
           \o (IF c.last THEN <<>> ELSE FlattenSeq(SubSeq(c.v, c.i + 1, Len(c.v))))
=============================================================================
