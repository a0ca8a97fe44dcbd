------------------------------- MODULE BinSeg -------------------------------
(***************************************************************************)
(* The log of segments, src/src/mod/ext/persist/binseg.c.  A value is      *)
(* appended as one entry for each part of it, a container's own entry      *)
(* behind those of its parts, or before them in a REVERSED log, which is   *)
(* loaded from its end.  Entries have no sum and no mark of where a value  *)
(* begins: the writer may be stopped between two, or within one.           *)
(*                                                                         *)
(* A value is its kind, its text when it is one, and its parts by index:   *)
(* the keys and values of a Table in turn, the properties of an Inst.      *)
(***************************************************************************)
EXTENDS Integers, Sequences
LOCAL INSTANCE SequencesExt

CONSTANTS
  CUT,             (* what is left of a text that was cut                  *)
  Sent,            (* values that are sent                                 *)
  BINSEG_SEG_MAX,  (* entries a load reads before it is an Error (1024)    *)
  MAX_SENT,        (* bound: values sent                                   *)
  BINSEG_STOPS     (* bound: stops of the writer                           *)

VARIABLES
  seg,   (* the file, whether it is REVERSED, and the writer               *)
  sends  (* the values sent, with the entries each has taken (history)     *)

bvars == <<seg, sends>>

Bytes(text) == [kind |-> "bytes", text |-> text, parts |-> <<>>]

Entry(value, id, idx) ==
  [kind |-> value.kind, text |-> value.text, id |-> id, idx |-> idx,
   n |-> Len(value.parts), cut |-> ""]

(* The entries of a value, as BinSegCtx_SendByIdent adds them.  That of a  *)
(* number has the length 0, and nothing is written for it.                 *)
RECURSIVE SendByIdent(_, _, _, _)
SendByIdent(value, id, idx, reversed) ==
  LET own == IF value.kind = "number" THEN <<>> ELSE <<Entry(value, id, idx)>>
      parts == FlattenSeq([i \in DOMAIN value.parts |->
                             SendByIdent(value.parts[i], id + 1, i, reversed)])
  IN  IF reversed THEN own \o parts ELSE parts \o own

(* BinSegCtx_buildKind makes a value of an entry and of what is on the     *)
(* shelf of its id, and puts it on the shelf of its parent; the shelves    *)
(* are new after a record, and only then.                                  *)
Shelf(shelves, id) == IF id \in DOMAIN shelves THEN shelves[id] ELSE <<>>

Put(f, i, x) == [j \in DOMAIN f \union {i} |-> IF j = i THEN x ELSE f[j]]

Built(ctx, entry) ==
  [kind |-> entry.kind,
   text |-> IF entry.cut = "" THEN entry.text ELSE CUT,
   parts |-> IF entry.kind = "bytes" THEN <<>> ELSE Shelf(ctx.shelves, entry.id)]

buildKind_KeepsShelves(ctx, entry) ==
  IF entry.id = 0 THEN [ctx EXCEPT !.records = Append(@, Built(ctx, entry))]
  ELSE [ctx EXCEPT !.shelves =
          Put(@, entry.id - 1, Put(Shelf(@, entry.id - 1), entry.idx, Built(ctx, entry)))]

buildKind(ctx, entry) ==
  IF entry.id = 0
  THEN [ctx EXCEPT !.records = Append(@, Built(ctx, entry)), !.shelves = <<>>]
  ELSE [ctx EXCEPT !.shelves =
          Put(@, entry.id - 1, Put(Shelf(@, entry.id - 1), entry.idx, Built(ctx, entry)))]

(* BinSegCtx_Load.  An entry that was cut in its content is taken as it    *)
(* is; what is behind it, or behind a header that was cut, is not framed   *)
(* any more.  From the end of a log it is the header that is missing.      *)
Load(file, reversed) ==
  FoldLeft(LAMBDA ctx, entry :
             IF ctx.lost THEN ctx
             ELSE IF entry.cut = "" THEN buildKind(ctx, entry)
             ELSE IF entry.cut = "content" /\ ~reversed THEN [buildKind(ctx, entry) EXCEPT !.lost = TRUE]
             ELSE [ctx EXCEPT !.lost = TRUE],
           [shelves |-> <<>>, records |-> <<>>, lost |-> Len(file) >= BINSEG_SEG_MAX],
           IF reversed THEN Reverse(file) ELSE file)
-----------------------------------------------------------------------------
(* The file must be there to be opened for ADD; a writer sends values one  *)
(* after the other.                                                        *)
BinSegCtx_Open ==
  /\ seg.pc = "closed"
  /\ seg' = [seg EXCEPT !.pc = "open"]
  /\ UNCHANGED sends

BinSegCtx_Send(value) ==
  LET todo == SendByIdent(value, 0, 0, seg.reversed)
  IN  /\ seg.pc = "open" /\ seg.todo = <<>> /\ Len(sends) < MAX_SENT
      /\ seg' = [seg EXCEPT !.todo = todo]
      /\ sends' = Append(sends, [value |-> value, from |-> Len(seg.file) + 1, done |-> todo = <<>>])

Buff_Add ==
  /\ seg.todo # <<>>
  /\ seg' = [seg EXCEPT !.file = Append(@, Head(seg.todo)), !.todo = Tail(@)]
  /\ sends' = IF Len(seg.todo) > 1 THEN sends ELSE [sends EXCEPT ![Len(sends)].done = TRUE]

BinSegCtx_Close ==
  /\ seg.pc = "open" /\ seg.todo = <<>>
  /\ seg' = [seg EXCEPT !.pc = "closed"]
  /\ UNCHANGED sends

(* The writer ends, having written a part of the entry it was at or none.  *)
BinSegStop ==
  /\ seg.pc = "open" /\ seg.stops < BINSEG_STOPS
  /\ \E cut \in {"none", "header", "content"} :
       /\ cut # "none" => seg.todo # <<>>
       /\ cut = "content" => Head(seg.todo).kind = "bytes"
       /\ seg' = [seg EXCEPT !.pc = "closed", !.todo = <<>>, !.stops = @ + 1,
                             !.file = IF cut = "none" THEN @
                                      ELSE Append(@, [Head(seg.todo) EXCEPT !.cut = cut])]
  /\ UNCHANGED sends

BinSegInit ==
  /\ \E reversed \in BOOLEAN :
       seg = [pc |-> "closed", reversed |-> reversed, file |-> <<>>, todo |-> <<>>, stops |-> 0]
  /\ sends = <<>>

BinSegNext ==
  \/ BinSegCtx_Open \/ Buff_Add \/ BinSegCtx_Close \/ BinSegStop
  \/ \E value \in Sent : BinSegCtx_Send(value)
-----------------------------------------------------------------------------
BinSegTypeOK ==
  /\ seg.pc \in {"closed", "open"} /\ seg.stops \in 0 .. BINSEG_STOPS
  /\ \A i \in DOMAIN seg.file : seg.file[i].cut \in {"", "header", "content"}

(* Of the containers of a value that are at the same depth, none has fewer *)
(* parts than one that is loaded before it; and it has no number.          *)
RECURSIVE Numbered(_)
Numbered(value) ==
  value.kind = "number" \/ \E i \in DOMAIN value.parts : Numbered(value.parts[i])

Plain(value) ==
  LET all == SelectSeq(SendByIdent(value, 0, 0, seg.reversed), LAMBDA e : e.kind # "bytes")
      order == IF seg.reversed THEN Reverse(all) ELSE all
  IN  /\ ~Numbered(value)
      /\ \A i, j \in DOMAIN order : i < j /\ order[i].id = order[j].id => order[i].n <= order[j].n

Entries(k) ==
  sends[k].from .. (IF k < Len(sends) THEN sends[k + 1].from - 1 ELSE Len(seg.file))

(* The values a load has come to, in its order, before an entry that was   *)
(* cut: in a REVERSED log those that have begun.                           *)
Landed ==
  LET Before(k) == IF seg.reversed THEN {i \in DOMAIN seg.file : i >= sends[k].from}
                   ELSE {i \in DOMAIN seg.file : \E j \in Entries(k) : i <= j}
      landed == SelectSeq([k \in DOMAIN sends |-> k],
                          LAMBDA k : /\ sends[k].done \/ seg.reversed
                                     /\ Entries(k) # {}
                                     /\ \A i \in Before(k) : seg.file[i].cut = "")
  IN  IF seg.reversed THEN Reverse(landed) ELSE landed

(* What was sent is loaded, in order, up to the first entry that was cut:  *)
(* a writer that was stopped between two entries spoils no value but the   *)
(* one it was at and, in a log that is not REVERSED, the next.             *)
RecordsKept ==
  Len(seg.file) < BINSEG_SEG_MAX =>
    LET read == Load(seg.file, seg.reversed).records
    IN  /\ Len(read) >= Len(Landed)
        /\ (\A i \in DOMAIN seg.file : seg.file[i].cut = "") => Len(read) = Len(Landed)
        /\ \A i \in DOMAIN Landed :
             LET k == Landed[i]
             IN  sends[k].done /\ Plain(sends[k].value)
                   /\ (seg.reversed \/ k = 1 \/ sends[k - 1].done)
                 => read[i] = sends[k].value
=============================================================================
