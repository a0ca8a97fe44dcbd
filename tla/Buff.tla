------------------------------- MODULE Buff --------------------------------
(***************************************************************************)
(* A Buff (base/io/buff.c): a StrVec of fixed-size Strs that is filled by  *)
(* Buff_AddBytes or from a descriptor, and drained to a descriptor         *)
(* (Buff_Flush), to a Str (Buff_GetStr) or to another Buff (Buff_Pipe).    *)
(*                                                                         *)
(* A byte is the number of its place in the stream.  `unsent.s' is either  *)
(* a header of its own on the bytes of a Str of the vector (Str_Rec) or    *)
(* that very Str, and then moving it moves the Str of the vector too.      *)
(***************************************************************************)
EXTENDS Integers, Sequences

CONSTANTS
  SEG,       (* STR_DEFAULT, the room of a Str the Buff makes (512)          *)
  BLOCK,     (* IO_BLOCK_SIZE, the most one write or read moves (1024)       *)
  MAX_BYTES, (* bound of the model: bytes in the stream                      *)
  Refill     (* the client adds to the Buff after it began to drain it       *)

ASSUME BuffAssumption ==
  {SEG, BLOCK, MAX_BYTES} \subseteq Nat \ {0} /\ Refill \in BOOLEAN

NULL == [kind |-> "NULL"]
Flags == {"SUCCESS", "MORE", "ERROR", "NOOP", "PROCESSING", "END", "LAST"}

VARIABLES
  v,       (* the Strs of the vector: [mem, start, len]                      *)
  total,   (* v->total                                                       *)
  tail,    (* tail.idx, -1 before the first Str                              *)
  unsent,  (* [s, offset, idx, total]                                        *)
  state,   (* type.state                                                     *)
  source,  (* the descriptor (Buff_SetFd, Buff_SetSocket): none (memory),    *)
           (* one to write to (out), a file or a socket to read from         *)
  comes,   (* bytes the descriptor still has to give                         *)
  task,    (* the loop the Buff is in: idle, flush or pipe, or crashed       *)
  to,      (* the descriptor drained to: ok or failed                        *)
  added,   (* history: bytes in the vector or taken from the descriptor      *)
  sent,    (* history: the bytes drained since the client last moved         *)
  from,    (* history: the place in the stream it moved to                   *)
  began    (* history: the client has begun to drain                         *)

vars == <<v, total, tail, unsent, state, source, comes, task, to, added, sent,
          from, began>>
vecVars == <<v, total, tail>>
-----------------------------------------------------------------------------
(* Strs.                                                                   *)
Str_Make == [mem |-> <<>>, start |-> 0, len |-> 0]

(* Str_Rec: a header of its own on the bytes of Str i of the vector.       *)
Str_Rec(i, s) == [kind |-> "copy", at |-> i, start |-> s.start, len |-> s.len]
Same(i) == [kind |-> "same", at |-> i]

Span_Get(strs, i) == IF i \in 0 .. Len(strs) - 1 THEN Same(i) ELSE NULL
Recorded(strs, i) ==
  IF i \in 0 .. Len(strs) - 1 THEN Str_Rec(i, strs[i + 1]) ELSE NULL

Header(s, strs) ==
  IF s.kind = "same" THEN [start |-> strs[s.at + 1].start, len |-> strs[s.at + 1].len]
                     ELSE [start |-> s.start, len |-> s.len]

(* The pointer stays.                                                      *)
Incr_Shortens(h, n) == [start |-> h.start, len |-> IF h.len > n THEN h.len - n ELSE 0]

(* Str_Incr.                                                               *)
Incr(h, n) == [start |-> IF h.len > n THEN h.start + n ELSE h.start,
               len   |-> IF h.len > n THEN h.len - n ELSE 0]

Bytes(s, strs, n) ==
  LET h == Header(s, strs) IN SubSeq(strs[s.at + 1].mem, h.start + 1, h.start + n)

(* Str_Add: the bytes land behind the length the header gives, over what   *)
(* is there.                                                               *)
Str_Add(s, b) ==
  [s EXCEPT !.mem = SubSeq(@, 1, s.start + s.len) \o <<b>>
                      \o SubSeq(@, s.start + s.len + 2, Len(@)),
            !.len = @ + 1]
-----------------------------------------------------------------------------
(* Buff_AddBytes into the vector: the tail takes what it has room for, and *)
(* a new Str is the tail from then on.                                     *)
AddByte(vec, b) ==
  LET full  == vec.tail = -1 \/ vec.v[vec.tail + 1].len = SEG
      grown == IF full THEN Append(vec.v, Str_Make) ELSE vec.v
      at    == IF full THEN Len(grown) ELSE vec.tail + 1
  IN  [v |-> [grown EXCEPT ![at] = Str_Add(@, b)], tail |-> at - 1]

Grown(n) ==
  LET vec[k \in 0 .. n] == IF k = 0 THEN [v |-> v, tail |-> tail]
                           ELSE AddByte(vec[k - 1], added + k)
  IN  vec[n]

AddNext(n) ==
  /\ v' = Grown(n).v
  /\ tail' = Grown(n).tail
  /\ total' = total + n
  /\ unsent' = [unsent EXCEPT !.total = @ + n]
  /\ added' = added + n

MayAdd == task = "idle" /\ (began => Refill)

Buff_AddBytes(n) ==
  /\ MayAdd
  /\ source \in {"memory", "out"}
  /\ "ERROR" \notin state
  /\ added + n <= MAX_BYTES
  /\ AddNext(n)
  /\ state' = state \ {"SUCCESS", "END"}
  /\ UNCHANGED <<source, comes, task, to, sent, from, began>>

(* Buff_ReadAmount: one read after the other until `amount' bytes are      *)
(* there (full), a read gives nothing (ends), or a read fails: an Error of *)
(* a file; of a socket it says that there is nothing to read yet.          *)
ReadOutcomes == {"full", "ends", "fails"}

Buff_ReadAmount(amount, n, outcome) ==
  /\ MayAdd
  /\ source \in {"file", "socket"}
  /\ n <= amount /\ n <= comes
  /\ outcome = "full" <=> n = amount
  /\ outcome = "ends" => n = comes
  /\ AddNext(n)
  /\ comes' = comes - n
  /\ state' = (state \ ({"SUCCESS", "PROCESSING", "MORE", "NOOP"}
                         \union IF n > 0 THEN {"END"} ELSE {}))
              \union (IF n > 0 \/ outcome = "ends" THEN {"PROCESSING"} ELSE {})
              \union (IF outcome # "fails" THEN {"SUCCESS"}
                      ELSE IF source = "file" THEN {"ERROR"} ELSE {})
              \union (IF n = 0 THEN {"NOOP"} ELSE {})
              \union (IF n < amount THEN {"MORE"} ELSE {})
  /\ UNCHANGED <<source, task, to, sent, from, began>>
-----------------------------------------------------------------------------
(* Buff_setUnsentStr and Buff_setUnsentIncr.                               *)
SetUnsentStr(u, i) == [u EXCEPT !.idx = i, !.s = Recorded(v, i), !.offset = 0]

MoveIn(u, n) ==
  LET h == Incr(Header(u.s, v), n) IN
  [u EXCEPT !.offset = @ + n,
            !.s = IF @.kind = "same" THEN @
                  ELSE [@ EXCEPT !.start = h.start, !.len = h.len]]

(* ... and the Str of the vector, when unsent.s is that Str.               *)
Moved(u, n) ==
  IF u.s.kind = "same"
  THEN LET h == Incr(Header(u.s, v), n)
       IN  [v EXCEPT ![u.s.at + 1].start = h.start, ![u.s.at + 1].len = h.len]
  ELSE v

(* Buff_sendToFd: the Str the position is in, all of it unless the         *)
(* descriptor fails after `n' bytes.  A write or send of a block that is   *)
(* not empty takes a byte at least or fails, so that the loop over partial *)
(* writes does not come to its branch for a write of none.                 *)
Current(u) ==
  IF u.s # NULL THEN u
  ELSE LET s == Recorded(v, IF u.idx > 0 THEN u.idx ELSE 0)
           h == Incr(Header(s, v), u.offset)
       IN  [u EXCEPT !.s = [s EXCEPT !.start = h.start, !.len = h.len]]

Buff_sendToFd ==
  LET u == Current(unsent)
      length == Header(u.s, v).len
      last == u.idx >= Len(v) - 1
      cleared == state \ {"SUCCESS", "NOOP", "PROCESSING", "MORE"}
  IN  \/ /\ to = "ok"
         /\ sent' = sent \o Bytes(u.s, v, length)
         /\ v' = Moved(u, length)
         /\ unsent' = [MoveIn(u, length) EXCEPT
                         !.idx = IF last THEN @ ELSE @ + 1,
                         !.s = IF last THEN NULL ELSE Span_Get(v, u.idx + 1),
                         !.total = @ - length]
         /\ state' = cleared \union {IF last THEN "PROCESSING" ELSE "MORE"}
         /\ UNCHANGED to
      \/ \E n \in 0 .. length - 1 :
           /\ to = "failed" => n = 0
           /\ sent' = sent \o Bytes(u.s, v, n)
           /\ unsent' = u
           /\ state' = cleared \union {"ERROR"}
           /\ to' = "failed"
           /\ UNCHANGED v

Buff_Flush ==
  /\ task = "idle" /\ source = "out"
  /\ task' = "flush" /\ began' = TRUE
  /\ UNCHANGED <<vecVars, unsent, state, source, comes, to, added, sent, from>>

Buff_Flush_Step ==
  /\ task = "flush"
  /\ IF unsent.total > 0
     THEN Buff_sendToFd
     ELSE /\ state' = (state \ {"MORE", "NOOP", "PROCESSING"}) \union {"SUCCESS", "END"}
          /\ UNCHANGED <<v, unsent, sent, to>>
  /\ task' = IF state' \intersect {"SUCCESS", "ERROR", "NOOP", "END"} = {}
             THEN "flush" ELSE "idle"
  /\ UNCHANGED <<total, tail, source, comes, added, from, began>>
-----------------------------------------------------------------------------
(* Buff_GetStr into a Str with room for `room' bytes.  From the vector it  *)
(* gives at most the rest of one Str; when that Str was shorter than       *)
(* unsent.total says and it is the last one, the loop goes on with         *)
(* unsent.s NULL.                                                          *)
GetFromVec(room) ==
  LET u == IF unsent.s = NULL THEN SetUnsentStr(unsent, 0) ELSE unsent
      length == Header(u.s, v).len
      n == IF length > room THEN room ELSE length
      left == u.total - n
      last == u.idx = Len(v) - 1
  IN  [bytes |-> Bytes(u.s, v, n),
       v |-> IF length > room THEN Moved(u, n) ELSE v,
       unsent |-> [IF length > room THEN MoveIn(u, n)
                   ELSE IF last THEN [u EXCEPT !.s = NULL, !.offset = 0]
                   ELSE SetUnsentStr(u, u.idx + 1) EXCEPT !.total = left],
       flags |-> (IF length > room THEN {} ELSE IF last THEN {"PROCESSING"} ELSE {"MORE"})
                 \union (IF left = 0 THEN {"LAST"} ELSE {}),
       crashed |-> length < room /\ last /\ left > 0]

(* ... from the descriptor, once unsent.total is zero: Buff_ReadToStr is   *)
(* one read, and Buff_Stat notices the end of a file, not of a socket.  A  *)
(* read that fails is an Error of both.                                    *)
GetFromFd(n) ==
  [bytes |-> [i \in 1 .. n |-> added + i], v |-> v, unsent |-> unsent,
   flags |-> {"PROCESSING", "LAST"}
             \union (IF n = 0 /\ source = "file" THEN {"END"} ELSE {}),
   crashed |-> FALSE]

FdFails == [bytes |-> <<>>, v |-> v, unsent |-> unsent,
            flags |-> {"ERROR", "LAST"}, crashed |-> FALSE]

(* The end of memory is not flagged.                                       *)
AtEnd_Unflagged == [bytes |-> <<>>, v |-> v, unsent |-> unsent,
                    flags |-> {"SUCCESS", "LAST"}, crashed |-> FALSE]

AtEnd == [bytes |-> <<>>, v |-> v, unsent |-> unsent,
          flags |-> {"SUCCESS", "END", "LAST"}, crashed |-> FALSE]

Reads(room) ==
  IF unsent.total > 0 THEN {GetFromVec(room)}
  ELSE IF source = "memory" THEN {AtEnd}
  ELSE {GetFromFd(n) : n \in {n \in 0 .. room : n <= comes /\ (n = 0 => comes = 0)}}
         \union {FdFails}

Take(r) ==
  /\ v' = r.v
  /\ unsent' = r.unsent
  /\ state' = r.flags \union (state \intersect {"END"})
  /\ IF unsent.total = 0
     THEN added' = added + Len(r.bytes) /\ comes' = comes - Len(r.bytes)
     ELSE UNCHANGED <<added, comes>>

(* A client whose pipe failed at both of its ends does not read on.        *)
Buff_GetStr(room) ==
  /\ task = "idle" /\ source # "out"
  /\ source = "memory" \/ to = "ok" \/ "ERROR" \notin state
  /\ \E r \in Reads(room) :
       /\ Take(r)
       /\ sent' = sent \o r.bytes
       /\ task' = IF r.crashed THEN "crashed" ELSE task
  /\ began' = TRUE
  /\ UNCHANGED <<total, tail, source, to, from>>

(* Buff_Pipe to an unbuffered Buff.  When that one has failed it raises an *)
(* Error and takes nothing more.                                           *)
Buff_Pipe ==
  /\ task = "idle" /\ source # "out"
  /\ task' = "pipe" /\ began' = TRUE
  /\ UNCHANGED <<vecVars, unsent, state, source, comes, to, added, sent, from>>

Buff_Pipe_Step ==
  /\ task = "pipe"
  /\ IF state \intersect {"END", "ERROR"} # {}
     THEN task' = "idle" /\ UNCHANGED <<v, unsent, state, sent, added, comes, to>>
     ELSE \E r \in Reads(BLOCK), n \in 0 .. BLOCK :
            /\ n <= Len(r.bytes)
            /\ to = "failed" => n = 0
            /\ Take(r)
            /\ sent' = sent \o SubSeq(r.bytes, 1, n)
            /\ to' = IF n < Len(r.bytes) THEN "failed" ELSE to
            /\ task' = IF r.crashed THEN "crashed" ELSE task
  /\ UNCHANGED <<total, tail, source, from, began>>
-----------------------------------------------------------------------------
(* Only the bytes of the last Str are counted.                             *)
Walk_CountsLast(u, n) ==
  LET length == Header(u.s, v).len
      i == u.idx + 1
  IN  IF n <= length THEN [MoveIn(u, n) EXCEPT !.total = u.total - n]
      ELSE [MoveIn(SetUnsentStr(u, i), n - length) EXCEPT !.total = u.total - (n - length)]

(* Seeks.  Buff_vecPosFrom moves the header inside the Str it is on and    *)
(* walks to the next ones (Walk); a header moved to the very end of its    *)
(* Str keeps its start.                                                    *)
Walk(u, n) ==
  LET room(i) == Header(Recorded(v, i), v).len
      before(i) == Header(u.s, v).len + (i - u.idx - 1) * SEG
      i == CHOOSE i \in u.idx .. Len(v) :
             /\ i = u.idx => n <= Header(u.s, v).len
             /\ i > u.idx => before(i) < n /\ (i < Len(v) => n <= before(i) + room(i))
      at == IF i = u.idx THEN u ELSE SetUnsentStr(u, i)
      rest == IF i = u.idx THEN n ELSE n - before(i)
  IN  [MoveIn(at, rest) EXCEPT !.total = u.total - n]

Back(u, n) ==
  LET h == Header(u.s, v)
      k == IF u.offset > n THEN n ELSE u.offset
      b == [u EXCEPT !.s.start = h.start - k, !.s.len = h.len + k,
                     !.offset = @ - k, !.total = @ + k]
  IN  IF n = k THEN b
      ELSE [MoveIn(b, b.s.len - (n - k)) EXCEPT !.total = b.total + n - k]

VecPos(u, n) == IF n > 0 THEN Walk(u, n) ELSE Back(u, -n)

Started == IF unsent.s = NULL
           THEN [SetUnsentStr(unsent, 0) EXCEPT !.total = total] ELSE unsent

(* The place in the stream the client asks for.                            *)
Place == from + Len(sent)

Moves(p) == from' = p /\ sent' = <<>> /\ began' = TRUE

(* The walks that stay in the stream, go forward, or go back in a Str      *)
(* whose end the header has not reached.                                   *)
MaySeek(u, n) ==
  /\ u.s # NULL
  /\ u.total - n \in 0 .. total
  /\ n < 0 => u.offset >= -n /\ Header(u.s, v).len > 0

Buff_PosAbs(p) ==
  /\ task = "idle" /\ source = "memory" /\ v # <<>>
  /\ LET n == p + Started.total - total IN
       /\ p + Started.total <= total     (* or it raises an Error *)
       /\ MaySeek(Started, n)
       /\ unsent' = VecPos(Started, n)
  /\ Moves(p)
  /\ UNCHANGED <<vecVars, state, source, comes, task, to, added>>

Buff_Pos(n) ==
  /\ task = "idle" /\ source = "memory" /\ v # <<>>
  /\ MaySeek(Started, n)
  /\ unsent' = VecPos(Started, n)
  /\ Moves(IF unsent.s = NULL THEN n ELSE Place + n)
  /\ UNCHANGED <<vecVars, state, source, comes, task, to, added>>

(* From the end: the last Str, and back in it from its start.              *)
Buff_PosEnd(n) ==
  /\ task = "idle" /\ source = "memory" /\ v # <<>>
  /\ LET u == [SetUnsentStr(unsent, Len(v) - 1) EXCEPT !.total = 0] IN
       IF n = 0
       THEN /\ unsent' = [unsent EXCEPT !.idx = Len(v) - 1, !.s = NULL, !.total = 0]
            /\ state' = state \union {"END"}
       ELSE /\ n <= Header(u.s, v).len
            /\ unsent' = Back(u, n)
            /\ UNCHANGED state
  /\ Moves(total - n)
  /\ UNCHANGED <<vecVars, source, comes, task, to, added>>

(* lseek() of a file; a socket has no position.                            *)
Buff_PosFd(p) ==
  /\ task = "idle" /\ source \in {"file", "socket"} /\ v = <<>>
  /\ IF source = "file" /\ p >= 0
     THEN /\ p <= added + comes
          /\ added' = p /\ comes' = added + comes - p
          /\ state' = (state \ {"PROCESSING"})
                      \union (IF p > 0 THEN {"PROCESSING"} ELSE {})
          /\ Moves(p)
     ELSE /\ state' = (state \ {"PROCESSING"}) \union {"ERROR", "END"}
          /\ UNCHANGED <<added, comes, sent, from, began>>
  /\ UNCHANGED <<vecVars, unsent, source, task, to>>
-----------------------------------------------------------------------------
(* Buff_Make.                                                              *)
Init ==
  /\ v = <<>> /\ total = 0 /\ tail = -1
  /\ unsent = [s |-> NULL, offset |-> 0, idx |-> 0, total |-> 0]
  /\ state = {}
  /\ source \in {"memory", "out", "file", "socket"}
  /\ comes \in IF source \in {"memory", "out"} THEN {0} ELSE 0 .. MAX_BYTES
  /\ task = "idle" /\ to = "ok"
  /\ added = 0 /\ sent = <<>> /\ from = 0 /\ began = FALSE

Next ==
  \/ \E n \in 1 .. MAX_BYTES : Buff_AddBytes(n)
  \/ \E amount \in 1 .. MAX_BYTES, n \in 0 .. MAX_BYTES, outcome \in ReadOutcomes :
       Buff_ReadAmount(amount, n, outcome)
  \/ Buff_Flush \/ Buff_Flush_Step
  \/ \E room \in 1 .. SEG + 1 : Buff_GetStr(room)
  \/ Buff_Pipe \/ Buff_Pipe_Step
  \/ \E p \in 0 .. MAX_BYTES : Buff_PosAbs(p) \/ Buff_PosEnd(p)
  \/ \E n \in -MAX_BYTES .. MAX_BYTES : Buff_Pos(n)
  \/ \E p \in -1 .. MAX_BYTES : Buff_PosFd(p)

Spec == Init /\ [][Next]_vars

FairSpec == Spec /\ WF_vars(Buff_Flush_Step) /\ WF_vars(Buff_Pipe_Step)
-----------------------------------------------------------------------------
TypeOK ==
  /\ \A i \in 1 .. Len(v) : v[i].len \in 0 .. SEG /\ v[i].start \in 0 .. SEG
  /\ {total, comes, added} \subseteq 0 .. MAX_BYTES
  /\ tail \in -1 .. Len(v) - 1
  /\ unsent.idx \in 0 .. Len(v) /\ unsent.total \in 0 .. total
  /\ state \subseteq Flags
  /\ source \in {"memory", "out", "file", "socket"}
  /\ task \in {"idle", "flush", "pipe", "crashed"} /\ to \in {"ok", "failed"}
  /\ from \in 0 .. MAX_BYTES /\ began \in BOOLEAN

(* The bytes that leave the Buff are those behind the place the client     *)
(* moved to, in the order they were added, none twice and none left out,   *)
(* whatever Strs they are spread over, however large the pieces are in     *)
(* which they are taken, and when the descriptor fails.                    *)
InOrder == \A i \in 1 .. Len(sent) : sent[i] = from + i

(* unsent.total, which ends every loop over the vector, is what is left of *)
(* the stream, and the Buff never reads through the NULL that unsent.s is  *)
(* after the last Str.                                                     *)
UnsentExact ==
  /\ task # "crashed"
  /\ source \in {"memory", "out"} /\ to = "ok" => unsent.total = added - Place

(* A flush ends, and so does the draining of memory or of a file.          *)
LoopsEnd ==
  /\ task = "flush" ~> task # "flush"
  /\ task = "pipe" /\ source # "socket" ~> task # "pipe"
=============================================================================
