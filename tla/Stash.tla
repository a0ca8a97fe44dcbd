------------------------------- MODULE Stash -------------------------------
(***************************************************************************)
(* An arena written to a file and read back at other addresses: the walk   *)
(* over the records of an arena (src/src/mod/base/mem/mem_iter.c) and the  *)
(* packing of the pointers it meets (src/src/mod/base/io/stash.c).         *)
(*                                                                         *)
(* A page is its address and its records in the order they were allocated, *)
(* which is from the end of the page to its front; the walk goes from the  *)
(* front to the end.  A record is its type and its pointers.               *)
(***************************************************************************)
EXTENDS Integers, Sequences
LOCAL INSTANCE FiniteSets

CONSTANTS
  NULL, LOST,
  SLOTS,     (* slots of a slab (16)                                       *)
  PAGE_RECS  (* records that a page of a session has room for              *)

Ptr(page, rec) == [page |-> page, rec |-> rec]
Coord(idx, rec) == [idx |-> idx, rec |-> rec]

(* Where a walk stands: on the page itself (rec 0), or on one of its       *)
(* records.  Between two pages it reports the old one again, as MORE.      *)
MemIter_Init == [sl |-> 1, rec |-> NULL, more |-> TRUE, end |-> FALSE]

MemIter_Next(mit, pages) ==
  IF mit.rec = NULL THEN [mit EXCEPT !.rec = 0]
  ELSE IF mit.rec = 0 THEN [mit EXCEPT !.rec = Len(pages[mit.sl].recs), !.more = FALSE]
  ELSE IF mit.rec > 1 THEN [mit EXCEPT !.rec = @ - 1]
  ELSE IF mit.sl < Len(pages) THEN [MemIter_Init EXCEPT !.sl = mit.sl + 1]
  ELSE [mit EXCEPT !.end = TRUE]

(* What a walk reports of one page or of two, and its end.                 *)
Steps(pages) ==
  Len(pages[1].recs) + 2 + (IF Len(pages) = 1 THEN 0 ELSE Len(pages[2].recs) + 2)

(* What a walk reports, one after the other; at its end it stays.          *)
Walk(pages) ==
  LET walk[n \in 0 .. Steps(pages)] ==
        IF n = 0 THEN MemIter_Init ELSE MemIter_Next(walk[n - 1], pages)
  IN  walk

(* The address a walk reports: of the page while there is MORE.            *)
setMemIdent(mit, pages) ==
  IF mit.more THEN Ptr(pages[IF mit.rec = NULL THEN mit.sl - 1 ELSE mit.sl].addr, 0)
  ELSE Ptr(pages[mit.sl].addr, mit.rec)

(* The number of the page of each address of an arena, counted as the walk *)
(* says MORE.                                                              *)
Indexed(acc, mit, pages) ==
  LET slIdx == acc.slIdx + (IF mit.more THEN 1 ELSE 0)
      ident == setMemIdent(mit, pages)
  IN  [slIdx |-> slIdx,
       tbl |-> [a \in DOMAIN acc.tbl \union {ident} |-> IF a = ident THEN slIdx ELSE acc.tbl[a]]]

MemIter_GetTable(pages) ==
  LET mits == Walk(pages)
      table[n \in 0 .. Steps(pages)] ==
        IF n = 0 THEN [slIdx |-> 0, tbl |-> <<>>]
        ELSE IF mits[n].end THEN table[n - 1]
        ELSE Indexed(table[n - 1], mits[n], pages)
  IN  table[Steps(pages)].tbl

(* The pointers of a record that are packed: the attributes that its Map   *)
(* names, the pointers of a slab up to the first that is NULL.             *)
Mapped(rec) ==
  {i \in DOMAIN rec.ptrs : rec.of = "slab" => \A j \in 1 .. i : rec.ptrs[j] # NULL}

Stash_PackAddr(ptr, tbl) == Coord(tbl[ptr], ptr.rec)

Stash_UnpackAddr_Off(coord, pages) == Ptr(pages[coord.idx].addr, coord.rec + 1)

Stash_UnpackAddr(coord, pages) == Ptr(pages[coord.idx].addr, coord.rec)

(* What a record adds to the checksum of a file: its stored pointers.      *)
Stored(rec) == Cardinality(Mapped(rec))

(* Packing and unpacking: to is what each pointer that may occur becomes.  *)
Packed(rec, to) ==
  [rec EXCEPT !.ptrs = [i \in DOMAIN rec.ptrs |->
                          IF i \in Mapped(rec) THEN to[rec.ptrs[i]] ELSE rec.ptrs[i]]]

(* Once the arena's own record is packed its list of pages is no longer    *)
(* there, so the walk of Stash_FlushFree does not find a second.           *)
PackOne(acc, mit, packing, to) ==
  IF acc.failed THEN acc
  ELSE IF mit.more THEN [acc EXCEPT !.failed = packing /\ mit.rec = 0 /\ mit.sl > 1]
  ELSE LET rec == acc.pages[mit.sl].recs[mit.rec]
       IN  IF \E i \in Mapped(rec) : rec.ptrs[i] \notin DOMAIN to
           THEN [acc EXCEPT !.failed = TRUE]
           ELSE [acc EXCEPT !.checksum = @ + Stored(rec),
                            !.pages[mit.sl].recs[mit.rec] = Packed(rec, to)]

Stash_PackMemCh(pages, packing, to) ==
  LET mits == Walk(pages)
      done[n \in 0 .. Steps(pages)] ==
        IF n = 0 THEN [pages |-> pages, checksum |-> 0, failed |-> FALSE]
        ELSE IF mits[n].end THEN done[n - 1]
        ELSE PackOne(done[n - 1], mits[n], packing, to)
  IN  done[Steps(pages)]

(* What Stash_FlushFree writes; it failed when a pointer leads out of the  *)
(* arena, which is an Error.                                               *)
Stash_FlushFree(pages) ==
  LET tbl == MemIter_GetTable(pages)
  IN  Stash_PackMemCh(pages, TRUE, [p \in DOMAIN tbl |-> Stash_PackAddr(p, tbl)])

(* Stash_FromStream: a page is read to a new address and its pointers are  *)
(* unpacked; one without a whole header, or with the count of another      *)
(* file, gives nothing.                                                    *)
Coords(pages) ==
  {Coord(i, n) : i \in DOMAIN pages, n \in 0 .. Len(pages[1].recs)}

Stash_FromStream(file, addr) ==
  LET read == << [file.pages[1] EXCEPT !.addr = addr] >>
      mem == Stash_PackMemCh(read, FALSE, [c \in Coords(read) |-> Stash_UnpackAddr(c, read)])
  IN  IF file.pages = <<>> \/ mem.failed \/ mem.checksum # file.checksum THEN NULL ELSE mem.pages
-----------------------------------------------------------------------------
(* An arena that a Table owns: the records a MemCh makes for itself, those *)
(* of the Table, and what is added.  What does not fit goes on a second    *)
(* page.                                                                   *)
Rec(of, ptrs) == [of |-> of, ptrs |-> ptrs, key |-> NULL, text |-> NULL]

MemCh_Map(itp, owner) == Rec("memctx", <<itp, owner>>)
Span_Map(m, root) == Rec("span", <<m, root>>)
Pointers_Map(first) == Rec("slab", [i \in 1 .. SLOTS |-> IF i = 1 THEN first ELSE NULL])
Str_Map(text) == [Rec("str", <<>>) EXCEPT !.text = text]
Hashed_Map(key, value) == [Rec("hashed", <<value>>) EXCEPT !.key = key]

Table_Make(addr) ==
  << [addr |-> addr,
      recs |-> << MemCh_Map(Ptr(addr, 2), Ptr(addr, 4)),
                  Span_Map(Ptr(addr, 1), Ptr(addr, 3)), Pointers_Map(Ptr(addr, 0)),
                  Span_Map(Ptr(addr, 1), Ptr(addr, 5)), Pointers_Map(NULL) >>] >>

Slab(pages) == pages[1].recs[5].ptrs

(* A pointer that leads to another page than those of the arena.           *)
Dangling(pages, ptr) ==
  ptr # NULL /\ \A i \in DOMAIN pages : ptr.page # pages[i].addr

PageOf(pages, ptr) == CHOOSE i \in DOMAIN pages : pages[i].addr = ptr.page

At(pages, ptr) == pages[PageOf(pages, ptr)].recs[ptr.rec]

(* A record is put on the last page, or on a second one, at an address     *)
(* that no pointer saved before leads to.                                  *)
MemCh_AllocOf(pages, rec) ==
  LET more == -pages[1].addr
  IN  IF Len(pages) = 1 /\ Len(pages[1].recs) >= PAGE_RECS
      THEN Append([pages EXCEPT ![1].recs[3].ptrs[2] = Ptr(more, 0)],
                  [addr |-> more, recs |-> <<rec>>])
      ELSE [pages EXCEPT ![Len(pages)].recs = Append(@, rec)]

(* What was put there last.                                                *)
Newest(pages) ==
  LET page == pages[Len(pages)] IN Ptr(page.addr, Len(page.recs))

(* Table_Set of a key whose slot is free.                                  *)
Table_Add(pages, slot, key, text) ==
  LET str == MemCh_AllocOf(pages, Str_Map(text))
      hashed == MemCh_AllocOf(str, Hashed_Map(key, Newest(str)))
  IN  [hashed EXCEPT ![1].recs[5].ptrs[slot] = Newest(hashed)]

(* Table_Set of a key that is there: it has a new value.                   *)
Table_Replace(pages, slot, text) ==
  LET str == MemCh_AllocOf(pages, Str_Map(text))
      entry == Slab(pages)[slot]
  IN  [str EXCEPT ![PageOf(str, entry)].recs[entry.rec].ptrs = <<Newest(str)>>]

(* What Table_Get finds: the text of each slot, NULL, or LOST at the end   *)
(* of a pointer into a page that is not the arena's.                       *)
Read(pages, ptr) ==
  IF Dangling(pages, ptr) THEN LOST ELSE At(pages, At(pages, ptr).ptrs[1]).text

Contents(pages) ==
  [i \in 1 .. SLOTS |-> IF Slab(pages)[i] = NULL THEN NULL ELSE Read(pages, Slab(pages)[i])]
=============================================================================
