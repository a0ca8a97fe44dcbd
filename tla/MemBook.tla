------------------------------ MODULE MemBook ------------------------------
(***************************************************************************)
(* The page allocator, src/src/mod/base/mem/mem_book.c, with the chapters  *)
(* (MemCh) that take pages from it and give them back.                     *)
(*                                                                         *)
(* A page that a chapter frees goes to the Span "retired"; WipePages       *)
(* empties "retired" backwards, zeroes each page and adds it to the Span   *)
(* "recycled", from which GetPage serves before it takes a fresh page.     *)
(* Both Spans allocate their slabs from the book's own chapter book->m,    *)
(* which takes its pages from the same book: adding a page to "recycled"   *)
(* can re-enter GetPage while the Iter of "recycled" is half way through.  *)
(***************************************************************************)
EXTENDS SpanIter, Sequences

CONSTANTS
  Chapters,    (* the chapters (MemCh) of the program                      *)
  PAGE_MAX,    (* pages of the book, page 0 (the book's own) not counted   *)
  PAGE_SLABS,  (* slabs that fit on a page of book->m                      *)
  BASE_SLABS,  (* what slabs MemBook_Make may leave room for on page 0     *)
  MAX_PAGES    (* bound of the model: the most pages one chapter takes     *)

(* What arch.h's constants satisfy: a page serves any two requests for     *)
(* slabs, the Spans have room for more than every page of the book, and    *)
(* no page is at address 0.                                                *)
ASSUME BookAssumption ==
  /\ PAGE_MAX \in Nat /\ PAGE_SLABS \in Nat /\ BASE_SLABS \subseteq Nat
  /\ PAGE_SLABS >= 4 * MAX_DIMS
  /\ MAX_PAGES \in Nat \ {0}
  /\ PAGE_MAX < Limit
  /\ NULL \notin 0 .. PAGE_MAX

VARIABLES
  book,   (* idx: the last fresh page; retired, recycled: the two Spans;   *)
          (* m: the page Span of book->m; room: slabs its pages still hold;*)
          (* dirty: the pages whose bytes are not all zero; fatal: the     *)
          (* process ended in Fatal; misled: the Iter of "recycled" was    *)
          (* left with another page than the top (see AddRecycled)         *)
  owns    (* the pages of each chapter in the order of its page Span;      *)
          (* an empty sequence is a chapter that does not exist            *)

vars == <<book, owns>>

Page == 1 .. PAGE_MAX
-----------------------------------------------------------------------------
(* Faults for the runs to find, each in front of the operator it replaces: *)
(* the page is not taken from the Span ...                                 *)
GetPage_Kept(b) ==
  IF b.recycled.nvalues > 0
  THEN [page |-> b.recycled.value,
        book |-> [b EXCEPT !.recycled = Iter_Prev(@)]]
  ELSE [page |-> b.idx + 1, book |-> [b EXCEPT !.idx = @ + 1]]

(* ... or the Iter does not step down to the page below.                   *)
GetPage_NoPrev(b) ==
  IF b.recycled.nvalues > 0
  THEN [page |-> b.recycled.value,
        book |-> [b EXCEPT !.recycled = Iter_Remove(@)]]
  ELSE [page |-> b.idx + 1, book |-> [b EXCEPT !.idx = @ + 1]]

(* The next page and the book without it.                                  *)
GetPage(b) ==
  IF b.recycled.nvalues > 0
  THEN [page |-> b.recycled.value,
        book |-> [b EXCEPT !.recycled = Iter_Prev(Iter_Remove(@)),
                           !.dirty = @ \union {b.recycled.value},
                           !.fatal = @ \/ b.recycled.value = NULL]]
  ELSE [page |-> b.idx + 1,
        book |-> [b EXCEPT !.idx = @ + 1, !.dirty = @ \union {b.idx + 1},
                           !.fatal = @ \/ b.idx + 1 > PAGE_MAX]]

(* book->m takes a page for its slabs; the slabs of its own page Span go   *)
(* on that page too.                                                       *)
AttachToBook(b, page) ==
  [b EXCEPT !.m = Iter_Add(@, page),
            !.room = @ + PAGE_SLABS - SlabCost(b.m, b.m.max_idx + 1)]

(* n slabs from book->m for a Span that GetPage does not touch.            *)
AllocSlabs(b, n) ==
  IF n <= b.room THEN [b EXCEPT !.room = @ - n]
  ELSE LET got == GetPage(b)
           a == AttachToBook(got.book, got.page)
       IN  [a EXCEPT !.room = @ - n]

MemBook_FreePage(b, page) ==
  LET i == b.retired.max_idx + 1
  IN  IF b.fatal \/ i >= Limit THEN [b EXCEPT !.fatal = TRUE]
      ELSE LET a == AllocSlabs(b, SlabCost(b.retired, i))
           IN  [a EXCEPT !.retired = Iter_Add(@, page)]

(* Iter_Add(&book->recycled, page).  When a slab it needs finds no room,   *)
(* the GetPage underneath returns the page being added (it->value), and    *)
(* its Iter_Remove and Iter_Prev turn the operation in progress into a     *)
(* GET at the last index.  If the tree was growing, the GET then goes down *)
(* from the new root and finds that index.  If the tree was deep enough    *)
(* and only the leaf was missing, the leaf is linked and the GET goes on   *)
(* at offset 0 of the leaf that Iter_Prev stopped in: the page there will  *)
(* be handed out in place of the top.                                      *)
AddRecycled(b, page) ==
  LET x == b.recycled
      i == x.max_idx + 1
      grows == b.room < GrowthSlabs(x, i)
      a == AttachToBook([b EXCEPT !.dirty = @ \union {page}], page)
      turned == [x EXCEPT
                   !.dims = DimsNeeded(i),
                   !.leaves = IF grows THEN x.leaves ELSE x.leaves \union {i \div STRIDE},
                   !.idx = x.max_idx,
                   !.value = x.slots[IF grows THEN x.max_idx
                                     ELSE (x.max_idx \div STRIDE) * STRIDE],
                   !.processing = TRUE, !.end = FALSE]
  IN  IF SlabCost(x, i) <= b.room
      THEN [b EXCEPT !.recycled = Iter_Add(@, page), !.room = @ - SlabCost(x, i)]
      ELSE [a EXCEPT
              !.room = @ - (IF grows THEN GrowthSlabs(x, i) ELSE SlabCost(x, i)),
              !.misled = @ \/ ~grows,
              !.recycled = turned]

(* A page leaves "retired" without reaching "recycled".                    *)
WipeOne_Drops(b) == [b EXCEPT !.retired = Iter_Prev(Iter_Remove(@))]

(* Pages are not zeroed.                                                   *)
WipeOne_Dirty(b) ==
  LET page == b.retired.value
      a == IF page = NULL THEN b ELSE AddRecycled(b, page)
  IN  [a EXCEPT !.retired = Iter_Prev(Iter_Remove(@))]

(* One pass of the loop of MemBook_WipePages, and the whole of it: every   *)
(* pass stands lower than the one before.                                  *)
WipeOne(b) ==
  LET page == b.retired.value
      wiped == [b EXCEPT !.dirty = @ \ {page}]
      a == IF page = NULL THEN b ELSE AddRecycled(wiped, page)
  IN  [a EXCEPT !.retired = Iter_Prev(Iter_Remove(@))]

(* The wipe is forgotten.                                                  *)
MemBook_WipePages_Not(b) == b

MemBook_WipePages(b) ==
  LET pass[n \in 0 .. Limit + 1] ==
        IF n = 0 THEN [b EXCEPT !.retired = Iter_Prev(@)]
        ELSE LET a == pass[n - 1]
             IN  IF a.retired.end THEN a ELSE WipeOne(a)
  IN  IF b.fatal THEN b ELSE pass[Limit + 1]

(* MemCh_Free and MemCh_FreeTemp: the pages one by one, then the wipe.     *)
FreeEach(b, pages) ==
  LET freed[n \in 0 .. Len(pages)] ==
        IF n = 0 THEN b ELSE MemBook_FreePage(freed[n - 1], pages[n])
  IN  freed[Len(pages)]

FreePages(b, pages) == MemBook_WipePages(FreeEach(b, pages))

(* The members of a sequence at the places S, in order.                    *)
Picked(s, S) ==
  [k \in 1 .. Cardinality(S) |->
     s[CHOOSE i \in S : Cardinality({j \in S : j <= i}) = k]]
-----------------------------------------------------------------------------
Init ==
  /\ \E base \in BASE_SLABS :
       book = [idx |-> 0, retired |-> Span_Make, recycled |-> Span_Make,
               m |-> Store(Span_Make, 0, 0), room |-> base,
               dirty |-> {0}, fatal |-> FALSE, misled |-> FALSE]
  /\ owns = [c \in Chapters |-> <<>>]

TakePage(c) ==
  LET got == GetPage(book)
  IN  /\ book' = got.book
      /\ owns' = [owns EXCEPT ![c] = Append(@, got.page)]

MemCh_Make(c) == ~book.fatal /\ owns[c] = <<>> /\ TakePage(c)

MemCh_AddPage(c) == ~book.fatal /\ Len(owns[c]) \in 1 .. MAX_PAGES - 1 /\ TakePage(c)

(* Any of the pages after the first can be of a temporary level.           *)
MemCh_FreeTemp(c) ==
  /\ ~book.fatal
  /\ owns[c] # <<>>
  /\ \E temp \in SUBSET (2 .. Len(owns[c])) :
        /\ book' = FreePages(book, Picked(owns[c], temp))
        /\ owns' = [owns EXCEPT ![c] = Picked(@, DOMAIN @ \ temp)]

MemCh_Free(c) ==
  /\ ~book.fatal
  /\ owns[c] # <<>>
  /\ book' = FreePages(book, owns[c])
  /\ owns' = [owns EXCEPT ![c] = <<>>]

Next == \E c \in Chapters :
          MemCh_Make(c) \/ MemCh_AddPage(c) \/ MemCh_FreeTemp(c) \/ MemCh_Free(c)

Spec == Init /\ [][Next]_vars
-----------------------------------------------------------------------------
Pages(s) == {s[i] : i \in DOMAIN s}
Held(x)  == {x.slots[i] : i \in Occupied(x)}

(* The process has not ended, and GetPage was never misled.                *)
Intact(b) == ~b.fatal /\ ~b.misled

TypeOK ==
  /\ book.fatal \in BOOLEAN /\ book.misled \in BOOLEAN
  /\ Intact(book) =>
       /\ book.idx \in 0 .. PAGE_MAX /\ book.room \in Nat
       /\ owns \in [Chapters -> Seq(Page)]
       /\ Held(book.retired) \union Held(book.recycled) \subseteq Page
       /\ Held(book.m) \subseteq Page \union {0}

(* A page has one place: one chapter, book->m, "retired" or "recycled",    *)
(* once.  GetPage never hands out a page that something still uses.        *)
PageExclusive ==
  Intact(book) =>
    LET Once(x) == Cardinality(Held(x)) = Cardinality(Occupied(x))
    IN  /\ \A c \in Chapters : Cardinality(Pages(owns[c])) = Len(owns[c])
        /\ \A c, d \in Chapters : c # d => Pages(owns[c]) \intersect Pages(owns[d]) = {}
        /\ \A c \in Chapters : Pages(owns[c]) \intersect
              (Held(book.m) \union Held(book.retired) \union Held(book.recycled)) = {}
        /\ Held(book.m) \intersect (Held(book.retired) \union Held(book.recycled)) = {}
        /\ Held(book.retired) \intersect Held(book.recycled) = {}
        /\ Once(book.m) /\ Once(book.retired) /\ Once(book.recycled)

(* No page taken from the book is forgotten.                               *)
NoPageLost ==
  Intact(book) =>
    1 .. book.idx \subseteq
      Held(book.m) \union Held(book.retired) \union Held(book.recycled)
        \union UNION {Pages(owns[c]) : c \in Chapters}

(* "recycled" is a stack and its Iter carries the top, the page GetPage    *)
(* returns before it removes the slot the Iter stands on.                  *)
RecycledTop ==
  Intact(book) =>
    LET x == book.recycled
    IN  /\ Occupied(x) = 0 .. x.nvalues - 1
        /\ x.max_idx = x.nvalues - 1
        /\ x.nvalues > 0 => x.idx = x.max_idx /\ x.value = x.slots[x.max_idx]

(* MemBook_GetStats counts as in use what is not in "recycled".            *)
Total == book.idx - book.recycled.nvalues

(* Between two operations at most one freed page waits in "retired": with  *)
(* every chapter freed, the pages in use are at most one more than those   *)
(* the book needs for itself.                                              *)
RetiredLag ==
  Intact(book) =>
    /\ Cardinality(Occupied(book.retired)) <= 1
    /\ (\A c \in Chapters : owns[c] = <<>>) => Total <= Cardinality(Held(book.m))

(* A page handed to a chapter is zeroed.                                   *)
HandedOutClean ==
  [][Intact(book') =>
       \A c \in Chapters : Pages(owns'[c]) \subseteq
         Pages(owns[c]) \union (Page \ book.dirty)]_vars
=============================================================================
