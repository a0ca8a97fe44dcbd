# Caneka in TLA+

Caneka (`src/`) is a C runtime with its own memory pool, sequences, tables,
strings, buffers, error handling and incremental parser, an HTTP(S) server, a
session store and a build tool made of them.  It is single-threaded: what makes
it hard is not threads but code that runs in the middle of other code (an error
handler inside a step, the allocator inside the allocator), iterators that keep
their position while the container under them changes, text that arrives in
pieces, files that a stopped process leaves half written, and a server loop that
keeps many half-finished requests at once.  This directory holds the
specifications of these parts, the configurations that model-check them with
TLC, and proofs for TLAPS.

## Inventory of the system

Paths are below `src/src/mod/`, those of the build tool below
`src/src/programs/`.  The last column names the modules; `PROJECT.json` says
what each leaves out.

| Part | Source | State | Operations | Hard because | Correct when | Modules |
|---|---|---|---|---|---|---|
| page pool `MemBook` | `base/mem/mem_book.c`, `mem_page.c` | last fresh page, Spans `retired` and `recycled`, the pool's own arena | GetPage, FreePage, WipePages | the Spans allocate from the pool they describe; Iters stand where the last call left them | a page has one owner, none is lost, what is handed out is zeroed | `MemBook`, `MemBookProofs` |
| arenas `MemCh` | `base/mem/mem_chapter.c` | page Span, level | Make, AddPage, FreeTemp, Free | levels of temporary memory interleave on pages | freeing frees just what it should | `MemBook` (pages only) |
| `Span`, `Iter` | `base/mem/iter.c`, `span.c` | radix-16 tree of slabs, `nvalues`, `max_idx`; position, value, flags | Set, Get, Add, Remove, Next, Prev | depth changes while an Iter stands in the tree; deep and shallow trees treat empty slots differently | an array with holes | `SpanIter`, `SpanProofs` |
| `MemIter` | `base/mem/mem_iter.c`, `mem_maps.c` | position in an arena | Next | walks raw memory by type | every record once | `Stash` |
| `Queue`, `Shelf` | `ext/navigate/queue.c`, `base/sequence/shelf.c` | items, criteria, shelf of free indices | Add, Set, Remove, Next | a pass is interrupted by removals and additions; spent entries stay above the top of the shelf | a pass returns what is ready, once | `Queue`, `QueueProofs` |
| `Table` | `base/sequence/table.c` | Span of Hashed records at probed positions | Set, Get, UnSet | removal inside a probe sequence; growth changes the positions probed | a map | `Table`, `KeyMap`, `TableProofs` |
| strings | `base/bytes/str.c`, `strvec.c`, `str_equals.c` | vectors of Strs held by pointer, an anchor | Add, AddVec, AddChain, AddBytes, Incr, Pop, Anchor, Return, Copy, ReAlign, comparison | Strs are shared between vectors; texts are cut at different places | a vector says what was done to it | `StrVec` |
| cursor | `base/bytes/cursor.c` | position in a vector that grows | NextByte, Incr, Decr, Add, Update | the end of a Str is not the end of the text | the byte at a position | `Cursor` |
| paths | `base/sequence/path.c`, `base/io/ioutil.c` | flags on separators | Annotate, Relativise, Dir, Fname, Ext, SwapExt, AddExt | only the flags are looked at later | the same file, or an error | `Paths` |
| buffers | `base/io/buff.c` | vector, `unsent` position, descriptor | Add, Read, Flush, GetStr, Pipe, Pos | short writes and reads; `unsent` is now a copy of a Str, now the Str | the bytes written, in order | `Buff`, `IoProofs` |
| directories | `base/io/dir.c` | a climb, its flags | Climb, Gather, GatherByExt, GatherSel | entries come in any order; one callback's answer is kept for the next entry | every file once | `Dirs`, `IoProofs` |
| stash | `base/io/stash.c` | image of an arena | FlushFree, FromStream | pointers become places in pages and back | the arena comes back | `Stash` |
| errors | `base/types/error.c` | "in error" flag, handlers | Error, Fatal | handlers run inside the failing code | one handler per owner | in `Serve`, `Ssid`, `Login` |
| parser | `ext/parser/*.c` | marks, Matches, Snips | SetMark, RunMatches, Dispatch, Finalize | input arrives in pieces; alternatives are matched side by side | result independent of the pieces | `Match`, `Roebling` |
| formats | `ext/format/**` | patterns, and what their captures build | capture callbacks | one stack, searched by type | the document that was written | `Formats`, `Captures`, `Config` |
| server | `ext/serve/*.c` | listening fds, a Queue of `Req`, each with a route | Serve, AcceptPoll, Handle, the steps | requests at every stage at once; errors inside steps; clients that stall or leave | each request answered once, then freed | `Serve`, `ServeProofs` |
| binary persistence | `ext/persist/binseg.c` | a log of entries | Send, Load | a writer that stops between two entries | load of what was sent | `BinSeg` |
| sessions | `passport/session/ssid.c` | a directory and a stash each | Start, Open, Update, Close, Destroy | files renewed in steps; stops | one directory per session, its last whole text | `Ssid`, `PersistProofs` |
| logins | `passport/session/login.c` | a directory and a file per property | Create, Open, Refresh, Persist, Destroy | the same | what was persisted stays | `Login`, `PersistProofs` |
| build tool | `buildeka/*.c` | modules, objects, libraries, mtimes | bootstrap's menu, ParseDependencies, BuildModule, clean | staleness by time in seconds; stops | what is stale is rebuilt | `Buildeka`, `Bootstrap`, `BuildProofs` |
| `Slotter` | `ext/navigate/slotter*.c` | slots with criteria | as Queue | no program uses it yet | - | - |
| subprocesses, terminal, time, TLS, n-grams | `base/io/subprocess.c`, `base/termio`, `base/util`, `third/openssl`, `algo/ngram` | - | - | calls of the system or of a library, layout, experiments | - | - |

How they interact: everything allocates from a `MemCh`, which takes pages from
`MemBook`; every sequence is a `Span` reached through an `Iter`, also inside
the allocator.  `Queue` is three Spans with one position each.  The server
keeps its requests in a `Queue`, each request keeps its remaining steps in a
`Span` (the route) and owns an arena; `Error()` finds the request through the
owner of that arena.  Parsers read a `StrVec` through a `Cursor`, are fed by the
read step of a request or from a `Buff` on a file, and build `Inst`s and
`Table`s.  A session is a `Table` whose arena is written by the stash and read
back at another address.  The build tool gathers files with `Dir_Climb` and
compares their times.

## Modules

| Module | Models | Uses |
|---|---|---|
| `SpanIter` | a Span and the Iter on it: operators on one record | |
| `SpanProofs` | what those operators do to a Span: lemmas | `SpanIter` |
| `MemBook` | the page pool and the arenas that use it | `SpanIter` |
| `MemBookProofs` | proofs about `MemBook` | `MemBook`, `SpanProofs` |
| `Queue` | the queue, its criteria and its shelf | `SpanIter` |
| `QueueProofs` | proofs about `Queue` | `Queue`, `SpanProofs` |
| `KeyMap` | what a table promises: a partial function | |
| `Table` | the hash table, which implements `KeyMap` | `SpanIter`, `KeyMap` |
| `TableProofs` | proofs about `Table` | `Table`, `SpanProofs` |
| `Serve` | the server loop and the routes of requests | `Queue`, `SpanIter` |
| `ServeProofs` | proofs about `Serve` | `Serve`, `QueueProofs` |
| `Buff` | one Buff, its vector and its descriptor | |
| `Cursor` | the cursor: operators on one record | |
| `Match` | one pattern, fed byte by byte | `Cursor` |
| `Formats` | the grammars: steps and patterns | |
| `Config` | instances, and what a configuration file becomes | `Formats` |
| `Captures` | what the other formats become | `Config` |
| `Roebling` | the parser, fed in pieces | `Match`, `Captures` |
| `StrVec` | two texts that share their Strs | |
| `Paths` | one path, taken apart and put together | |
| `Dirs` | one climb | |
| `IoProofs` | proofs about `Buff` and `Dirs`, which do not interact | `Buff`, `Dirs` |
| `Stash` | the image of an arena: operators on pages | |
| `Ssid` | sessions on disk and the process that uses them | `Stash` |
| `Login` | logins on disk | |
| `PersistProofs` | proofs about `Ssid` and `Login`, which do not interact | `Ssid`, `Login` |
| `BinSeg` | a log, its writer and its load | |
| `Buildeka` | one build, over files that are edited | |
| `Bootstrap` | the menu and the commands that start builds | `Buildeka` |
| `BuildProofs` | proofs about `Bootstrap` and the builds it starts | `Bootstrap` |
| `MCMemBook`, `MCQueue`, `MCTable`, `MCServe`, `MCParse`, `MCBuild`, `MCPersist`, `MCBase` | values of the constants for TLC; `MCParse` also writes each text from what it means; `MCPersist` and `MCBase` hold parts that do not interact, each behaviour being of one | |

### SpanIter

A Span is a radix tree of slabs of 16 slots.  Its callers see an array with
holes, so `slots` is a function on `0 .. Limit-1`; what remains of the tree is
what a caller can notice: `dims` (the depth, since `Iter_Next` and `Iter_Prev`
skip holes only in a tree deeper than one slab), and `leaves` (the slabs that
exist, since a removal counts down whether the slot held something or not, and
since the number of slabs an addition needs decides whether the allocator is
entered).  `idx`, `value`, `processing` and `end` are the Iter's position, the
value it carries (which need not be the one at `idx`) and the two flags that
survive from one call to the next.  `Fetch`, `Store` and `Iter_Remove` are
`Iter_Query` under its three operations.

### MemBook

`book` is the `MemBook` struct: `idx`, the Spans `retired` and `recycled` with
the Iter the book keeps on each, the page Span `m` of the book's own arena and
the `room` left on its pages, counted in slabs; `dirty` is the set of pages
with non-zero bytes.  `owns` gives the pages of each arena.  `MemCh_Make`,
`MemCh_AddPage`, `MemCh_FreeTemp` and `MemCh_Free` are the actions; each is a
whole call, with the loop over pages and the `MemBook_WipePages` that ends it.
`AddRecycled` is the interesting part: when the slab for the next entry of
`recycled` finds no room, `MemCh_AllocOf` asks the pool for a page, and
`MemBook_GetPage` takes it from the very Span, with the very Iter, that is
being added to.  If the tree of `recycled` is growing, the operation in progress
goes down again from the new root and ends where it should.  If the tree is deep
enough and only a leaf is missing, it ends at the first slot of the leaf that
`Iter_Prev` stopped in, and the page there is handed out next in place of the
top: `misled` records that this has happened, and the properties speak of books
in which it has not (`Intact`).  What a `misled` book does afterwards is not
modelled in detail and nothing is claimed of it.

### Queue

`it`, `critIt` and `availableIt` are the three Spans of the `Queue` struct with
their Iters, `selected` the top of the shelf.  `pass` and `seen` are history:
whether a pass is under way and what it returned.  `Queue_Next` is the whole
loop up to the next item whose criteria function accepts it; which items are
accepted is chosen anew at every call, except for `AlwaysReady`.  The client
is constrained as the only caller, `serve.c`, constrains itself: it adds only
between passes and removes only the item just returned; with `RemoveBetween`
it also removes between passes, as `queue_tests.c` does.

### Table

`tbl` is the Span of the table with its Hashed records; `parity` the hash of
each key, chosen at the start and never changed; `selected` what the Iter of a
parser remembers between `Table_SetKey` and `Table_SetValue`.  The loop of
`Table_GetSetHashed` over the states of an HKey is stated as the chains of
indices it visits, one chain per depth: storing takes the first free index of
all of them, looking up leaves a chain for the next at the first free index.
`KeyMap` is the abstract specification; the refinement mapping is what
`Table_Get` answers for each key and the key of the record that waits for its
value; `given`, the value of the last call, is the same in both, so that a call
of `KeyMap` is told from another that has the same effect on one key.  The
client is careful unless `Careless`: it removes an entry only while nothing
depends on it (`Removable`: it was stored last, no key has two records, none
waits for its value), stores nothing in a freed record, and stores no key
elsewhere while that key waits for its value (`Awaits`).

### Serve

The variables of `Queue` are `srv->q`.  `req` has the `Req` of each connection
and command file: its index in the queue, the flags of `req->type.state`, the
events it polls for (`crit->u`), its route, and as history what it has read,
the status lines sent, and the fate of the file it serves.  `srv` is where the
thread stands in `ServeTcp_AcceptPoll`: one action per call that can be
interleaved with the clients' own actions (`Connect`, `Send`, `Leave`,
`Command`, external).  A step of a request is one action with everything up to
the point where `Req_Handle` decides whether to run the next one.

What a client asks for is one of: a `file`, a `missing` one, a `cached` one
(304), a `post` with a body, a `malformed` request, an `oversize` body, the
`stats` page, an `unreadable` path (a directory), a `slow` reader whose socket
fills up, a `stalled` client that stops in the middle of its head, one whose
head is `cut` over two reads.  The parser appears as what it answers: `cut` is
the one place where how a text was cut matters, because `http_req.c:140` looks
at the END of a parser that has not seen the rest.

### Buff

`v`, `total` and `tail` are the StrVec with the Strs the Buff has made, `unsent`
the four fields of the position it is drained from.  `unsent.s` is either a
header of its own (`Str_Rec`) or the very Str of the vector; moving the latter
changes the vector.  A byte is its place in the stream, so what leaves the Buff
shows whether it is the right one.  `Buff_Flush_Step` and `Buff_Pipe_Step` are
one round of the two loops; a descriptor takes everything or fails after any
number of bytes, and a write of a Str that is not empty takes a byte at least or
fails, so that the branch for a write of none (`buff.c:200`, 248-253) is not
reached; a source is memory, a file that ends or a socket that has nothing more
for now, and a read from a descriptor may fail.  A client whose pipe has failed at
both ends does not read on.  `Refill = FALSE` is a client that fills the Buff before
it drains it (one that writes as it goes sets `BUFF_UNBUFFERED`, which keeps no
vector and is not modelled).

### The parser: Cursor, Match, Roebling, Formats, Captures, Config

`Cursor` and `Match` are records with operators for the functions of `cursor.c`
and `match.c`; `Match_Feed` is the whole loop over the definitions a byte may
skip.  `Roebling` has the parser in `rbl` (step, matches, state, tokens, the
document built so far) and the vector it reads in `curs`.  `Feed` adds a piece
of any length and tells the parser so in the way that case's owner does
(`Cursor_Add`, `Cursor_Update`, nothing, or all at once); `Roebling_RunCycle`
is one turn of the loop in `Roebling_Run`; `Roebling_Finalize` and
`Roebling_Last` are what `Roebling_RunMatches` does at the end of a text.
`Formats` has each grammar's patterns under the names of the source, step by
step; `Captures` and `Config` what each capture function does to the document.
`MCParse` writes requests, an answer, JSON values, templates, configuration
files and the rest as texts from what they mean, and reads that meaning back
from the document.

### StrVec, Paths, Dirs

`StrVec` keeps all Strs in `strs` and two vectors that hold them by index, as
the code holds them by pointer: `Incr` in place would show in both.  A caller has
two pointers, `v` and `w`, and `at` is the vector each one holds: an operation
that makes a vector (`Made`) gives it to one of them, and `StrVec_ReAlign` of a
vector that came of one makes both hold the same, whatever was added to it since
(`strvec.c:44`); what is added through one then shows through the other.
`noshrink` is `STRVEC_NOSHRINK`, with which `Pop`, `Anchor`, `Return` and `ReAlign`
are Errors.  Its operations are those callers mix; `text` and `mark` are what each
vector was made to say.  `StrVec_AddChain` has a branch that adds to the last Str
in place and leaves the total as it was (`strvec.c:157`); it needs a string behind
a Str with room for it, and the callers of `src/` give a separator of one byte, so
that it is not reached.  Comparison is the loop over slots of eight bytes, with `SLOT = 2`.
`Paths` has no steps: each text up to `MAX_PATH` is an initial state, and the
properties compare what the functions make of it.  `Dirs` climbs a tree; the
order of `readdir()` is a choice at every entry; the four uses differ in the
callbacks.

### Stash, Ssid, Login, BinSeg

`Stash` has an arena as pages of records with pointers; `Walk` is `MemIter_Next`
from record to record, packing replaces a pointer by the place it points to,
reading gives the page another address.  `Table_Add` is `Table_Set` of a new key,
a text and an entry that leads to it; `Table_Replace` of one that is there, whose
entry gets a new text allocated on the arena, the old one staying where it was.
A record that does not fit goes on a second page (`MemCh_AllocOf`).  `Ssid` has
the directories on disk, the process (`ssid`, with the call to the system it is
about to make in `pc`) and the Table the client has (`handle`), in which it sets
keys, and which it may let go of (`Client_Drop`).  `Login` has a directory and a file
per property.  `SsidStop`, `LoginStop` and `BinSegStop` end the process between
any two calls to the system; what is on disk stays, an `Error` without a
handler ends it too.  `BinSeg` appends a value as entries for its parts, one
`Buff_Add` each, and is stopped between two or in the middle of one; `Load` is
what `BinSegCtx_Load` makes of the file.

### Buildeka and Bootstrap

`ctx` is the `BuildCtx`; a build's steps are `SkipRecent`,
`BuildCtx_BuildModule`, `BuildSupporting`, `BuildCtx_LinkObject`, `BuildExec`
and the ends of the loops.  `RegisterAll` is the order in which
`BuildCtx_ParseDependencies`, which calls itself for each module that is named,
puts modules into the table: a module when its turn comes (`Register`), before
those it names, which are parsed before what was still to be parsed.  An object is the set of `<<file, version>>` pairs
the compiler has read, a library the objects by their name in the archive.
`Edit`, `Tick` and `Stop` come at any time.  `Bootstrap` is the menu, with its
search for the first entry whose name begins like the choice, and the commands
it runs one after the other.  `raced` and `taint` are history: whether anything
happened while a build ran, or after something was built.  `Picked` and `Builds`
are the entries a user picks and the builds they come to; `SameSources` says that
a module is of the same files in all of them, which `MCBuild` assumes.

## Hard behaviours and the properties that watch them

`PROJECT.json` lists the hazards with their lines.  In short:

- **The allocator inside itself**: `PageExclusive`, `NoPageLost`,
  `RecycledTop`, `RetiredLag`, `HandedOutClean`.
- **Iterators over changing containers**: `PassComplete` (an item that stays
  ready is returned in every pass, whatever was removed in it or added before
  it), `PassOnce`, `ScanIsLoop`, `CritMatches`, `CountExact`.
- **The shelf as a stack with spent entries**: `ShelfSound`, `NeverOverwrites`.
- **Records that stay where they are while the table grows**: `IsMap` (the
  table implements `KeyMap`), `OrderDense`.
- **Requests at every stage**: `QueueExact`, `QueueProtocol`, `AnswersWhole`,
  `FreedAnswered`, `EmptyAfterError`, `WaitsWhenIdle`, `Served`.
- **A position over Strs, short writes and reads**: `InOrder`, `UnsentExact`,
  `LoopsEnd`.
- **Text in pieces**: `SameTokens` (however a text is cut, the tokens are those
  of the whole), `DocExact` (the document is the one that was written).
- **Shared Strs, flags on separators, any order of entries**: `IsText`,
  `EqualsExact`, `Relativised`, `NamesSplit`, `GatherExact`.
- **A process that stops between two calls**: `OpenedIsClosed`, `OneName`,
  `PersistedStays`, `DestroyedIsFree`, `RecordsKept`.
- **Staleness by time**: `LibsCurrent`, `LinksReady`, `RunsCurrent`.

## Runs

| Run | Question | Bounds | Result |
|---|---|---|---|
| `membook` | Are pages neither shared, lost nor dirty when the pool's Spans grow out of the pool itself? | 2 arenas of up to 3 pages, 5 pages, 8 slabs to a page, 0, 2 or 4 slabs of initial room; slabs of 3 | holds |
| `queue` | Does a pass return what is ready, once? Do shelf, counts and criteria agree with the items? | 3 items, 2 always ready; slabs of 2, depth 1 (4 indices) | holds |
| `table` | Is a table a map while it grows, whatever keys collide? | 3 keys, every assignment of 4 parities to them, 2 values; slabs of 2, two growths | holds |
| `serve` | Do requests of all kinds end as they should? | a plain and a TLS connection on two ports, one command file; one accept per port and poll; clients may leave | holds |
| `serve_live` | Is everyone served whom the server understands? | a plain connection that comes back and a TLS connection; a neighbour that stalls | holds |
| `buff` | Does a Buff give back its stream in order, and do its loops end? | 5 bytes in Strs of 2, blocks of 3 | holds |
| `parse` | Are tokens the same however a text is cut, and is the document what was written? | each text whole and cut at every place | holds |
| `build` | Is nothing skipped that was needed? | 4 modules, 3 entries of the menu, 1 edit, 1 stop, 2 seconds | holds |
| `persist` | What does a stop between any two calls leave of sessions, logins, logs? | 2 session ids, 2 texts, 2 sets of keys, pages of 11 records, 1 stop; 1 login, 4 properties, 2 stops; up to 3 values in a log, loads of 14 entries, 2 stops | holds |
| `persist_gap` | Can every entry of an opened session be read? | as `persist` | violated, finding 1 |
| `base` | Do texts, paths and climbs give what they should? | 2 pointers to 2 vectors, 3 Strs, 4 bytes, one of the two bytes no text, `STR_MAX = 3`, 5 operations; all paths of up to 8 bytes; a tree of 4 directories and 5 files | holds |
| `base_dirs` | Does the build tool find every source? | as `base` | violated, finding 2 |

Why the bounds are enough.  The behaviour of a Span changes at the edge of a
slab and at the index that makes the tree a level deeper; with slabs of 2 or 3
slots instead of 16 a few values reach both.  `MemBook` needs a nested
`GetPage` for each way it can interrupt the outer call; the room left on page 0
is chosen so that it runs out in `retired`, in the growth of `recycled` (where
the code survives it) and for a leaf of `recycled` (where it does not).  Three items on four indices are enough
for every order of a shelf two deep with a spent entry above it.  The chains of
a table differ in the first indices of each depth, so three keys collide in
every way that two can and one more can be put in between; with slabs of 2 the
third and the fourth record make the table grow.  In `Serve` the requests
interact only through the queue, the position of the pass and the wait for a
body, so two at a time meet in every stage; a command file makes a third.  A
Buff of 5 bytes in Strs of 2 has a first, a middle and a last Str that is not
full, and a block (3) ends inside a Str; positions, pieces and failures are all
chosen.  One cut is enough for the parser's hazard, a pattern begun in one
piece and gone on with in the next: the state carried over a cut does not
depend on cuts before it, and the texts are chosen so that a cut falls inside
every pattern of every grammar used.  In `build` the modules are the ones that
have a chain, a diamond and an option; two seconds distinguish a file written
in the second of a build from one before it.  In `persist` a second id is what a renewal
makes; a page of 11 records holds a new session and one key more, so that the
second key meets the second page, which is an Error when it is written; 14 entries are fewer than the values sent may take, so that the limit is
met.  With `STR_MAX = 3` a text of three bytes is too long for
`StrVec_ToStr` and one of two is not.
Paths of 8 bytes have up to four parts, enough for two names and two
`..`, or a name with two dots in a directory with one.

`CHECK_DEADLOCK FALSE` is said where the system may stop: `serve` (`Halt` ends
the process), `membook` (`fatal` does), `table` (every record the bound allows
is stored), `buff` (a failed or drained Buff at the bound has nothing more to
do), `parse` (the text is over), `base` and `base_dirs` (a climb ends; a path
has no steps; operations are bounded).  The others check for deadlock.

Bounds of the models that are not constants of the code: `MAX_PAGES` (pages of
one arena), `PAGE_MAX` (small instead of the size of the reserve),
`MAX_COMMANDS`, `MAX_DIMS` (the deepest tree, 1 or 2 levels instead of 4),
`DOUBLED_DIMS` (how far a table with a key in two records may grow, in depth),
`Limit`, the number of indices of a Span, which the code has too (16^5) but
which a queue is not expected to meet, `MAX_BYTES`, `MAX_CUTS`, `MAX_STRS`,
`MAX_TEXT`, `MAX_OPS`, `MAX_PATH`, `MAX_IDS`, `MAX_SETS`, `MAX_SENT`,
`MAX_EDITS`, `MAX_TIME`, and the numbers of stops.  `SEG`, `BLOCK`, `SLOT`, `STR_DEFAULT`,
`STR_MAX`, `SLOTS`, `PAGE_RECS` (what a page of 4096 bytes has room for) and
`BINSEG_SEG_MAX` are constants of the code, with small values.

Fairness.  `Serve` assumes weak fairness of the server's thread as a whole: it
never blocks except in `poll()`, with a timeout, and in the loop of
`HttpReq_ParseBody`, which is an action of its own that is not enabled before
the body has arrived.  It assumes that a client that does not stall sends the
rest of its request (`WF(Send(c))`).  It assumes nothing about the choice
between requests: that no ready request starves is what `PassComplete` says of
the queue, and `Served` needs it.  `serve_live` runs without clients that
leave (SIGPIPE may end the server, see below) and without those kinds of
requests after which `Req_Handle` runs an empty route.  `Buff` assumes weak
fairness of one round of the two loops, which are loops of one thread with
nothing to wait for but the descriptor; `LoopsEnd` excludes the pipe from a
socket, which does wait for it.

## Findings

1. **A session's entries behind an empty slot are lost** (`stash.c:67`,
   `persist_gap`).  `Stash_PackMemCh` packs the pointers of a slab up to the
   first that is NULL.  A Table is an array with holes: the entries behind a
   hole are written as the addresses they had, and `Stash_FromStream` makes
   nothing of them.  A session that was just started cannot be read past its
   first entry.  `OpenedIsClosed` shows that this is the only loss: what can be
   read is what was written.
2. **Sources that are not found** (`dir.c:268`, `base_dirs`).  `Dir_Climb`
   gathers the answers of its two callbacks in one variable; NOOP, the answer
   for a directory that is filtered out, stays in it, and the files that
   `readdir()` gives after that directory are not handed to `file()`.  With the
   `option` directory of `programs/test` before `main.c` the build tool does
   not see `main.c` in its first pass.  `GatherExact` shows that without a
   filter nothing is missed.

### Behaviour the runs step around

The passing runs leave out some uses of the code under which their properties
do not hold.  A constant that admits each, where there is one, is named; with it
TLC shows the violation in a few steps.

- `MemBook_WipePages` (`mem_book.c:118`): `Iter_Prev` reports END at once on an
  Iter its last removal left at index 0, so every other call does nothing; the
  page is wiped with the next free and the count of pages in use is off by one
  until then.  `RetiredLag` shows it is never more than one.
- `MemBook_GetPage` (`mem_book.c:142`) inside the growth of `recycled`: when the
  leaf slab has to come from a page of `recycled`, the nested removal moves the
  Iter of the addition in progress, and the next `GetPage` hands out one page
  and removes the slot of another.  The run meets this (`BASE_SLABS` has 4) and
  marks it by `misled`; without `Intact`, `RecycledTop` is violated by it.
- `Queue_Remove` (`queue.c:32`) on a shelf with spent Singles takes the live
  Single on top instead of a spent one and lowers `selected`: the index that was
  there is lost, and the Span grows although a slot is free.
- `Queue_Remove` between passes (`queue.c:28`) moves the Iter that the next pass
  starts from.  The server does not do this, `queue_tests.c:173` does
  (`RemoveBetween = TRUE`, `PassComplete`).
- `Table_UnSet` (`table.c:252`) leaves a free record in the middle of walks, at
  which lookups end; a key stored in it is not found either, since the record
  keeps its old key.  Its only caller (`http_req.c:187`) uses a fresh table
  (`Careless = TRUE`, `OrderDense` and `IsMap`).
- `Table_SetValue` (`table.c:184`) writes the record that `Table_SetKey` chose: a
  value that arrives after its key was stored again, in a table that grew since,
  lands in the record that no look-up finds (`Careless = TRUE`, `IsMap`).
- A key stored again after a table grew gets a second record, which hides the
  first; after another growth the longer walk can meet the first one before
  the second and answer with the old value (`DOUBLED_DIMS = 2`, `IsMap`; in the
  code it takes a table of more than 128 values).
- A Buff that is filled again after it began to be drained (`buff.c:237`) loses
  its place (`Refill = TRUE`, `InOrder`); `Buff_Pipe` from a socket never ends
  (`buff.c:721`); seeking backwards over several Strs is wrong (`buff.c:128`),
  so `MaySeek` admits it within one.
- Server: an `Error()` inside a step wipes the route and adds a Write to it,
  which the same step's `Req_StepHandled` then removes, so the response is never
  written and `Req_Handle` runs an empty route; a malformed request is never
  answered, finalized nor closed; `/stats` never ends; a client that stalls
  keeps its request for good since nothing sets `crit->until`; a body is waited
  for inside the step, and nobody else moves until it is there; a file open in
  the sections is not closed when an Error wipes them; a write to a client that
  left raises SIGPIPE, whose handler ends the process; a head in two reads is
  never parsed.  `EmptyAfterError` says that the empty route happens in no other
  way, `FreedAnswered` that what did not fail ends well.
- Parser: `Cursor_Incr` by exactly what remains moves to the next Str's first
  byte (`cursor.c:292`), so that a JSON string is cut wrongly, which is why JSON
  and files are fed whole (as `Json_FromPath` does); a template that starts with
  `${` dereferences NULL and an object `{}` is an error; `Bytes_FromHex` is
  given capitals moved by 62 instead of 32 (`hex.c:112`); `ltDef` of the HTML
  text gives `&gt;`; a URI with a path is an error.  The texts of `MCParse` have
  none of these.
- Configuration files: a blank line closes the data table, after which a key
  makes a table of its own instead of an attribute; a node that follows
  attributes needs a blank line before it; a list followed by a key without one
  takes that key's value.  The text of `MCParse` is written with blank lines
  where they are needed.
- Comparison: a Str without bytes ends `StrVec_NextSlot` for good (`NoBlank`);
  `Str_EqualsStr` compares as many bytes as the first has, so that it finds a
  prefix equal; `Str_EndMatch` compares as many as come before the end.
- `IoUtil_Relativise` does not forget the dots of a name ("/a.b/c" becomes
  "/a.c", which the file server would look for, `http_static.c:22`), and flags
  ERROR on some paths that are fine; `Plain` leaves names with dots out.
  It counts the empty name between two slashes as a directory: "/a//../a" becomes
  "/a/a", and "//../a", which leads above the root, is not flagged
  (`TakesEmptyBack` leaves out those where a ".." meets one).  `IoUtil_SwapExt` of a
  path without an extension removes its file name and is an Error, at which its
  callers do not look.
  `Path_Ext` of a name without a dot leaves out its first part.
- The second pass of `BuildCtx_ParseDependencies` gathers the files of the root
  again; an object file is then archived twice, under one name.  `setNames`
  (`module.c:30`) counts them twice too, so that a module of nothing but programs
  that is built with options has a target that nobody makes (`BuildAssumption`
  leaves it out).
- A body or a request that is cut off, a removed record in the middle of a walk, a
  file left open by an Error and a program that is not linked again are hazards
  without a property, for the code does not do better; `PROJECT.json` says so at
  each.
- Stash: an arena of two pages cannot be packed (`mem_iter.c:123`), which is an
  Error with the file already truncated; setting "username" in a session can
  need the second page.  Logins: a second `Login_Persist` is Fatal at the first
  file that exists; `Login_Open` does not read the properties.
- Logs: a number is never written (`binseg.c:186`); the shelves are not cleared
  between siblings, and a record with id 0 clears them all; a writer that stopped
  between the parts and their container leaves parts that the next container
  takes (`Landed` excludes that one value); a text that was torn at the end is
  loaded as a whole; a log of more than 1023 entries is an Error.
- Build tool: in the menu the first name that begins the choice wins
  (`bootstrap.c:232`); files of the same name in two directories are one member
  of the archive (`object.c:23`; `MCMember` gives each its own); a program is
  not linked again when only a module it depends on changed (`module.c:483`,
  why `RunsCurrent` speaks of clean builds); a build that was stopped can leave
  a library that counts as recent (`module.c:248`, why `LibsCurrent` does not
  speak of builds that were); a library that was built for other options counts as
  recent too (`SameSources`).

## Proofs

Every theorem is proved for all values of the constants that satisfy the
assumptions of the modules.  These are:

- `TablesAssumption` (`SpanIter`): what the literal tables at the head of
  `iter.c` satisfy; each depth holds a stride's worth of the one below, and every
  index fits some depth.
- `ItemsAssumption`, `TableAssumption`: NULL is no item, key, value or record;
  hashes are natural numbers; a table grows before it is full (`OCCUPIED`, as
  `dim_occupied_max` does).
- `BookAssumption`: a page of the pool's arena serves two requests for slabs of
  the deepest tree (4 * `MAX_DIMS`; in the code a page holds about thirty slabs
  and `MAX_DIMS` is 4), a Span can hold every page of the book, NULL is no page.
- `ServeAssumption`: connections and command files are different things, a route
  has room for the steps of a request.
- `SsidAssumption`, `LoginAssumption`: the keys of a session are hashed to
  different slots of the slab; addresses are positive numbers; NULL is no number,
  pointer or place; a login has at least its uid and one more property.
- `DirsAssumption`: the directories are a tree.
- `BuildAssumption`: there are finitely many modules, none with the name of a
  command; what is named in a `dependencies.txt` is one of them and has no
  program of its own (the modules of `mod/` have none, and no `dependencies.txt`
  names one of `programs/`); a module has files of its own, whose objects have
  different names (see above for modules where they do not); it has a target just
  when it has objects (see above for the other case); and `base` has
  sources and no options.  That modules do not name each other in a circle is
  not assumed.

Each component has one inductive invariant, proved action by action, from which
its properties follow.  No property below is inductive alone; what the invariant
adds is named.

**Span.**  `SpanProofs` has what each operator of `SpanIter` does to a Span
(`StoreType`, `FetchType`, `RemoveType`, `InitType`, ...), stated once and cited
by the other modules.

**Queue** (`QInv`).  Proved: type correctness, `ShelfSound`, `CritMatches`,
`CountExact`, `ScanIsLoop`, `NeverOverwrites`, and, under `~RemoveBetween`, `PassComplete` and
`PassOnce`.  A removed index is free only by `Distinct` and `ShelfSound`; a
removal counts down by what it removed only if the slot has memory (`Backed`);
an addition at `max_idx + 1` overwrites nothing by `NoneAboveMax`.  `PassSplit`
is the strengthening for the passes: the position of the Iter splits the items
into those the pass has returned (if ready) and those it has not.  It survives an
addition because `Queue_Set` puts the index back, and a removal because only the
item the pass stands on is removed.  All of these speak of `Queue_Next` through `Scan`,
which picks the next ready item at once; `ScanIsLoop` is the link to the loop of
`Iter_Next` in the code.  `Standing` adds to `QInv` that the Iter stands at an
index and that the tree is deep enough for `max_idx`; `Passed` is the loop's
invariant, turn by turn (`LoopTurns`, `TurnPasses`): no item it may stop at is
behind it, and each turn that does not stop moves on, so that after `Limit` of
them it has stopped or is at its END.

**Server** (`ServeInv`).  Proved: `QueueExact`, `QueueProtocol`, `WaitsWhenIdle`,
`AnswersWhole`, `FreedAnswered`, `EmptyAfterError`.  The argument begins with
`QueueProofs`, of which `ServeProofs` has an instance for the requests: every
step of the server is a step of `Queue` or leaves it alone (`QueueStep`), which
is the refinement `QueueProtocol` and carries `QInv` over.  `Tracked` says that
the queue holds exactly the live requests, each at the index it was told;
`Counted` that command files are told from connections, as the decision to sleep
needs; `ReqsGood` that a request between two steps has the route its progress
calls for, from which follows what it has read, sent and logged; `Alive`,
`OnPass` and `AtStep` where the thread stands; `Ending` that a request at its END
is the current one, so that no pass ever returns it.

**Page pool** (`BookInv`).  Proved: type correctness, `PageExclusive`,
`NoPageLost`, `RecycledTop`, `HandedOutClean`.  `Good` says that the pages taken
so far are split between the pool's arena, `retired`, `recycled` and the arenas,
that `recycled` and the arena's page Span are stacks with the Iter on top
(`Stack`), that `retired` has its Iter on the value it carries (`Loose`), and
that nothing in `recycled` is dirty.  It is carried through the steps of a call,
nested `GetPage` included, as `Fine(b, out)`, with the pages on their way counted
in `out`; `AddRecycled` in growth is the case in which the Iter is turned and
still ends on top.  `RetiredLag` needs where a wipe leaves the Iter of `retired`:
`Settled` says that between two wipes the pages there follow one another up to
`max_idx`, that at most one was there when the last wipe ended, and that the Iter
is on the top or where that wipe stopped; `Draining` says the same within a wipe,
which starts at the top (`FromTop`) or, from the second wipe on, below it
(`BelowTop`), and then leaves the top.  The loops over pages (`MemBook_WipePages`, `MemCh_FreeTemp`)
are recursive functions, handled by induction on the set of numbers of steps for
which the claim holds.

**Table** (`TableInv`).  Proved: `OrderDense`, and `IsMap`: the table implements
`KeyMap`.  `Numbering` says that what is stored is within the tree and that live
records are numbered 0 to `nvalues`-1; it survives growth by lemmas on
`Iter_ExpandTo` (`DeeperSame`, `GrownSame`), and gives `OrderDense` by counting.
`Walks` is why a look-up finds what was stored: every record is where the walk of
some depth meets it, passing only *older* live records of other keys (`Reached`).
"Older" is what a removal needs: only the youngest record is removed, and it is
in nobody's way.  Growth only makes walks longer at their end (`ChainType`) and
adds a level above.  A key in two records, which comes of storing it again in a
table that grew, is found where storing would find it (`Settled`), as long as the
table is no deeper than `DOUBLED_DIMS`.  `Waiting` says that the record
`Table_SetKey` chose is the one a look-up finds, so that `Table_SetValue` is
`SetValue` of the map.  Hypotheses: `~Careless`, without which `OrderDense` and
`IsMap` are false (see above), and for `IsMap` `DOUBLED_DIMS <= 1`: in a table of
one slab there is one walk, which meets a key once (`OneSlab`), so a table that
has a key twice is one level deep and, by the bound, stays so.  A level deeper
the older record can be met before the newer one.

**Buff** (`BuffInv`).  Proved: type correctness, `InOrder` and `UnsentExact`.
`Holds` says that Str k of the vector has the bytes of its place in the stream,
whatever its header says is left of them, every Str but the last being full;
`Position` that `unsent` is on one of the Strs, has of it what its header says,
that the Strs behind are whole (`Whole`), and that `unsent.total` is the sum
(`Rest`).  Then what is sent next (`BytesAre`) and where the next Str begins
(`NextIs`) follow, whether `unsent.s` is a header of its own or the Str itself.
`Exact` says that the sum is what was not drained.  It survives a walk over
several Strs because `Walk` lands where the bytes between are those asked for
(`WalkIs`).  After a descriptor failed it need not hold: `Lost` says that then
nothing more is drained by a flush, and that a pipe goes on until there is
nothing left or a read fails too, so that a later read gives no byte out of order.  `Filling` is what
a Buff is before it is drained: bytes are added behind the others (`AddOne`,
`GrownFresh`).  Hypothesis: `~Refill`, without which `InOrder` is false (see
above).

**Sessions** (`SsidInv`, `SessionInv`).  Proved: type correctness (no id is given
twice, every directory is of a session that was started), `OneName` and
`OpenedIsClosed`.  `OrigsDiffer`: no two
directories are of one session; `LiveKept`: a session that was answered has one;
`Underway`: what is being written or removed is there, and is forgotten before it
is removed.  Each is kept by a stop between any two calls because a renewal is one
`rename()`.

`OpenedIsClosed` begins with the loops: the walk over an arena, the table of its
addresses and the packing are functions as their recursions have them
(`WalkLoops`, `TableLoops`, `PackingLoops`, by induction on the steps done).
A walk is over every record of the first page from front to end and then of the
second (`WalkSteps`).  Packing a page changes its pointers and no more
(`OnePagePacked`), an arena of two pages fails (`TwoPagesFail`), and the table
gives each address of a page its place (`OnePageTable`).  `Linked` says of pages,
in an arena or in a file, that a slot of the slab leads to the entry of its key
and the entry to the text that is expected; `Holds`, of the arena of a client,
that these pointers are addresses, of its own pages or of one read before;
`Image`, of a file, that those in front of the first hole are places.  Since a
record keeps its number when it is packed and read, a pointer that was not packed
leads either out of the arena (`LOST`) or, the page having come back to the same
address, to the entry it always led to; that is why a later write and read
of the same session still cannot mix texts.  `FlushImage` and `LoadHolds` take
`Holds` to `Image` and back; `AddHolds` and `ReplaceHolds` are the client's
`Table_Set`, in which an arena only grows (`AllocGrown`).  `Held`, `Imaged` and
`Writing` say this of the client, of each file, and of the file being written
between any two calls.  One limit is the model's: a second page of an arena is at
an address that no pointer saved before leads to.

**Logins** (`LoginInv`).  Proved: type correctness, `PersistedStays`,
`DestroyedIsFree`.  `Persisting`: a persist has written the properties before the
one it is at, and is writing none that was persisted before; `Destroying`: a login
that is being destroyed is not kept, and what it has left goes in order: files,
credentials, directory.

**Directories** (`DirsInv`).  Proved: `GatherExact`, for every tree, every order
of entries and every pair of filters.  `ClimbWhole`: there is a set of directories
seen so far of which everything not outstanding (in some frame of the climb) was
gathered, once; it is closed under the tree's parent relation except for
outstanding entries, so that with an empty stack it is everything
(`DirsAssumption` is the induction).  `Within` is the corresponding statement with
a filter.

**Build tool** (`BuildInv`).  Proved: type correctness, `LinksReady`,
`RunsCurrent`, and, with `SameSources`, `LibsCurrent`.  The order modules are
built in is defined by recursion over what is still to be parsed, so the proofs
begin with it: what registering can come to from a state is what it can come to
from the next (`SameEnd`), hence there is a function as the recursion has it
(`OrderExists`); registering ends, since each step registers one more of the
finitely many modules or leaves one less to look at (`RegisterEnds`); and in the
order every module is once, the source of the build first, with all that any of
them names (`OrderIsListed`).  `Underway` says where a build is in that order,
which it goes through backwards; `Ready` that what it has passed has its library.
A program is then linked when only the source is left, since a module that is
named has none (`LinksReady`).  `Commanded` and `BaseThere` are about `bootstrap`:
while there are commands to run, `base` has a library, which is why an edit after
a clean can only leave the build `taint`-free when nothing at all was built
(`Untainted`, from which `RunsCurrent`).  `Sound` and `Current` are about what is
skipped (`CurrentInv`): an object or a library that is there was made of the last
versions of its module's files, or one of them was saved no earlier (`Late`) and
so it will not be skipped; a second in which both happen counts as later, as the
code has it with `Time_Greater`.  The library that is being filled has one member
for each object added so far (`Filled`).  `SameSources` is needed: a library is
skipped by its time, also when it was built for other options (`run-tests` after
`run-tests-no-crypto`), and `LibsCurrent` would then be false.

**Only model-checked**, and why:

- `Served`, `LoopsEnd`: liveness.
- `SameTokens`, `DocExact`, `IsText`, `EqualsExact`, `Relativised`, `NamesSplit`,
  `RecordsKept`: they say what recursive definitions, or folds over sequences,
  compute for every input.

Set induction over numbers is possible here (a loop that is a function is handled
by it); induction over an operator parameter, and so over sequences and trees as
data, is not.

## Not modelled

The parts with status `not_modelled` in `PROJECT.json`, with their reasons.
Within the modelled parts: the levels of temporary memory and the fit of an
allocation to a page (`MemCh_FreeTemp` frees any subset of the pages after the
first, which contains what the levels select); insertion with gaps, pop and
copies of Spans, which only tests call; the guard that ends a run of too many
steps in a row; `poll()` failing; the etag table; the merging of tables;
`Match_FeedStrVec`, searching and splitting; formatting (`fmt.c`) and the
conversions to text; the functions of `path.c`, `ioutil.c`, `strvec.c` and
`dir.c` that nothing calls; the re-entrancy of `Error()`; capsules, which hand a
TLS connection on; the build tool's progress display and generated files;
32- and 64-bit widths.

## Plan

Every module of the plan is written, and what can be proved of it with the
provers used is.  What would come next:

- `BinSeg`: `RecordsKept`, which needs an induction over the entries of a log.
- `StrVec`: `IsText` and `EqualsExact`, the same over the Strs of a vector.
- `Slotter`, once a program uses it: a `Queue` with slots.
