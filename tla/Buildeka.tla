------------------------------ MODULE Buildeka ------------------------------
(***************************************************************************)
(* The build program of src/src/programs/buildeka: it reads the            *)
(* dependencies.txt of a module and of those it names, then builds them    *)
(* last registered first.  What it may skip it finds out from the          *)
(* modification times of files, which it reads in whole seconds            *)
(* (base/io/dir.c, base/io/file.c).                                        *)
(*                                                                         *)
(* A compiler's output is the set of <<file, version>> pairs it has read.  *)
(* Files are edited, and the build is stopped or fails, at any time.       *)
(* No module here has the type "shared" (only pyneka has).                 *)
(***************************************************************************)
EXTENDS Integers, Sequences, FiniteSets, SequencesExt

CONSTANTS
  Modules,      (* the directories under mod/ and programs/                *)
  Lines,        (* of each module: its dependencies.txt, as records        *)
  Sources,      (* of each module: its .c files                            *)
  OptionSources,(* of each module and option: those in option/<label>      *)
  Headers,      (* of each module: the files of its include/               *)
  Member,       (* of each source: the file name of its object             *)
  Editable,     (* the files that are edited                               *)
  MAX_EDITS, BUILD_STOPS, MAX_TIME   (* bounds                               *)

VARIABLES
  clock,        (* seconds                                                 *)
  file,         (* the version and the modification time of each file      *)
  obj, lib, exe,(* the build directory: what is in it, or Unmade           *)
  ctx,          (* the BuildCtx of a build that runs                       *)
  stops,
  raced,        (* an edit or a stop came while a build ran, since a clean *)
  taint         (* so, or an edit came after something was built           *)

bvars == <<clock, file, obj, lib, exe, ctx, stops, raced, taint>>

Files == DOMAIN file
Unmade == [reads |-> {}, time |-> -1]
NoLib  == [members |-> <<>>, time |-> -1]
Exists(f) == f.time >= 0

Time_Greater_OrEqual(a, b) == a >= b

(* Time_Greater, on times whose nanoseconds are always 0.                  *)
Time_Greater(a, b) == a > b

LineValues(m, tag) == {l.value : l \in {k \in ToSet(Lines[m]) : k.tag = tag}}

(* The modules named after "dep", and what the chosen options are for.     *)
Needs(m, options) ==
  LET lines == SelectSeq(Lines[m], LAMBDA l :
                 l.tag = "dep" \/ (l.tag = "option" /\ l.value \in DOMAIN options))
  IN  [i \in DOMAIN lines |->
        IF lines[i].tag = "dep" THEN lines[i].value ELSE options[lines[i].value]]

(* ParseDependencies: a module is registered before those it names, which  *)
(* are parsed where their line stands; one that is registered is left.     *)
Parsing == [seen : Seq(Modules), todo : Seq(Modules)]

Register_InFront(p, options) ==
  IF Head(p.todo) \in ToSet(p.seen) THEN [p EXCEPT !.todo = Tail(@)]
  ELSE [seen |-> <<Head(p.todo)>> \o p.seen, todo |-> Needs(Head(p.todo), options) \o Tail(p.todo)]

Register(p, options) ==
  IF Head(p.todo) \in ToSet(p.seen) THEN [p EXCEPT !.todo = Tail(@)]
  ELSE [seen |-> Append(p.seen, Head(p.todo)), todo |-> Needs(Head(p.todo), options) \o Tail(p.todo)]

RegisterAll(src, options) ==
  LET Order[p \in Parsing] == IF p.todo = <<>> THEN p.seen ELSE Order[Register(p, options)]
  IN  Order[[seen |-> <<>>, todo |-> <<src>>]]

(* The .c files gathered: those under option/ only of the chosen options.  *)
Dest(m, options) ==
  Sources[m] \union UNION {OptionSources[m][l] : l \in DOMAIN options \intersect DOMAIN OptionSources[m]}
Execs(m) == LineValues(m, "exec")
Objects(m, options) == Dest(m, options) \ Execs(m)
Gathered(m, options) == Dest(m, options) \union Headers[m]

Newest(files) == CHOOSE t \in {file[f].time : f \in files} : \A f \in files : file[f].time <= t

(* setNames: how many files were gathered for a library.  With options the *)
(* directory is climbed again for theirs, and the files in it, not those   *)
(* below it, are gathered twice; here a module has its files in it.        *)
LibSourceTotal(m, options) ==
  Cardinality(Dest(m, options)) + (IF DOMAIN options = {} THEN 0 ELSE Cardinality(Sources[m]))
    - Cardinality(Execs(m))

HasTarget(m) == LibSourceTotal(m, ctx.options) > 0

Idle == [pc |-> "idle", src |-> "", options |-> <<>>, order |-> <<>>, time |-> <<>>,
         todo |-> {}, at |-> <<>>]

(* main and BuildCtx_Build: every directory is read before anything is     *)
(* built; then Iter_Prev over the modules as they were registered.         *)
ParseDependencies(src, options) ==
  LET order == RegisterAll(src, options)
  IN  ctx' = [Idle EXCEPT !.pc = "module", !.src = src, !.options = options, !.order = order,
               !.time = [m \in ToSet(order) |-> Newest(Gathered(m, options))]]
-----------------------------------------------------------------------------
Module == Last(ctx.order)
NextModule == [ctx EXCEPT !.order = Front(@), !.pc = IF Len(ctx.order) = 1 THEN "done" ELSE "module"]

Recent(f) == Exists(f) /\ Time_Greater(f.time, ctx.time[Module])

(* skipRecent: the objects and the execs of a module whose library is      *)
(* recent are left as they are.                                            *)
SkipRecent ==
  /\ ctx.pc = "module" /\ HasTarget(Module) /\ Recent(lib[Module])
  /\ ctx' = NextModule
  /\ UNCHANGED <<clock, file, obj, lib, exe, stops, raced, taint>>

(* BuildCtx_BuildModule otherwise: the library is removed first.           *)
BuildCtx_BuildModule ==
  /\ ctx.pc = "module" /\ ~(HasTarget(Module) /\ Recent(lib[Module]))
  /\ lib' = [lib EXCEPT ![Module] = NoLib]
  /\ ctx' = [ctx EXCEPT !.pc = "sources", !.todo = Objects(Module, ctx.options)]
  /\ UNCHANGED <<clock, file, obj, exe, stops, raced, taint>>

(* setDepVars: the include directories a source is compiled with are those *)
(* of base, of the module and the modules it names, and the list of each   *)
(* of these that was built already, which has those that one names.        *)
NamedBy(m) == ToSet(Needs(m, ctx.options))

Included(m) ==
  {"base", m} \union NamedBy(m) \union UNION {NamedBy(n) : n \in NamedBy(m) \ ToSet(ctx.order)}

(* What the compiler reads for a source of module m.                       *)
Reads(f, m) ==
  {<<g, file[g].ver>> : g \in {f} \union UNION {Headers[n] : n \in Included(m)}}

(* buildSupporting, one source, in the order of the directory: an object   *)
(* is compiled unless it is newer than every file of its module.           *)
BuildSupporting(f) ==
  /\ ctx.pc = "sources" /\ f \in ctx.todo
  /\ obj' = IF Recent(obj[f]) THEN obj
            ELSE [obj EXCEPT ![f] = [reads |-> Reads(f, Module), time |-> clock]]
  /\ ctx' = [ctx EXCEPT !.pc = "link", !.at = <<f>>, !.todo = @ \ {f}]
  /\ UNCHANGED <<clock, file, lib, exe, stops, raced, taint>>

(* ar -rc: a member of the library of that name is replaced.               *)
Archived(l, f) ==
  [members |-> [n \in DOMAIN l.members \union {Member[f]} |->
                  IF n = Member[f] THEN obj[f].reads ELSE l.members[n]],
   time |-> clock]

BuildCtx_LinkObject ==
  /\ ctx.pc = "link"
  /\ lib' = [lib EXCEPT ![Module] = Archived(@, ctx.at[1])]
  /\ ctx' = [ctx EXCEPT !.pc = "sources", !.at = <<>>]
  /\ UNCHANGED <<clock, file, obj, exe, stops, raced, taint>>

EndSupporting ==
  /\ ctx.pc = "sources" /\ ctx.todo = {}
  /\ ctx' = [ctx EXCEPT !.pc = "execs", !.todo = Execs(Module)]
  /\ UNCHANGED <<clock, file, obj, lib, exe, stops, raced, taint>>

(* setDepVars: the libraries an exec is linked with are those of its       *)
(* module and of the modules that one names, where they have a target.     *)
StaticLibs == {m \in {Module} \union NamedBy(Module) : HasTarget(m)}
Held(m) == UNION {lib[m].members[n] : n \in DOMAIN lib[m].members}

BuildExec(f) ==
  /\ ctx.pc = "execs" /\ f \in ctx.todo
  /\ \A m \in StaticLibs : Exists(lib[m])
  /\ exe' = [exe EXCEPT ![f] = [reads |-> Reads(f, Module) \union UNION {Held(m) : m \in StaticLibs},
                                time |-> clock]]
  /\ ctx' = [ctx EXCEPT !.todo = @ \ {f}]
  /\ UNCHANGED <<clock, file, obj, lib, stops, raced, taint>>

EndModule ==
  /\ ctx.pc = "execs" /\ ctx.todo = {}
  /\ ctx' = NextModule
  /\ UNCHANGED <<clock, file, obj, lib, exe, stops, raced, taint>>

BuildSteps ==
  \/ SkipRecent
  \/ BuildCtx_BuildModule
  \/ \E f \in ctx.todo : BuildSupporting(f)
  \/ BuildCtx_LinkObject
  \/ EndSupporting
  \/ \E f \in ctx.todo : BuildExec(f)
  \/ EndModule
-----------------------------------------------------------------------------
Building == ctx.pc # "idle"

(* A file is saved (external).                                             *)
Edit(f) ==
  /\ f \in Editable /\ file[f].ver < MAX_EDITS
  /\ file' = [file EXCEPT ![f] = [ver |-> @.ver + 1, time |-> clock]]
  /\ raced' = (raced \/ Building)
  /\ taint' = (taint \/ Building \/ \E m \in Modules : Exists(lib[m]))
  /\ UNCHANGED <<clock, obj, lib, exe, ctx, stops>>

Tick ==
  /\ clock < MAX_TIME
  /\ clock' = clock + 1
  /\ UNCHANGED <<file, obj, lib, exe, ctx, stops, raced, taint>>
=============================================================================
