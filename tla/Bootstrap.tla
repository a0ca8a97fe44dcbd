----------------------------- MODULE Bootstrap -----------------------------
(***************************************************************************)
(* The bootstrap program, src/src/programs/buildeka/bootstrap.c: a menu,   *)
(* and the commands of the entry that was chosen, one after the other.     *)
(* Every choice but the two that clean compiles base and the build program *)
(* first.  A build it starts is Buildeka.                                  *)
(***************************************************************************)
EXTENDS Buildeka

CONSTANT Chosen    (* the entries a user picks                             *)

VARIABLES
  selected,        (* the entry that is lit, from 0                        *)
  boot             (* what bootstrap does, and the commands still to run   *)

vars == <<bvars, selected, boot>>

menuKeys == <<"buildeka-only", "run-tests", "run-tests-no-crypto", "build-only", "clean",
              "build-webserver-no-crypto", "build-webserver", "build-run-webserver",
              "build-and-run-doc", "gen-doc", "invalid">>

Build(src, options) == [run |-> "build", src |-> src, options |-> options]
Run(program) == [run |-> program]

Same(labels) == [l \in labels |-> l]
Crypto == "crypto" :> "third/openssl"

buildCaneka == Build("inter", <<>>)
buildTests == Build("test", Same({"base", "ext", "inter", "algo"}) @@ Crypto)
buildTestsNoCrypto == Build("test", Same({"base", "ext", "inter"}))
buildWebServer == Build("serveneka", Crypto)
buildWebServerNoCrypto == Build("serveneka", <<>>)
buildDoc == Build("doc", <<>>)

(* The names main compares the choice with, in its order, without those an  *)
(* entry of the menu never is: clean-doc, build-cli, build-pyneka, oops.    *)
Branches ==
  << [name |-> "buildeka-only",             cmds |-> <<>>],
     [name |-> "run-tests",                 cmds |-> <<buildTests, Run("test")>>],
     [name |-> "run-tests-no-crypto",       cmds |-> <<buildTestsNoCrypto, Run("test")>>],
     [name |-> "build-only",                cmds |-> <<buildCaneka>>],
     [name |-> "clean",                     cmds |-> <<Run("clean")>>],
     [name |-> "build-webserver",           cmds |-> <<buildWebServer, Run("serveneka")>>],
     [name |-> "build-webserver-no-crypto", cmds |-> <<buildWebServerNoCrypto>>],
     [name |-> "build-run-webserver",       cmds |-> <<buildWebServer, Run("serveneka")>>],
     [name |-> "build-and-run-doc",         cmds |-> <<buildDoc, Run("doc")>>],
     [name |-> "gen-doc",                   cmds |-> <<Run("doc")>>] >>

(* compareCstr: the choice begins with the name.                           *)
compareCstr(name, content) ==
  Len(name) <= Len(content) /\ SubSeq(content, 1, Len(name)) = name

Matching(choice) == {i \in DOMAIN Branches : compareCstr(Branches[i].name, choice)}
First(indices) == CHOOSE i \in indices : \A j \in indices : i <= j

(* The builds that the entries a user picks come to, and what is in each.  *)
Picked == {Branches[First(Matching(menuKeys[e]))] :
             e \in {x \in Chosen : Matching(menuKeys[x]) # {}}}
Builds == {c \in UNION {ToSet(entry.cmds) : entry \in Picked} : c.run = "build"}
Deps(c) == ToSet(RegisterAll(c.src, c.options))

(* What is named in a dependencies.txt is a directory of mod/, and one with*)
(* programs is not.  A module has files of its own, of different names, and*)
(* base has no options.  What setNames counts tells whether there are      *)
(* objects: it does not where options are given to a module of nothing but *)
(* programs, whose files it counts twice, which no entry of the menu does. *)
ASSUME BuildAssumption ==
  /\ IsFiniteSet(Modules) /\ Modules \intersect {"build", "clean"} = {} /\ "base" \in Modules
  /\ MAX_EDITS \in Nat /\ BUILD_STOPS \in Nat /\ MAX_TIME \in Nat \ {0} /\ Chosen \subseteq 1..11
  /\ Sources["base"] \union Headers["base"] \subseteq DOMAIN Member /\ Sources["base"] # {}
  /\ \A c \in Builds : \A m \in Modules :
       /\ c.src \in Modules /\ Needs(m, c.options) \in Seq(Modules)
       /\ \A n \in ToSet(Needs(m, c.options)) : Execs(n) = {}
       /\ Gathered(m, c.options) \subseteq DOMAIN Member
       /\ \A f, g \in Objects(m, c.options) : Member[f] = Member[g] => f = g
  /\ \A c, d \in Builds : \A m \in Deps(c), n \in Deps(d) :
       m # n => Objects(m, c.options) \intersect Objects(n, d.options) = {}
  /\ \A c \in Builds : Objects("base", c.options) = Sources["base"]
  /\ \A c \in Builds : \A m \in Deps(c) :
       LibSourceTotal(m, c.options) > 0 <=> Objects(m, c.options) # {}

(* A module has the same files in every build that is picked: skipRecent   *)
(* does not know for which options a library was built.                    *)
SameSources ==
  \A c, d \in Builds : \A m \in Deps(c) \intersect Deps(d) :
    Dest(m, c.options) = Dest(m, d.options)

AtMenu == [at |-> "menu", cmds |-> <<>>]

Init ==
  /\ clock = 1
  /\ file = [f \in DOMAIN Member |-> [ver |-> 0, time |-> 0]]
  /\ obj = [f \in DOMAIN Member |-> Unmade]
  /\ lib = [m \in Modules |-> NoLib]
  /\ exe = [f \in UNION {Execs(m) : m \in Modules} |-> Unmade]
  /\ ctx = Idle
  /\ stops = 0 /\ raced = FALSE /\ taint = FALSE
  /\ selected = 0 /\ boot = AtMenu
-----------------------------------------------------------------------------
(* A key moves the light, one entry too far down where it is on the last.  *)
MoveTo(entry) ==
  /\ boot.at = "menu" /\ selected' = entry
  /\ UNCHANGED <<bvars, boot>>

Key ==
  \/ MoveTo(IF selected = 0 THEN 0 ELSE selected - 1)
  \/ MoveTo(IF selected = 10 THEN 10 ELSE selected + 1)
  \/ \E digit \in 1..9 : MoveTo(digit - 1)

(* Enter: an entry that no name is the beginning of ends the program.      *)
Enter ==
  LET choice == menuKeys[selected + 1]
      found  == Matching(choice)
      cmds   == Branches[First(found)].cmds
  IN  /\ boot.at = "menu" /\ selected + 1 \in Chosen
      /\ boot' = IF found = {} THEN AtMenu
                 ELSE [at |-> IF cmds = <<Run("clean")>> THEN "cmd" ELSE "base", cmds |-> cmds]
      /\ UNCHANGED <<bvars, selected>>

Latest(files) == {<<f, file[f].ver>> : f \in files}

(* "Building base": inc.c includes the sources of base, and the object is  *)
(* given the name of the library.  Then the build program is compiled.     *)
BuildBase ==
  /\ boot.at = "base"
  /\ lib' = [lib EXCEPT !["base"] =
       [members |-> [n \in {"inc"} |-> Latest(Sources["base"] \union Headers["base"])],
        time |-> clock]]
  /\ boot' = [boot EXCEPT !.at = "cmd"]
  /\ UNCHANGED <<clock, file, obj, exe, ctx, stops, raced, taint, selected>>

Command == boot.cmds[1]
Commands(run) == boot.at = "cmd" /\ boot.cmds # <<>> /\ Command.run = run

StartBuild ==
  /\ Commands("build") /\ ctx.pc = "idle"
  /\ ParseDependencies(Command.src, Command.options)
  /\ UNCHANGED <<clock, file, obj, lib, exe, stops, raced, taint, selected, boot>>

(* run: the build ended with 0.                                            *)
EndBuild ==
  /\ ctx.pc = "done"
  /\ ctx' = Idle
  /\ boot' = [boot EXCEPT !.cmds = Tail(@)]
  /\ UNCHANGED <<clock, file, obj, lib, exe, stops, raced, taint, selected>>

(* A program runs and ends; where there is none the child ends with 0.     *)
RunProgram ==
  /\ \E program \in Modules : Commands(program)
  /\ boot' = [boot EXCEPT !.cmds = Tail(@)]
  /\ UNCHANGED <<bvars, selected>>

Clean_KeepsObjects ==
  /\ Commands("clean")
  /\ lib' = [m \in DOMAIN lib |-> NoLib]
  /\ exe' = [f \in DOMAIN exe |-> Unmade]
  /\ raced' = FALSE /\ taint' = FALSE
  /\ boot' = [boot EXCEPT !.cmds = Tail(@)]
  /\ UNCHANGED <<clock, file, obj, ctx, stops, selected>>

(* cleanDir on the build directory.                                        *)
Clean ==
  /\ Commands("clean")
  /\ obj' = [f \in DOMAIN obj |-> Unmade]
  /\ lib' = [m \in DOMAIN lib |-> NoLib]
  /\ exe' = [f \in DOMAIN exe |-> Unmade]
  /\ raced' = FALSE /\ taint' = FALSE
  /\ boot' = [boot EXCEPT !.cmds = Tail(@)]
  /\ UNCHANGED <<clock, file, ctx, stops, selected>>

(* bootstrap ends; it is started again.                                    *)
End ==
  /\ boot.at = "cmd" /\ boot.cmds = <<>>
  /\ boot' = AtMenu /\ selected' = 0
  /\ UNCHANGED bvars

(* ^C, or a command that fails: what runs ends, the files stay.            *)
Stop ==
  /\ boot.at # "menu" /\ stops < BUILD_STOPS
  /\ stops' = stops + 1
  /\ ctx' = Idle /\ boot' = AtMenu /\ selected' = 0
  /\ raced' = (raced \/ Building) /\ taint' = (taint \/ Building)
  /\ UNCHANGED <<clock, file, obj, lib, exe>>

Next ==
  \/ Key \/ Enter \/ BuildBase
  \/ StartBuild \/ EndBuild \/ RunProgram \/ Clean \/ End
  \/ Stop
  \/ BuildSteps /\ UNCHANGED <<selected, boot>>
  \/ (Tick \/ \E f \in Files : Edit(f)) /\ UNCHANGED <<selected, boot>>

Spec == Init /\ [][Next]_vars
-----------------------------------------------------------------------------
TypeOK ==
  /\ clock \in 1..MAX_TIME /\ stops \in 0..BUILD_STOPS /\ raced \in BOOLEAN /\ taint \in BOOLEAN
  /\ \A f \in Files : file[f].ver \in 0..MAX_EDITS /\ file[f].time \in 0..clock
  /\ \A f \in DOMAIN obj : obj[f].time \in -1..clock
  /\ \A m \in Modules : lib[m].time \in -1..clock
  /\ \A f \in DOMAIN exe : exe[f].time \in -1..clock
  /\ selected \in 0..10 /\ boot.at \in {"menu", "base", "cmd"}
  /\ ctx.pc \in {"idle", "module", "sources", "link", "execs", "done"}

Own(m, options) == Objects(m, options) \union Headers[m]
Built == ToSet(RegisterAll(ctx.src, ctx.options))

(* What is skipped was not needed: after a build that ended well, where no *)
(* edit and no stop came while one ran, every library holds its module as  *)
(* it is, of each file the last version and of each source an object       *)
(* (skipRecent, buildSupporting, and the times they go by).                *)
LibsCurrent ==
  ctx.pc = "done" /\ ~raced =>
    \A m \in Built : HasTarget(m) =>
      {p \in Held(m) : p[1] \in Own(m, ctx.options)} = Latest(Own(m, ctx.options))

(* A module is built after those whose libraries its execs are linked with *)
(* (ParseDependencies registers them, BuildCtx_Build goes backwards).      *)
LinksReady ==
  ctx.pc = "execs" /\ ctx.todo # {} => \A m \in StaticLibs : Exists(lib[m])

(* A program that is run after a clean build is made of what the files say,*)
(* its own and those of every module it names.                             *)
RunsCurrent ==
  boot.at = "cmd" /\ boot.cmds # <<>> /\ Command.run \in Modules /\ ~taint =>
    \A f \in Execs(Command.run) : Exists(exe[f]) =>
      \A p \in exe[f].reads : p[2] = file[p[1]].ver

=============================================================================
