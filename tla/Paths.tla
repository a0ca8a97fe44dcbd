------------------------------- MODULE Paths -------------------------------
(***************************************************************************)
(* Paths as annotated StrVecs, src/src/mod/base/sequence/path.c, and what  *)
(* src/src/mod/base/io/ioutil.c does with them: every separator is a Str   *)
(* of its own with a flag, MORE for "/" and LAST for ".", and the flags    *)
(* are all that later operations look at.  A path here is the sequence of  *)
(* its Strs: the bytes, the flag and NOOP, the mark of one that was        *)
(* blanked by IoUtil_Relativise.  Each text is an input of its own.        *)
(***************************************************************************)
EXTENDS Integers, Sequences
LOCAL INSTANCE SequencesExt
LOCAL INSTANCE FiniteSetsExt

CONSTANTS
  PATH_BYTES,  (* the bytes texts are made of: "/", "." and names          *)
  MAX_PATH     (* bound: bytes of a text                                   *)

VARIABLE given  (* the text of the path                                    *)

Seg(bytes, flag) == [bytes |-> bytes, flag |-> flag, noop |-> FALSE]
Part(bytes) == Seg(bytes, "")
PathSep == Seg(<<"/">>, "MORE")
ExtSep  == Seg(<<".">>, "LAST")

TextOf(path) == FlattenSeq([i \in DOMAIN path |-> path[i].bytes])
IsMore(path, i) == path[i].flag = "MORE"
IsLast(path, i) == path[i].flag = "LAST"

FlagLastIdx(path, flag) == Max({0} \union {i \in DOMAIN path : path[i].flag = flag})
FlagIdx(path, flag) == Min({Len(path) + 1} \union {i \in DOMAIN path : path[i].flag = flag})

From(path, i) == SubSeq(path, i + 1, Len(path))
UpTo(path, i) == SubSeq(path, 1, i)

(* Path_Annotate with the separators IoUtils_Init gives it: every Str is   *)
(* cut at its separators; one without bytes is dropped.                    *)
Cut(segs, byte) ==
  CASE byte = "/" -> Append(segs, PathSep)
    [] byte = "." -> Append(segs, ExtSep)
    [] byte \notin {"/", "."} ->
         IF segs # <<>> /\ Last(segs).flag = ""
         THEN Append(Front(segs), Part(Append(Last(segs).bytes, byte)))
         ELSE Append(segs, Part(<<byte>>))

Annotate(path) ==
  FlattenSeq([i \in DOMAIN path |-> FoldLeft(Cut, <<>>, path[i].bytes)])

IoPath_FromStr(text) == Annotate(<<Part(text)>>)

-----------------------------------------------------------------------------
(* IoUtil_Relativise blanks the Strs of "." and ".." in place.  It counts  *)
(* the dots since the last "/" it took care of, whatever else is among     *)
(* them, and steps back from that "/" over as many Strs as it counted.     *)
(* What it passes again on its way back to where it was is blank.          *)
Blank(path, from, to) ==
  [i \in DOMAIN path |->
     IF i \in from .. to THEN [path[i] EXCEPT !.bytes = <<>>, !.noop = TRUE] ELSE path[i]]

IsBlank(path, i) == path[i].noop /\ path[i].bytes = <<>>

(* The part before the dots goes, with the "/" before it.                  *)
StepUp(path, i) ==
  LET stop == Max({0} \union {k \in 1 .. i : IsBlank(path, k) \/ IsMore(path, k)})
      error == stop = 0 \/ IsBlank(path, stop)
  IN  [path |-> Blank(path, IF error THEN stop + 1 ELSE stop, i), error |-> error]

RelativiseAt_NoReset(acc, i) ==
  LET path == acc.path
      count == acc.count
  IN  CASE IsLast(path, i) /\ path[i].bytes = <<".">> -> [acc EXCEPT !.count = @ + 1]
        [] count = 1 /\ IsMore(path, i) -> [acc EXCEPT !.path = Blank(path, i - 1, i)]
        [] count > 1 /\ IsMore(path, i) ->
             LET up == StepUp(Blank(path, i - count, i), i - count - 2)
             IN  [acc EXCEPT !.path = up.path, !.error = @ \/ up.error]
        [] OTHER -> acc

RelativiseAt(acc, i) ==
  LET path == acc.path
      count == acc.count
  IN  CASE IsLast(path, i) /\ path[i].bytes = <<".">> -> [acc EXCEPT !.count = @ + 1]
        [] count = 1 /\ IsMore(path, i) ->
             [acc EXCEPT !.path = Blank(path, i - 1, i), !.count = 0, !.local = @ \/ i = 2]
        [] count > 1 /\ IsMore(path, i) ->
             LET up == StepUp(Blank(path, i - count, i), i - count - 2)
             IN  [acc EXCEPT !.path = up.path, !.error = @ \/ up.error, !.count = 0]
        [] OTHER -> acc

Relativise(path) ==
  FoldLeft(RelativiseAt, [path |-> path, count |-> 0, error |-> FALSE, local |-> FALSE],
           [i \in DOMAIN path |-> i])

-----------------------------------------------------------------------------
(* Taking a path apart.  An Iter that found no LAST going down stands on   *)
(* the first Str, and going up from there leaves that one out.             *)
Path_Base(path) == UpTo(path, FlagIdx(path, "LAST") - 1)
Path_WithoutExt(path) == UpTo(path, Max({0, FlagLastIdx(path, "LAST") - 1}))
Path_Ext(path) == From(path, Max({1, FlagLastIdx(path, "LAST")}))

Join(segs) == Part(TextOf(segs))

Path_ReJoinExt(path) ==
  LET more == FlagLastIdx(path, "MORE")
  IN  Append(UpTo(path, more), Join(From(path, more)))

(* IoUtil_GetExt gathers backwards; there is no extension before a "/".    *)
IoUtil_GetExt(path) ==
  IF FlagLastIdx(path, "MORE") > FlagLastIdx(path, "LAST") THEN <<>>
  ELSE Reverse(From(path, FlagLastIdx(path, "LAST")))

(* IoUtil_AddExt: the dots of the name are written over with "_".          *)
IoUtil_AddExt(path, ext) ==
  LET more == FlagLastIdx(path, "MORE")
  IN  [i \in DOMAIN path |-> IF i > more /\ IsLast(path, i) THEN Part(<<"_">>) ELSE path[i]]
        \o <<ExtSep, ext>>

(* IoUtil_SwapExt takes Strs off the end up to a "." or a "/".  Before a   *)
(* "/", or without either, there is no extension: an Error, and what was   *)
(* removed until then is gone (its callers do not look).  Without another  *)
(* to put there the "." goes too.                                          *)
HasExt(path) == FlagLastIdx(path, "LAST") > FlagLastIdx(path, "MORE")

NoExt == Seg(<<>>, "NULL")

IoUtil_SwapExt_AnyDot(path, ext) ==
  LET last == FlagLastIdx(path, "LAST")
  IN  IF last = 0 THEN [path |-> <<>>, error |-> TRUE]
      ELSE [path |-> IF ext = NoExt THEN UpTo(path, last - 1) ELSE Append(UpTo(path, last), ext),
            error |-> FALSE]

IoUtil_SwapExt(path, ext) ==
  LET last == FlagLastIdx(path, "LAST")
  IN  IF ~HasExt(path) THEN [path |-> UpTo(path, FlagLastIdx(path, "MORE")), error |-> TRUE]
      ELSE [path |-> IF ext = NoExt THEN UpTo(path, last - 1) ELSE Append(UpTo(path, last), ext),
            error |-> FALSE]

(* IoUtil_BasePath copies up to the last "/", or the first Str; FnameStr   *)
(* joins what comes after it.                                              *)
BasePathAnchor(path) == Max({1, FlagLastIdx(path, "MORE")})
IoUtil_BasePath(path) == UpTo(path, BasePathAnchor(path))

FnameStr(path) == TextOf(From(path, FlagLastIdx(path, "MORE")))

(* IoUtil_AddVec: a "/" between, unless one is there.                      *)
IoUtil_AddVec(path, other) ==
  (IF path # <<>> /\ Last(path).bytes # <<>> /\ Last(Last(path).bytes) # "/"
   THEN Append(path, PathSep) ELSE path) \o Annotate(other)

(* IoUtil_TrimDir: without the "/" at the end.                             *)
TrimDir(path) == IF path # <<>> /\ IsMore(path, Len(path)) THEN Front(path) ELSE path

(* IoUtil_AbsVec: a path that does not begin at the root is put behind the *)
(* working directory; of a leading "./" only the dot goes.                 *)
AbsVec(cwd, strs) ==
  IF strs # <<>> /\ strs[1].bytes # <<>> /\ Head(strs[1].bytes) = "/" THEN strs
  ELSE Annotate(<<cwd>> \o FlattenSeq([i \in DOMAIN strs |->
         IF i = 1 /\ IsPrefix(<<".", "/">>, strs[i].bytes)
         THEN <<Part(Tail(strs[i].bytes))>> ELSE <<PathSep, strs[i]>>]))

-----------------------------------------------------------------------------
PathInit == given \in SeqOf(PATH_BYTES, MAX_PATH) \ {<<>>}

(* The components of a text, and the names they lead through from the      *)
(* root: empty ones and "." lead nowhere, ".." takes back the name before  *)
(* it, or leads above the root.                                            *)
Components(text) ==
  FoldLeft(LAMBDA acc, b : IF b = "/" THEN Append(acc, <<>>)
                           ELSE Append(Front(acc), Append(Last(acc), b)),
           <<(<<>>)>>, text)

Dot    == <<".">>
DotDot == <<".", ".">>

Resolved(comps) ==
  FoldLeft(LAMBDA acc, c :
             CASE c \in {<<>>, Dot} -> acc
               [] c = DotDot /\ acc.names = <<>> -> [acc EXCEPT !.above = TRUE]
               [] c = DotDot /\ acc.names # <<>> -> [acc EXCEPT !.names = Front(@)]
               [] OTHER -> [acc EXCEPT !.names = Append(@, c)],
           [names |-> <<>>, above |-> FALSE], comps)

Names(text) == Resolved(Components(text)).names

(* Names without dots.                                                     *)
Plain(comps) == \A i \in DOMAIN comps : comps[i] \in {Dot, DotDot} \/ "." \notin ToSet(comps[i])

(* IoUtil_Relativise counts the empty name between two "/" as one to be    *)
(* taken back: the components that stay in its counting, and whether one   *)
(* that was taken back was empty.                                          *)
Counted(comps) ==
  FoldLeft(LAMBDA acc, c :
             CASE c = Dot -> acc
               [] c = DotDot /\ acc.stay = <<>> -> acc
               [] c = DotDot /\ acc.stay # <<>> ->
                    [stay |-> Front(acc.stay), empty |-> acc.empty \/ Last(acc.stay) = <<>>]
               [] OTHER -> [acc EXCEPT !.stay = Append(@, c)],
           [stay |-> <<>>, empty |-> FALSE], comps)

TakesEmptyBack(dirs) == Counted(Tail(dirs)).empty

-----------------------------------------------------------------------------
(* A path from the root, whose names have no dots and where no ".." takes  *)
(* back the empty name between two slashes, names after IoUtil_Relativise  *)
(* the same file as before, under the same last component and with no "."  *)
(* or ".." left before a "/", unless it is flagged with ERROR; and it is   *)
(* flagged whenever what stands before its last "/" leads above the root,  *)
(* which the file server relies on.  (A last component is left as it is.)  *)
Relativised ==
  LET comps == Components(given)
      dirs == Front(comps)
      done == Relativise(IoPath_FromStr(given))
      after == Components(TextOf(done.path))
  IN  Head(given) = "/" /\ Plain(comps) /\ ~TakesEmptyBack(dirs) =>
        /\ ~done.error => /\ Names(TextOf(done.path)) = Names(given)
                          /\ Last(after) = Last(comps)
                          /\ ToSet(Front(after)) \cap {Dot, DotDot} = {}
        /\ Resolved(dirs).above => done.error

(* A path is taken apart where its flags say and nowhere else, and put     *)
(* together again it is the same text: annotating it again changes         *)
(* nothing, its directory and its file name make it up, a name's extension *)
(* and the rest make it up, and an extension that is put on or swapped is  *)
(* the one that is found, with the name before it kept.  Swapping is an    *)
(* Error just when the file name has no ".", and leaves the directory.     *)
NamesSplit ==
  LET path == IoPath_FromStr(given)
      e == <<"e">>
      swapped == IoUtil_SwapExt(path, Part(e))
      cut == IoUtil_SwapExt(path, NoExt)
      added == IoUtil_AddExt(path, Part(e))
  IN  /\ TextOf(path) = given /\ Annotate(path) = path
      /\ FlagLastIdx(path, "MORE") > 0 => TextOf(IoUtil_BasePath(path)) \o FnameStr(path) = given
      /\ TextOf(Path_ReJoinExt(path)) = given /\ Last(Path_ReJoinExt(path)).bytes = FnameStr(path)
      /\ HasExt(path) =>
           /\ TextOf(Path_WithoutExt(path)) \o <<".">> \o TextOf(Path_Ext(path)) = given
           /\ IoUtil_GetExt(path) = Path_Ext(path)
           /\ TextOf(swapped.path) = TextOf(Path_WithoutExt(path)) \o <<".">> \o e
           /\ FnameStr(swapped.path) = Path_ReJoinExt(swapped.path)[FlagLastIdx(path, "MORE") + 1].bytes
           /\ TextOf(cut.path) = TextOf(Path_WithoutExt(path))
      /\ swapped.error = cut.error /\ swapped.error = ("." \notin ToSet(Last(Components(given))))
      /\ swapped.error => TextOf(swapped.path) \o FnameStr(path) = given
      /\ FlagIdx(path, "LAST") = FlagLastIdx(path, "LAST") => Path_Base(path) = Path_WithoutExt(path)
      /\ IoUtil_GetExt(added) = <<Part(e)>>
      /\ TextOf(UpTo(added, FlagLastIdx(path, "MORE"))) = TextOf(UpTo(path, FlagLastIdx(path, "MORE")))
      /\ TextOf(AbsVec(Part(<<"/", "c">>), <<Part(given)>>)) =
           CASE Head(given) = "/" -> given
             [] IsPrefix(<<".", "/">>, given) -> <<"/", "c">> \o Tail(given)
             [] OTHER -> <<"/", "c", "/">> \o given
      /\ Components(TextOf(IoUtil_AddVec(TrimDir(path), <<Part(e)>>))) =
           IF TrimDir(path) # <<>> /\ Last(TextOf(TrimDir(path))) # "/"
           THEN Append(Components(TextOf(TrimDir(path))), e)
           ELSE Front(Components(TextOf(TrimDir(path)))) \o <<e>>
=============================================================================
