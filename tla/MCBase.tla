------------------------------- MODULE MCBase -------------------------------
(* Texts in pieces, paths and the climbing of directories; each behavior   *)
(* is of one of them.                                                      *)
EXTENDS StrVec, Paths, Dirs
LOCAL INSTANCE TLC

VARIABLE part

MCPieces == {<<>>, <<"a">>, <<"^", "a">>}

MCSkip == <<"o">>
MCOnly == <<"o", "/", "b">>
MCFolders == <<"o">> :> <<>> @@ <<"x">> :> <<>> @@
             <<"o", "/", "b">> :> <<"o">> @@ <<"o", "/", "c">> :> <<"o">>

File(dir, match, t) == [dir |-> dir, match |-> match, time |-> t]
MCEntries == {File(<<>>, TRUE, 1), File(<<>>, FALSE, 4), File(<<"o", "/", "b">>, TRUE, 3),
              File(<<"o", "/", "c">>, TRUE, 2), File(<<"x">>, TRUE, 2)}

Init ==
  /\ part \in {"strvec", "path", "dir"}
  /\ StrVecInit
  /\ IF part = "path" THEN PathInit ELSE given = <<"a">>
  /\ DirInit /\ (part # "dir" => use = "all")

Next ==
  /\ UNCHANGED <<part, given>>
  /\ \/ part = "strvec" /\ StrVecNext /\ UNCHANGED dirvars
     \/ part = "dir" /\ DirNext /\ UNCHANGED strvars

Spec == Init /\ [][Next]_<<part, given, strvars, dirvars>>
=============================================================================
