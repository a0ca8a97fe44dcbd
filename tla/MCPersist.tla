----------------------------- MODULE MCPersist -----------------------------
(* The three parts that keep something on disk; each behavior is one of   *)
(* them.  The keys of a session and the slot the hash of each gives it,   *)
(* and the values of a log.                                               *)
EXTENDS Ssid, Login, BinSeg
LOCAL INSTANCE TLC

VARIABLE part

MCSlot == "username" :> 1 @@ "orig-ssid" :> 2 @@ "user-agent" :> 3
MCParity == "ua" :> 1 @@ "other" :> 2
MCProps == <<"path", "uid", "email", "username">>

Made(kind, parts) == [kind |-> kind, text |-> "", parts |-> parts]
Vec == Made("bytes_collection", <<Bytes("a")>>)
Dict == Made("dictionary", <<Bytes("k"), Bytes("b")>>)
MCSent == {Bytes("a"), Vec, Dict, Made("collection", <<Vec, Dict>>), Made("inst", <<Dict, Vec>>),
           Made("collection", <<Made("number", <<>>), Bytes("b")>>)}

Init ==
  /\ part \in {"ssid", "login", "binseg"}
  /\ SsidInit /\ LoginInit /\ BinSegInit
  /\ seg.reversed => part = "binseg"

Next ==
  /\ UNCHANGED part
  /\ \/ part = "ssid" /\ SsidNext /\ UNCHANGED <<lvars, bvars>>
     \/ part = "login" /\ LoginNext /\ UNCHANGED <<svars, bvars>>
     \/ part = "binseg" /\ BinSegNext /\ UNCHANGED <<svars, lvars>>

Spec == Init /\ [][Next]_<<part, svars, lvars, bvars>>

TypeOK == SsidTypeOK /\ LoginTypeOK /\ BinSegTypeOK
=============================================================================
