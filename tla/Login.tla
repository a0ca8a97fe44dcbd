------------------------------- MODULE Login -------------------------------
(***************************************************************************)
(* Logins, src/src/mod/passport/session/login.c: a directory for each,     *)
(* with a directory for its credentials and a file for each property that  *)
(* is a text.  A process makes, opens, persists, refreshes and destroys    *)
(* them and may be stopped between any two calls to the system.            *)
(***************************************************************************)
EXTENDS Integers, Sequences

CONSTANTS
  NONE,
  Uids,
  Props,       (* the properties that are texts, in the order of the seel  *)
  Values,      (* what a property can be                                   *)
  LOGIN_STOPS  (* bound: stops of the process                              *)

PropSet == {Props[i] : i \in DOMAIN Props}

(* What a file can hold, one that is made and not yet written included,    *)
(* and what the directory of a login can be.                               *)
Empty == ""
Content == Values \union Uids \union {Empty, "path"}
Directory == [auth : BOOLEAN, files : [PropSet -> Content \union {NONE}]]

ASSUME LoginAssumption ==
  /\ Props \in Seq(STRING) /\ Len(Props) > 1
  /\ NONE \notin Directory
  /\ LOGIN_STOPS \in Nat

VARIABLES
  logins,  (* the directory of each uid, or NONE                           *)
  lg,      (* the Login the process has and what it is doing with it       *)
  kept     (* what was persisted to the end for each uid, or NONE (history)*)

lvars == <<logins, lg, kept>>

NoProps == [p \in PropSet |-> NONE]
Opened(uid) == [NoProps EXCEPT ![Props[1]] = "path", ![Props[2]] = uid]
Login_At(pc, uid, vals) == [pc |-> pc, at |-> 0, uid |-> uid, vals |-> vals, stops |-> lg.stops]

Fatal_Login == lg' = Login_At("down", NONE, NoProps)
Step(pc, at) == lg' = [lg EXCEPT !.pc = pc, !.at = at]

(* What Login_Refresh makes of the properties: those that have a file are  *)
(* read from it.                                                           *)
Refreshed(uid, vals) ==
  [p \in PropSet |-> IF logins[uid].files[p] # NONE THEN logins[uid].files[p] ELSE vals[p]]
-----------------------------------------------------------------------------
(* Login_Create where there is a directory, and Login_Open where there is  *)
(* none, give a Login that is an error: the client drops it.               *)
Login_Create(uid) ==
  /\ lg.pc = "none" /\ logins[uid] = NONE
  /\ logins' = [logins EXCEPT ![uid] = [auth |-> FALSE, files |-> NoProps]]
  /\ lg' = [lg EXCEPT !.pc = "create", !.uid = uid]
  /\ UNCHANGED kept

CreateAuth ==
  /\ lg.pc = "create"
  /\ logins' = [logins EXCEPT ![lg.uid].auth = TRUE]
  /\ lg' = [lg EXCEPT !.pc = "idle", !.vals = Refreshed(lg.uid, Opened(lg.uid))]
  /\ UNCHANGED kept

Login_Open(uid) ==
  /\ lg.pc = "none" /\ logins[uid] # NONE
  /\ lg' = Login_At("idle", uid, Opened(uid))
  /\ UNCHANGED <<logins, kept>>

Login_Refresh ==
  /\ lg.pc = "idle" /\ logins[lg.uid] # NONE
  /\ lg' = [lg EXCEPT !.vals = Refreshed(lg.uid, lg.vals)]
  /\ UNCHANGED <<logins, kept>>

Seel_Set(prop, value) ==
  /\ lg.pc = "idle"
  /\ lg' = [lg EXCEPT !.vals[prop] = value]
  /\ UNCHANGED <<logins, kept>>

(* Login_Persist goes over the properties.  One that is there already is   *)
(* an Error no handler takes, as its Buff may not CLOBBER.                 *)
Login_Persist ==
  /\ lg.pc = "idle"
  /\ IF logins[lg.uid] = NONE THEN UNCHANGED lg ELSE Step("persist", 1)
  /\ UNCHANGED <<logins, kept>>

Next_Prop == IF lg.at = Len(Props) THEN Step("idle", 0) ELSE Step("persist", lg.at + 1)

Kept ==
  kept' = IF lg.at = Len(Props) THEN [kept EXCEPT ![lg.uid] = lg.vals] ELSE kept

(* O_TRUNC takes what is there.                                            *)
PersistProp_Clobber ==
  LET prop == Props[lg.at]
  IN  /\ lg.pc = "persist"
      /\ IF lg.vals[prop] = NONE THEN Next_Prop /\ Kept /\ UNCHANGED logins
         ELSE /\ logins' = [logins EXCEPT ![lg.uid].files[prop] = Empty]
              /\ Step("write", lg.at) /\ UNCHANGED kept

PersistProp ==
  LET prop == Props[lg.at]
  IN  /\ lg.pc = "persist"
      /\ IF lg.vals[prop] = NONE THEN Next_Prop /\ Kept /\ UNCHANGED logins
         ELSE IF logins[lg.uid].files[prop] # NONE THEN Fatal_Login /\ UNCHANGED <<logins, kept>>
         ELSE /\ logins' = [logins EXCEPT ![lg.uid].files[prop] = Empty]
              /\ Step("write", lg.at) /\ UNCHANGED kept

WriteProp ==
  /\ lg.pc = "write"
  /\ logins' = [logins EXCEPT ![lg.uid].files[Props[lg.at]] = lg.vals[Props[lg.at]]]
  /\ Next_Prop /\ Kept

Login_Destroy ==
  /\ lg.pc = "idle"
  /\ Step("unlink", 1)
  /\ kept' = [kept EXCEPT ![lg.uid] = NONE]
  /\ UNCHANGED logins

(* One file that is not there does not matter, a directory that is not     *)
(* empty stays.                                                            *)
UnlinkProp_NotLast ==
  /\ lg.pc = "unlink"
  /\ logins' = IF logins[lg.uid] = NONE THEN logins
               ELSE [logins EXCEPT ![lg.uid].files[Props[lg.at]] = NONE]
  /\ IF lg.at = Len(Props) - 1 THEN Step("rmauth", 0) ELSE Step("unlink", lg.at + 1)
  /\ UNCHANGED kept

UnlinkProp ==
  /\ lg.pc = "unlink"
  /\ logins' = IF logins[lg.uid] = NONE THEN logins
               ELSE [logins EXCEPT ![lg.uid].files[Props[lg.at]] = NONE]
  /\ IF lg.at = Len(Props) THEN Step("rmauth", 0) ELSE Step("unlink", lg.at + 1)
  /\ UNCHANGED kept

RmAuth ==
  /\ lg.pc = "rmauth"
  /\ logins' = IF logins[lg.uid] = NONE THEN logins ELSE [logins EXCEPT ![lg.uid].auth = FALSE]
  /\ Step("rmdir", 0)
  /\ UNCHANGED kept

RmDir ==
  /\ lg.pc = "rmdir"
  /\ logins' = IF logins[lg.uid] # NONE /\ logins[lg.uid].files = NoProps /\ ~logins[lg.uid].auth
               THEN [logins EXCEPT ![lg.uid] = NONE] ELSE logins
  /\ Step("idle", 0)
  /\ UNCHANGED kept

(* The client is done with a Login.                                        *)
Drop ==
  /\ lg.pc = "idle"
  /\ lg' = Login_At("none", NONE, NoProps)
  /\ UNCHANGED <<logins, kept>>

LoginStop ==
  /\ lg.pc # "down" /\ lg.stops < LOGIN_STOPS
  /\ lg' = [Login_At("down", NONE, NoProps) EXCEPT !.stops = @ + 1]
  /\ UNCHANGED <<logins, kept>>

LoginRestart ==
  /\ lg.pc = "down"
  /\ lg' = [lg EXCEPT !.pc = "none"]
  /\ UNCHANGED <<logins, kept>>

LoginInit ==
  /\ logins = [u \in Uids |-> NONE]
  /\ lg = [pc |-> "none", at |-> 0, uid |-> NONE, vals |-> NoProps, stops |-> 0]
  /\ kept = [u \in Uids |-> NONE]

LoginNext ==
  \/ \E uid \in Uids : Login_Create(uid) \/ Login_Open(uid)
  \/ \E i \in 3 .. Len(Props), v \in Values : Seel_Set(Props[i], v)
  \/ CreateAuth \/ Login_Refresh \/ Login_Persist \/ PersistProp \/ WriteProp
  \/ Login_Destroy \/ UnlinkProp \/ RmAuth \/ RmDir
  \/ Drop \/ LoginStop \/ LoginRestart

LoginSpec == LoginInit /\ [][LoginNext]_lvars
-----------------------------------------------------------------------------
LoginTypeOK ==
  /\ logins \in [Uids -> Directory \union {NONE}]
  /\ lg \in [pc : {"none", "idle", "create", "persist", "write", "unlink", "rmauth",
                  "rmdir", "down"},
            at : 0 .. Len(Props), uid : Uids \union {NONE},
            vals : [PropSet -> Content \union {NONE}], stops : 0 .. LOGIN_STOPS]
  /\ kept \in [Uids -> [PropSet -> Content \union {NONE}] \union {NONE}]

(* What was persisted to the end is what a refresh gives, wherever later   *)
(* calls stop, until the login is destroyed.                               *)
PersistedStays ==
  \A u \in Uids : kept[u] # NONE =>
    /\ logins[u] # NONE
    /\ \A p \in PropSet : kept[u][p] # NONE => logins[u].files[p] = kept[u][p]

(* A destroyed login leaves nothing that keeps the uid from being created  *)
(* again.                                                                  *)
DestroyedIsFree ==
  [][lg.pc = "rmdir" /\ lg'.pc = "idle" => logins'[lg.uid] = NONE]_lvars
=============================================================================
