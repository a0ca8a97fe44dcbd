--------------------------- MODULE PersistProofs ---------------------------
(***************************************************************************)
(* Proofs about what is kept on disk.  Sessions: for every set of agents,  *)
(* texts and addresses and any number of ids and stops.  Logins: for every *)
(* set of uids, properties and values and any number of stops.             *)
(***************************************************************************)
EXTENDS Ssid, Login, TLAPS, NaturalsInduction, WellFoundedInduction, SequenceTheorems

(* No two directories are of the same session.                             *)
OrigsDiffer ==
  \A i, j \in DOMAIN dirs : dirs[i].orig = dirs[j].orig => i = j

(* A session that was answered has a directory.                            *)
LiveKept == \A o \in live : \E i \in DOMAIN dirs : dirs[i].orig = o

(* What is being written or removed is there, and is forgotten before it   *)
(* is removed.                                                             *)
Underway ==
  /\ ssid.pc \in {"open", "header", "page", "remove"} => ssid.id \in DOMAIN dirs
  /\ ssid.pc = "remove" => dirs[ssid.id].orig \notin live

SsidInv == SsidTypeOK /\ OrigsDiffer /\ LiveKept /\ Underway
-----------------------------------------------------------------------------
(* A step of ssid that changes no more than its fields keeps its shape.    *)
Shape == {"pc", "count", "id", "agent", "out", "data", "sets", "stops"}

\* Nothing that is underway is lost by what only moves the process along,
\* or ends it, and leaves the name and the origin of every directory.
LEMMA SameNames ==
  ASSUME SsidInv, DOMAIN ssid' = Shape, ssid'.count = ssid.count,
         DOMAIN dirs' = DOMAIN dirs, live' = live,
         \A i \in DOMAIN dirs : dirs'[i].orig = dirs[i].orig
                                /\ DOMAIN dirs'[i] = {"parity", "orig", "file"},
         \/ ssid'.pc \in {"idle", "down"}
         \/ ssid'.pc \in {"header", "page"} /\ ssid'.id \in DOMAIN dirs
  PROVE  SsidInv'
<1>1. SsidTypeOK'
  BY DEF SsidInv, SsidTypeOK, Shape
<1>2. OrigsDiffer'
  BY DEF SsidInv, OrigsDiffer
<1>3. LiveKept'
  BY DEF SsidInv, LiveKept
<1>4. Underway'
  BY DEF SsidInv, Underway
<1>5. QED BY <1>1, <1>2, <1>3, <1>4 DEF SsidInv

\* To end, by an Error or by a stop, leaves the directories.
LEMMA DownKeeps ==
  ASSUME SsidInv, ssid' = Down, UNCHANGED <<dirs, live>>
  PROVE  SsidInv'
<1>1. DOMAIN ssid = Shape
  BY DEF SsidInv, SsidTypeOK, Shape
<1>2. /\ DOMAIN ssid' = Shape /\ ssid'.count = ssid.count /\ ssid'.pc = "down"
  BY <1>1 DEF Down, Shape
<1>3. \A i \in DOMAIN dirs : DOMAIN dirs[i] = {"parity", "orig", "file"}
  BY DEF SsidInv, SsidTypeOK
<1>4. QED BY <1>2, <1>3, SameNames

\* To open a file for writing leaves the names, whether the packing fails or not.
LEMMA FlushingKeeps ==
  ASSUME SsidInv, NEW id \in DOMAIN dirs, NEW pages, NEW data,
         Flushing(id, pages, data), live' = live
  PROVE  SsidInv'
<1>1. DOMAIN ssid = Shape
  BY DEF SsidInv, SsidTypeOK, Shape
<1> DEFINE mem == Stash_FlushFree(pages)
           out == [checksum |-> mem.checksum, pages |-> mem.pages]
<1>2. /\ dirs' = [dirs EXCEPT ![id].file = NoFile]
      /\ \/ ssid' = Down
         \/ ssid' = [ssid EXCEPT !.pc = "header", !.id = id, !.data = data, !.out = out]
  BY DEF Flushing, Fatal
<1> HIDE DEF mem, out
<1> DEFINE r == [dirs[id] EXCEPT !.file = NoFile]
<1>3. dirs' = [dirs EXCEPT ![id] = r]
  BY <1>2
<1>4. \A i \in DOMAIN dirs : DOMAIN dirs[i] = {"parity", "orig", "file"}
  BY DEF SsidInv, SsidTypeOK
<1>5. r.orig = dirs[id].orig /\ DOMAIN r = {"parity", "orig", "file"}
  BY <1>4
<1> HIDE DEF r
<1>6. /\ DOMAIN dirs' = DOMAIN dirs
      /\ \A i \in DOMAIN dirs : dirs'[i].orig = dirs[i].orig
                                /\ DOMAIN dirs'[i] = {"parity", "orig", "file"}
  BY <1>3, <1>4, <1>5
<1>7. CASE ssid' = Down
  <2>1. /\ DOMAIN ssid' = Shape /\ ssid'.count = ssid.count /\ ssid'.pc = "down"
    BY <1>1, <1>7 DEF Down, Shape
  <2>2. QED BY <2>1, <1>6, SameNames
<1>8. CASE ssid' = [ssid EXCEPT !.pc = "header", !.id = id, !.data = data, !.out = out]
  <2>1. /\ DOMAIN ssid' = Shape /\ ssid'.count = ssid.count
        /\ ssid'.pc = "header" /\ ssid'.id = id
    BY <1>1, <1>8 DEF Shape
  <2>2. QED BY <2>1, <1>6, SameNames
<1>9. QED BY <1>2, <1>7, <1>8
-----------------------------------------------------------------------------
\* What each operation leaves of the invariant.
LEMMA StartStep ==
  ASSUME SsidInv, NEW ua \in Agents, Ssid_Start(ua)
  PROVE  SsidInv'
<1> DEFINE id == ssid.count + 1
           dir == [parity |-> Parity[ua], orig |-> id, file |-> NULL]
<1>1. /\ DOMAIN ssid = Shape /\ ssid.count \in 0 .. MAX_IDS /\ ssid.count < MAX_IDS
      /\ MAX_IDS \in Nat
      /\ DOMAIN dirs \subseteq 1 .. ssid.count /\ live \subseteq 1 .. ssid.count
      /\ \A i \in DOMAIN dirs : /\ DOMAIN dirs[i] = {"parity", "orig", "file"}
                                /\ dirs[i].orig \in 1 .. ssid.count
  BY SsidAssumption DEF SsidInv, SsidTypeOK, Shape, Ssid_Start
<1>2. /\ dirs' = [i \in DOMAIN dirs \union {id} |-> IF i = id THEN dir ELSE dirs[i]]
      /\ live' = live
  BY DEF Ssid_Start, With
<1>3. /\ DOMAIN ssid' = Shape /\ ssid'.count = id /\ ssid'.pc = "open" /\ ssid'.id = id
  BY <1>1 DEF Ssid_Start, Shape
<1>4. dir.orig = id /\ DOMAIN dir = {"parity", "orig", "file"}
  OBVIOUS
<1>5. id \in 0 .. MAX_IDS /\ id \in 1 .. id /\ 1 .. ssid.count \subseteq 1 .. id
      /\ id \notin 1 .. ssid.count
  BY <1>1
<1> HIDE DEF id, dir
<1>6. /\ DOMAIN dirs' = DOMAIN dirs \union {id}
      /\ dirs'[id] = dir
      /\ \A i \in DOMAIN dirs : dirs'[i] = dirs[i]
  BY <1>1, <1>2, <1>5
<1>7. SsidTypeOK'
  BY <1>1, <1>2, <1>3, <1>4, <1>5, <1>6 DEF SsidTypeOK, Shape
<1>8. OrigsDiffer'
  BY <1>1, <1>4, <1>5, <1>6 DEF SsidInv, OrigsDiffer
<1>9. LiveKept'
  BY <1>2, <1>6 DEF SsidInv, LiveKept
<1>10. Underway'
  BY <1>3, <1>6 DEF Underway
<1>11. QED BY <1>7, <1>8, <1>9, <1>10 DEF SsidInv

\* The last write of a Stash: the session is one that was answered.
LEMMA WritePageStep ==
  ASSUME SsidInv, WritePage
  PROVE  SsidInv'
<1> DEFINE id == ssid.id
           r == [dirs[id] EXCEPT !.file.pages = ssid.out.pages]
<1>1. /\ DOMAIN ssid = Shape /\ ssid.count \in 0 .. MAX_IDS
      /\ id \in DOMAIN dirs
      /\ DOMAIN dirs \subseteq 1 .. ssid.count /\ live \subseteq 1 .. ssid.count
      /\ \A i \in DOMAIN dirs : /\ DOMAIN dirs[i] = {"parity", "orig", "file"}
                                /\ dirs[i].orig \in 1 .. ssid.count
  BY DEF SsidInv, SsidTypeOK, Shape, WritePage, Underway
<1>2. dirs' = [dirs EXCEPT ![id] = r]
  BY DEF WritePage
<1>3. r.orig = dirs[id].orig /\ DOMAIN r = {"parity", "orig", "file"}
  BY <1>1
<1>4. live' = live \union {dirs[id].orig}
  BY DEF WritePage
<1>5. DOMAIN ssid' = Shape /\ ssid'.count = ssid.count /\ ssid'.pc = "idle"
  BY <1>1 DEF WritePage, Shape
<1> HIDE DEF r, id
<1>6. /\ DOMAIN dirs' = DOMAIN dirs
      /\ \A i \in DOMAIN dirs : dirs'[i].orig = dirs[i].orig
                                /\ DOMAIN dirs'[i] = {"parity", "orig", "file"}
  BY <1>1, <1>2, <1>3
<1>7. SsidTypeOK'
  BY <1>1, <1>4, <1>5, <1>6 DEF SsidTypeOK, Shape
<1>8. OrigsDiffer'
  BY <1>6 DEF SsidInv, OrigsDiffer
<1>9. LiveKept'
  BY <1>1, <1>4, <1>6 DEF SsidInv, LiveKept
<1>10. Underway'
  BY <1>5 DEF Underway
<1>11. QED BY <1>7, <1>8, <1>9, <1>10 DEF SsidInv

\* The write before it gives the file of that session its header, and no more.
LEMMA WriteHeaderStep ==
  ASSUME SsidInv, WriteHeader
  PROVE  SsidInv'
<1> DEFINE id == ssid.id
           r == [dirs[id] EXCEPT !.file.checksum = ssid.out.checksum]
<1>1. /\ DOMAIN ssid = Shape /\ id \in DOMAIN dirs /\ live' = live
      /\ \A i \in DOMAIN dirs : DOMAIN dirs[i] = {"parity", "orig", "file"}
  BY DEF SsidInv, SsidTypeOK, Shape, WriteHeader, Underway
<1>2. dirs' = [dirs EXCEPT ![id] = r]
  BY DEF WriteHeader
<1>3. r.orig = dirs[id].orig /\ DOMAIN r = {"parity", "orig", "file"}
  BY <1>1
<1>4. /\ DOMAIN ssid' = Shape /\ ssid'.count = ssid.count
      /\ ssid'.pc = "page" /\ ssid'.id = id
  BY <1>1 DEF WriteHeader, Shape
<1> HIDE DEF r, id
<1>5. /\ DOMAIN dirs' = DOMAIN dirs
      /\ \A i \in DOMAIN dirs : dirs'[i].orig = dirs[i].orig
                                /\ DOMAIN dirs'[i] = {"parity", "orig", "file"}
  BY <1>1, <1>2, <1>3
<1>6. QED BY <1>1, <1>4, <1>5, SameNames

\* A session is renewed under another name: the old one goes as it comes.
LEMMA UpdateStep ==
  ASSUME SsidInv, NEW id \in Ids, NEW ua \in Agents, Ssid_Update(id, ua)
  PROVE  SsidInv'
<1> DEFINE new == ssid.count + 1
           dir == [dirs[id] EXCEPT !.parity = Parity[ua]]
<1>1. /\ DOMAIN ssid = Shape /\ ssid.count \in 0 .. MAX_IDS /\ ssid.count < MAX_IDS
      /\ MAX_IDS \in Nat /\ id \in DOMAIN dirs /\ ssid.pc = "idle"
      /\ DOMAIN dirs \subseteq 1 .. ssid.count /\ live \subseteq 1 .. ssid.count
      /\ \A i \in DOMAIN dirs : /\ DOMAIN dirs[i] = {"parity", "orig", "file"}
                                /\ dirs[i].orig \in 1 .. ssid.count
  BY SsidAssumption DEF SsidInv, SsidTypeOK, Shape, Ssid_Update, HalfParity_Compare
<1>2. live' = live
  BY DEF Ssid_Update
<1>3. \/ ssid' = Down /\ dirs' = dirs
      \/ /\ dirs' = [i \in (DOMAIN dirs \ {id}) \union {new} |->
                       IF i = new THEN dir ELSE dirs[i]]
         /\ ssid' = [ssid EXCEPT !.count = new]
  BY DEF Ssid_Update, Renamed, Fatal
<1>4. CASE ssid' = Down /\ dirs' = dirs
  BY <1>2, <1>4, DownKeeps
<1>5. CASE /\ dirs' = [i \in (DOMAIN dirs \ {id}) \union {new} |->
                          IF i = new THEN dir ELSE dirs[i]]
           /\ ssid' = [ssid EXCEPT !.count = new]
  <2>1. dir.orig = dirs[id].orig /\ DOMAIN dir = {"parity", "orig", "file"}
    BY <1>1
  <2>2. new \in 0 .. MAX_IDS /\ new \in 1 .. new /\ 1 .. ssid.count \subseteq 1 .. new
        /\ new \notin 1 .. ssid.count
    BY <1>1
  <2>3. DOMAIN ssid' = Shape /\ ssid'.count = new /\ ssid'.pc = "idle"
    BY <1>1, <1>5 DEF Shape
  <2> HIDE DEF new, dir
  <2>4. /\ DOMAIN dirs' = (DOMAIN dirs \ {id}) \union {new}
        /\ dirs'[new] = dir
        /\ \A i \in DOMAIN dirs \ {id} : dirs'[i] = dirs[i]
    BY <1>1, <1>5, <2>2
  <2>5. SsidTypeOK'
    BY <1>1, <1>2, <2>1, <2>2, <2>3, <2>4 DEF SsidTypeOK, Shape
  <2>6. OrigsDiffer'
    BY <1>1, <2>1, <2>4 DEF SsidInv, OrigsDiffer
  <2>7. LiveKept'
    BY <1>1, <1>2, <2>1, <2>4 DEF SsidInv, LiveKept
  <2>8. Underway'
    BY <2>3 DEF Underway
  <2>9. QED BY <2>5, <2>6, <2>7, <2>8 DEF SsidInv
<1>6. QED BY <1>3, <1>4, <1>5

\* A session is forgotten first, its file unlinked, and then its directory goes.
LEMMA DestroyStep ==
  ASSUME SsidInv, NEW id \in Ids, NEW ua \in Agents, Ssid_Destroy(id, ua)
  PROVE  SsidInv'
<1> DEFINE r == [dirs[id] EXCEPT !.file = NULL]
<1>1. /\ DOMAIN ssid = Shape /\ ssid.count \in 0 .. MAX_IDS /\ id \in DOMAIN dirs
      /\ DOMAIN dirs \subseteq 1 .. ssid.count /\ live \subseteq 1 .. ssid.count
      /\ \A i \in DOMAIN dirs : /\ DOMAIN dirs[i] = {"parity", "orig", "file"}
                                /\ dirs[i].orig \in 1 .. ssid.count
  BY DEF SsidInv, SsidTypeOK, Shape, Ssid_Destroy, HalfParity_Compare
<1>2. dirs' = [dirs EXCEPT ![id] = r]
  BY DEF Ssid_Destroy
<1>3. r.orig = dirs[id].orig /\ DOMAIN r = {"parity", "orig", "file"}
  BY <1>1
<1>4. live' = live \ {dirs[id].orig}
  BY DEF Ssid_Destroy
<1>5. /\ DOMAIN ssid' = Shape /\ ssid'.count = ssid.count
      /\ ssid'.pc = "remove" /\ ssid'.id = id
  BY <1>1 DEF Ssid_Destroy, Shape
<1> HIDE DEF r
<1>6. /\ DOMAIN dirs' = DOMAIN dirs
      /\ \A i \in DOMAIN dirs : dirs'[i].orig = dirs[i].orig
                                /\ DOMAIN dirs'[i] = {"parity", "orig", "file"}
  BY <1>1, <1>2, <1>3
<1>7. SsidTypeOK'
  BY <1>1, <1>4, <1>5, <1>6 DEF SsidTypeOK, Shape
<1>8. OrigsDiffer'
  BY <1>6 DEF SsidInv, OrigsDiffer
<1>9. LiveKept'
  BY <1>4, <1>6 DEF SsidInv, LiveKept
<1>10. Underway'
  BY <1>1, <1>4, <1>5, <1>6 DEF Underway
<1>11. QED BY <1>7, <1>8, <1>9, <1>10 DEF SsidInv

\* Only a directory of a session that was forgotten is removed.
LEMMA RemoveStep ==
  ASSUME SsidInv, Dir_Rm
  PROVE  SsidInv'
<1> DEFINE id == ssid.id
<1>1. /\ DOMAIN ssid = Shape /\ ssid.count \in 0 .. MAX_IDS
      /\ id \in DOMAIN dirs /\ dirs[id].orig \notin live
  BY DEF SsidInv, SsidTypeOK, Shape, Dir_Rm, Underway
<1>2. dirs' = [i \in DOMAIN dirs \ {id} |-> dirs[i]] /\ live' = live
  BY DEF Dir_Rm, Without
<1>3. DOMAIN ssid' = Shape /\ ssid'.count = ssid.count /\ ssid'.pc = "idle"
  BY <1>1 DEF Dir_Rm, Shape
<1> HIDE DEF id
<1>4. /\ DOMAIN dirs' = DOMAIN dirs \ {id}
      /\ \A i \in DOMAIN dirs \ {id} : dirs'[i] = dirs[i]
  BY <1>2
<1>5. SsidTypeOK'
  BY <1>2, <1>3, <1>4 DEF SsidInv, SsidTypeOK, Shape
<1>6. OrigsDiffer'
  BY <1>4 DEF SsidInv, OrigsDiffer
<1>7. LiveKept'
  BY <1>1, <1>2, <1>4 DEF SsidInv, LiveKept
<1>8. Underway'
  BY <1>3 DEF Underway
<1>9. QED BY <1>5, <1>6, <1>7, <1>8 DEF SsidInv

\* What leaves the directories and moves the process along at most.
LEMMA KeepStep ==
  ASSUME SsidInv, UNCHANGED <<dirs, live>>,
         \/ ssid' = Down \/ UNCHANGED ssid
         \/ ssid' = [Down EXCEPT !.stops = @ + 1]
         \/ ssid' = [ssid EXCEPT !.pc = "idle"]
         \/ ssid' = [ssid EXCEPT !.sets = @ + 1]
  PROVE  SsidInv'
<1>1. /\ DOMAIN ssid = Shape
      /\ \A i \in DOMAIN dirs : DOMAIN dirs[i] = {"parity", "orig", "file"}
  BY DEF SsidInv, SsidTypeOK, Shape
<1>2. CASE ssid' = Down
  BY <1>2, DownKeeps
<1>3. CASE UNCHANGED ssid
  BY <1>3 DEF SsidInv, SsidTypeOK, OrigsDiffer, LiveKept, Underway
<1>4. CASE ssid' = [Down EXCEPT !.stops = @ + 1]
  <2>1. DOMAIN ssid' = Shape /\ ssid'.count = ssid.count /\ ssid'.pc = "down"
    BY <1>1, <1>4 DEF Shape, Down
  <2>2. QED BY <1>1, <2>1, SameNames
<1>5. CASE ssid' = [ssid EXCEPT !.pc = "idle"]
  <2>1. DOMAIN ssid' = Shape /\ ssid'.count = ssid.count /\ ssid'.pc = "idle"
    BY <1>1, <1>5 DEF Shape
  <2>2. QED BY <1>1, <2>1, SameNames
<1>6. CASE ssid' = [ssid EXCEPT !.sets = @ + 1]
  <2>1. /\ DOMAIN ssid' = Shape /\ ssid'.count = ssid.count /\ ssid'.pc = ssid.pc
        /\ ssid'.id = ssid.id
    BY <1>1, <1>6 DEF Shape
  <2>2. QED BY <1>6, <2>1 DEF Shape, SsidInv, SsidTypeOK, OrigsDiffer, LiveKept, Underway
<1>7. QED BY <1>2, <1>3, <1>4, <1>5, <1>6
-----------------------------------------------------------------------------
\* At first there is no directory; what follows keeps the invariant.
LEMMA SsidInitInv == SsidInit => SsidInv
<1>1. 0 \in 0 .. MAX_IDS
  BY SsidAssumption
<1>2. ASSUME SsidInit PROVE DOMAIN dirs = {}
  BY <1>2 DEF SsidInit
<1>3. QED
  BY <1>1, <1>2 DEF SsidInit, SsidInv, SsidTypeOK, OrigsDiffer, LiveKept, Underway

\* Each operation of ssid.c keeps the invariant, and so does a stop.
LEMMA SsidStepInv == SsidInv /\ [SsidNext]_svars => SsidInv'
<1> SUFFICES ASSUME SsidInv, [SsidNext]_svars PROVE SsidInv'
  OBVIOUS
<1>1. CASE UNCHANGED svars
  BY <1>1, KeepStep DEF svars
<1>2. ASSUME NEW ua \in Agents, Ssid_Start(ua) PROVE SsidInv'
  BY <1>2, StartStep
<1>3. ASSUME NEW ua \in Agents, NEW id \in Ids, Ssid_Open(id, ua) PROVE SsidInv'
  BY <1>3, KeepStep DEF Ssid_Open, Fatal
<1>4. ASSUME NEW ua \in Agents, NEW id \in Ids, Ssid_Close(id, ua) PROVE SsidInv'
  BY <1>4, FlushingKeeps DEF Ssid_Close, HalfParity_Compare
<1>5. ASSUME NEW ua \in Agents, NEW id \in Ids, Ssid_Update(id, ua) PROVE SsidInv'
  BY <1>5, UpdateStep
<1>6. ASSUME NEW ua \in Agents, NEW id \in Ids, Ssid_Destroy(id, ua) PROVE SsidInv'
  BY <1>6, DestroyStep
<1>7. ASSUME StashTable PROVE SsidInv'
  <2>1. ssid.id \in DOMAIN dirs /\ live' = live
    BY <1>7 DEF StashTable, SsidInv, Underway
  <2>2. \E pages, data : Flushing(ssid.id, pages, data)
    BY <1>7 DEF StashTable
  <2>3. QED BY <2>1, <2>2, FlushingKeeps
<1>8. ASSUME WriteHeader PROVE SsidInv'
  BY <1>8, WriteHeaderStep
<1>9. ASSUME WritePage PROVE SsidInv'
  BY <1>9, WritePageStep
<1>10. ASSUME Dir_Rm PROVE SsidInv'
  BY <1>10, RemoveStep
<1>11. ASSUME NEW key, NEW text, Table_Set(key, text) PROVE SsidInv'
  BY <1>11, KeepStep DEF Table_Set, Fatal
<1>12. ASSUME Client_Make PROVE SsidInv'
  BY <1>12, KeepStep DEF Client_Make
<1>16. ASSUME Client_Drop PROVE SsidInv'
  BY <1>16, KeepStep DEF Client_Drop
<1>13. ASSUME SsidStop PROVE SsidInv'
  BY <1>13, KeepStep DEF SsidStop
<1>14. ASSUME SsidRestart PROVE SsidInv'
  BY <1>14, KeepStep DEF SsidRestart
<1>15. QED
  BY <1>1, <1>2, <1>3, <1>4, <1>5, <1>6, <1>7, <1>8, <1>9, <1>10, <1>11, <1>12,
     <1>13, <1>14, <1>16 DEF SsidNext

(* Whatever is started, renewed, closed and destroyed, and wherever the    *)
(* process stops: every directory is of one session, and what is being     *)
(* written or removed is there (ssid.c).                                   *)
THEOREM SsidInvariant == SsidSpec => []SsidInv
<1>1. QED BY SsidInitInv, SsidStepInv, PTL DEF SsidSpec

(* No id is given twice, and every directory is of a session that was      *)
(* started (Ssid_From).                                                    *)
THEOREM SsidIsTyped == SsidSpec => []SsidTypeOK
<1>1. SsidInv => SsidTypeOK
  BY DEF SsidInv
<1>2. QED BY <1>1, SsidInvariant, PTL

(* A session that was answered has exactly one directory until it is       *)
(* destroyed, however often Ssid_Update renames it.                        *)
THEOREM SsidOneName == SsidSpec => []OneName
<1>1. SsidInv => OneName
  BY DEF SsidInv, OrigsDiffer, LiveKept, OneName
<1>2. QED BY <1>1, SsidInvariant, PTL
-----------------------------------------------------------------------------
(* What the files of sessions say.  The loops over an arena (mem_iter.c,   *)
(* stash.c) are functions on the number of steps: there is one, by         *)
(* induction on a set of naturals, and so each is what its equation says.  *)

(* A sequence, of whatever is in it.                                       *)
Listed(s) == s \in Seq({s[n] : n \in DOMAIN s})

(* The loops of a walk, of MemIter_GetTable and of Stash_PackMemCh.        *)
IsWalk(f, pages, N) ==
  f = [n \in 0 .. N |-> IF n = 0 THEN MemIter_Init ELSE MemIter_Next(f[n - 1], pages)]

IsTable(f, pages, N) ==
  f = [n \in 0 .. N |->
         IF n = 0 THEN [slIdx |-> 0, tbl |-> <<>>]
         ELSE IF Walk(pages)[n].end THEN f[n - 1]
         ELSE Indexed(f[n - 1], Walk(pages)[n], pages)]

IsPacking(f, pages, packing, to, N) ==
  f = [n \in 0 .. N |->
         IF n = 0 THEN [pages |-> pages, checksum |-> 0, failed |-> FALSE]
         ELSE IF Walk(pages)[n].end THEN f[n - 1]
         ELSE PackOne(f[n - 1], Walk(pages)[n], packing, to)]

\* A non-empty set of naturals has a least element.
LEMMA LeastExists ==
  ASSUME NEW S, S \subseteq Nat, S # {}
  PROVE  \E i \in S : \A j \in S : i <= j
<1> DEFINE Less == {p \in Nat \X Nat : p[1] < p[2]}
<1>1. IsWellFoundedOn(Less, Nat)
  BY NatLessThanWellFounded DEF OpToRel
<1> HIDE DEF Less
<1>2. PICK i \in S : \A j \in S : <<j, i>> \notin Less
  BY <1>1, WFMin
<1>3. ASSUME NEW j \in S PROVE i <= j
  <2>1. ~(j < i) BY <1>2, <1>3 DEF Less
  <2>2. QED BY <2>1
<1>4. QED BY <1>3

\* A set of naturals that has 0 and the successor of each member has them all.
LEMMA SetInduction ==
  ASSUME NEW S, 0 \in S, \A n \in Nat : n \in S => n + 1 \in S
  PROVE  Nat \subseteq S
<1> SUFFICES ASSUME ~(Nat \subseteq S) PROVE FALSE
  OBVIOUS
<1> DEFINE T == Nat \ S
<1>0. T \subseteq Nat /\ T # {}
  <2>1. \E n : n \in Nat /\ n \notin S
    OBVIOUS
  <2>2. QED BY <2>1
<1>1. PICK m \in T : \A k \in T : m <= k
  BY <1>0, LeastExists
<1>2. m # 0 /\ m - 1 \in Nat
  BY <1>1
<1>3. m - 1 \in S
  BY <1>1, <1>2
<1>4. QED BY <1>2, <1>3

\* There is a function that is the walk, and Walk chooses it.
LEMMA WalkLoops ==
  ASSUME NEW pages, Steps(pages) \in Nat
  PROVE  IsWalk(Walk(pages), pages, Steps(pages))
<1> DEFINE base == MemIter_Init
           Loop(x) == MemIter_Next(x, pages)
           Is(f, N) == f = [n \in 0 .. N |-> IF n = 0 THEN base ELSE Loop(f[n - 1])]
           S == {N \in Nat : \E f : Is(f, N)}
<1> HIDE DEF base, Loop
<1>1. 0 \in S
  <2> DEFINE f == [n \in 0 .. 0 |-> base]
  <2>1. f = [n \in 0 .. 0 |-> IF n = 0 THEN base ELSE Loop(f[n - 1])]
    OBVIOUS
  <2> HIDE DEF f
  <2>2. Is(f, 0) BY <2>1
  <2>3. QED BY <2>2
<1>2. ASSUME NEW N \in Nat, N \in S PROVE N + 1 \in S
  <2>1. PICK f : Is(f, N) BY <1>2
  <2> DEFINE g == [n \in 0 .. N + 1 |-> IF n <= N THEN f[n] ELSE Loop(f[N])]
  <2>2. \A n \in 0 .. N : f[n] = IF n = 0 THEN base ELSE Loop(f[n - 1])
    <3>1. f = [n \in 0 .. N |-> IF n = 0 THEN base ELSE Loop(f[n - 1])]
      BY <2>1
    <3> HIDE DEF Is
    <3>2. QED BY <3>1
  <2>3. ASSUME NEW n \in 0 .. N + 1
        PROVE  g[n] = IF n = 0 THEN base ELSE Loop(g[n - 1])
    <3>1. CASE n <= N
      <4>1. n \in 0 .. N /\ g[n] = f[n] BY <3>1
      <4>2. n # 0 => g[n - 1] = f[n - 1] BY <3>1
      <4>3. QED BY <2>2, <4>1, <4>2
    <3>2. CASE ~(n <= N)
      <4>1. n = N + 1 /\ g[n] = Loop(f[N]) /\ n - 1 = N BY <3>2
      <4>2. g[N] = f[N] OBVIOUS
      <4>3. QED BY <4>1, <4>2
    <3>3. QED BY <3>1, <3>2
  <2>4. g = [n \in 0 .. N + 1 |-> g[n]] OBVIOUS
  <2> HIDE DEF g
  <2>5. Is(g, N + 1) BY <2>3, <2>4
  <2>6. QED BY <2>5
<1>3. \A N \in Nat : N \in S => N + 1 \in S
  BY <1>2
<1> HIDE DEF S
<1>4. Nat \subseteq S
  BY ONLY <1>1, <1>3, SetInduction
<1>5. \E f : Is(f, Steps(pages))
  BY <1>4 DEF S
<1>6. \E f : IsWalk(f, pages, Steps(pages))
  BY <1>5 DEF base, Loop, IsWalk
<1>7. Walk(pages) = CHOOSE f : IsWalk(f, pages, Steps(pages))
  BY DEF Walk, IsWalk
<1>8. QED BY <1>6, <1>7

\* The same of the loop that numbers the addresses.
LEMMA TableLoops ==
  ASSUME NEW pages, Steps(pages) \in Nat
  PROVE  \E f : /\ IsTable(f, pages, Steps(pages))
                /\ MemIter_GetTable(pages) = f[Steps(pages)].tbl
<1> DEFINE base == [slIdx |-> 0, tbl |-> <<>>]
           Loop(x, n) == IF Walk(pages)[n].end THEN x ELSE Indexed(x, Walk(pages)[n], pages)
           Is(f, N) == f = [n \in 0 .. N |-> IF n = 0 THEN base ELSE Loop(f[n - 1], n)]
           S == {N \in Nat : \E f : Is(f, N)}
<1> HIDE DEF base, Loop
<1>1. 0 \in S
  <2> DEFINE f == [n \in 0 .. 0 |-> base]
  <2>1. f = [n \in 0 .. 0 |-> IF n = 0 THEN base ELSE Loop(f[n - 1], n)]
    OBVIOUS
  <2> HIDE DEF f
  <2>2. Is(f, 0) BY <2>1
  <2>3. QED BY <2>2
<1>2. ASSUME NEW N \in Nat, N \in S PROVE N + 1 \in S
  <2>1. PICK f : Is(f, N) BY <1>2
  <2> DEFINE g == [n \in 0 .. N + 1 |-> IF n <= N THEN f[n] ELSE Loop(f[N], n)]
  <2>2. \A n \in 0 .. N : f[n] = IF n = 0 THEN base ELSE Loop(f[n - 1], n)
    <3>1. f = [n \in 0 .. N |-> IF n = 0 THEN base ELSE Loop(f[n - 1], n)]
      BY <2>1
    <3> HIDE DEF Is
    <3>2. QED BY <3>1
  <2>3. ASSUME NEW n \in 0 .. N + 1
        PROVE  g[n] = IF n = 0 THEN base ELSE Loop(g[n - 1], n)
    <3>1. CASE n <= N
      <4>1. n \in 0 .. N /\ g[n] = f[n] BY <3>1
      <4>2. n # 0 => g[n - 1] = f[n - 1] BY <3>1
      <4>3. QED BY <2>2, <4>1, <4>2
    <3>2. CASE ~(n <= N)
      <4>1. n = N + 1 /\ g[n] = Loop(f[N], n) /\ n - 1 = N BY <3>2
      <4>2. g[N] = f[N] OBVIOUS
      <4>3. QED BY <4>1, <4>2
    <3>3. QED BY <3>1, <3>2
  <2>4. g = [n \in 0 .. N + 1 |-> g[n]] OBVIOUS
  <2> HIDE DEF g
  <2>5. Is(g, N + 1) BY <2>3, <2>4
  <2>6. QED BY <2>5
<1>3. \A N \in Nat : N \in S => N + 1 \in S
  BY <1>2
<1> HIDE DEF S
<1>4. Nat \subseteq S
  BY ONLY <1>1, <1>3, SetInduction
<1>5. \E f : Is(f, Steps(pages))
  BY <1>4 DEF S
<1> DEFINE h == CHOOSE f : IsTable(f, pages, Steps(pages))
<1>6. \E f : IsTable(f, pages, Steps(pages))
  BY <1>5 DEF base, Loop, IsTable
<1>7. MemIter_GetTable(pages) = h[Steps(pages)].tbl
  BY DEF MemIter_GetTable, IsTable
<1>8. QED BY <1>6, <1>7

\* The same of the loop that packs.
LEMMA PackingLoops ==
  ASSUME NEW pages, NEW packing, NEW to, Steps(pages) \in Nat
  PROVE  \E f : /\ IsPacking(f, pages, packing, to, Steps(pages))
                /\ Stash_PackMemCh(pages, packing, to) = f[Steps(pages)]
<1> DEFINE base == [pages |-> pages, checksum |-> 0, failed |-> FALSE]
           Loop(x, n) == IF Walk(pages)[n].end THEN x ELSE PackOne(x, Walk(pages)[n], packing, to)
           Is(f, N) == f = [n \in 0 .. N |-> IF n = 0 THEN base ELSE Loop(f[n - 1], n)]
           S == {N \in Nat : \E f : Is(f, N)}
<1> HIDE DEF base, Loop
<1>1. 0 \in S
  <2> DEFINE f == [n \in 0 .. 0 |-> base]
  <2>1. f = [n \in 0 .. 0 |-> IF n = 0 THEN base ELSE Loop(f[n - 1], n)]
    OBVIOUS
  <2> HIDE DEF f
  <2>2. Is(f, 0) BY <2>1
  <2>3. QED BY <2>2
<1>2. ASSUME NEW N \in Nat, N \in S PROVE N + 1 \in S
  <2>1. PICK f : Is(f, N) BY <1>2
  <2> DEFINE g == [n \in 0 .. N + 1 |-> IF n <= N THEN f[n] ELSE Loop(f[N], n)]
  <2>2. \A n \in 0 .. N : f[n] = IF n = 0 THEN base ELSE Loop(f[n - 1], n)
    <3>1. f = [n \in 0 .. N |-> IF n = 0 THEN base ELSE Loop(f[n - 1], n)]
      BY <2>1
    <3> HIDE DEF Is
    <3>2. QED BY <3>1
  <2>3. ASSUME NEW n \in 0 .. N + 1
        PROVE  g[n] = IF n = 0 THEN base ELSE Loop(g[n - 1], n)
    <3>1. CASE n <= N
      <4>1. n \in 0 .. N /\ g[n] = f[n] BY <3>1
      <4>2. n # 0 => g[n - 1] = f[n - 1] BY <3>1
      <4>3. QED BY <2>2, <4>1, <4>2
    <3>2. CASE ~(n <= N)
      <4>1. n = N + 1 /\ g[n] = Loop(f[N], n) /\ n - 1 = N BY <3>2
      <4>2. g[N] = f[N] OBVIOUS
      <4>3. QED BY <4>1, <4>2
    <3>3. QED BY <3>1, <3>2
  <2>4. g = [n \in 0 .. N + 1 |-> g[n]] OBVIOUS
  <2> HIDE DEF g
  <2>5. Is(g, N + 1) BY <2>3, <2>4
  <2>6. QED BY <2>5
<1>3. \A N \in Nat : N \in S => N + 1 \in S
  BY <1>2
<1> HIDE DEF S
<1>4. Nat \subseteq S
  BY ONLY <1>1, <1>3, SetInduction
<1>5. \E f : Is(f, Steps(pages))
  BY <1>4 DEF S
<1> DEFINE h == CHOOSE f : IsPacking(f, pages, packing, to, Steps(pages))
<1>6. \E f : IsPacking(f, pages, packing, to, Steps(pages))
  BY <1>5 DEF base, Loop, IsPacking
<1>7. Stash_PackMemCh(pages, packing, to) = h[Steps(pages)]
  BY DEF Stash_PackMemCh, IsPacking
<1>8. QED BY <1>6, <1>7

-----------------------------------------------------------------------------
\* A sequence is a function on the numbers up to its length.
LEMMA ListedIs ==
  ASSUME NEW s, Listed(s)
  PROVE  Len(s) \in Nat /\ DOMAIN s = 1 .. Len(s) /\ s = [n \in 1 .. Len(s) |-> s[n]]
BY DEF Listed

(* A walk is at record r of page i, and is not at its end.                 *)
IsAt(mit, i, r) ==
  DOMAIN mit = {"sl", "rec", "more", "end"} /\ mit.sl = i /\ mit.rec = r /\ mit.end = FALSE

\* Where a walk stands after each step: on the first page, on its records
\* from the last to the first, and then on the second page if there is one.
LEMMA WalkSteps ==
  ASSUME NEW pages, NEW L \in Nat, L >= 1, Len(pages[1].recs) = L,
         \/ Len(pages) = 1
         \/ Len(pages) = 2 /\ Len(pages[2].recs) \in Nat
  PROVE  /\ Steps(pages) \in Nat
         /\ Len(pages) = 1 => Steps(pages) = L + 2
         /\ Len(pages) = 2 => Steps(pages) >= L + 3
         /\ IsAt(Walk(pages)[1], 1, 0) /\ Walk(pages)[1].more = TRUE
         /\ \A n \in 2 .. L + 1 :
              IsAt(Walk(pages)[n], 1, L + 2 - n) /\ Walk(pages)[n].more = FALSE
         /\ Len(pages) = 1 => Walk(pages)[L + 2].end = TRUE
         /\ Len(pages) = 2 => /\ Walk(pages)[L + 2].end = FALSE
                              /\ IsAt(Walk(pages)[L + 3], 2, 0) /\ Walk(pages)[L + 3].more = TRUE
<1> DEFINE W == Walk(pages)
           At1(n) == IsAt(W[n], 1, L + 2 - n) /\ W[n].more = FALSE
           N == Steps(pages)
<1>2. N \in Nat /\ N >= L + 2 /\ (Len(pages) = 1 => N = L + 2) /\ (Len(pages) = 2 => N >= L + 3)
  <2>1. CASE Len(pages) = 1
    <3>1. N = L + 2 BY <2>1 DEF Steps
    <3>2. QED BY <2>1, <3>1
  <2>2. CASE Len(pages) = 2 /\ Len(pages[2].recs) \in Nat
    <3> DEFINE M == Len(pages[2].recs)
    <3>1. M \in Nat /\ N = L + 2 + (M + 2) BY <2>2 DEF Steps
    <3> HIDE DEF M, N
    <3>2. N \in Nat /\ N >= L + 3 BY <3>1
    <3>3. QED BY <2>2, <3>2
  <2>3. QED BY <2>1, <2>2
<1>3. IsWalk(W, pages, N)
  BY <1>2, WalkLoops
<1> HIDE DEF W, N
<1>4. W[0] = MemIter_Init
  BY <1>2, <1>3 DEF IsWalk
<1>5. \A n \in 1 .. N : W[n] = MemIter_Next(W[n - 1], pages)
  BY <1>2, <1>3 DEF IsWalk
<1>7. NULL \notin Int
  BY SsidAssumption
<1>6. IsAt(W[1], 1, 0) /\ W[1].more = TRUE
  <2>1. W[1] = MemIter_Next(W[0], pages) BY <1>2, <1>5
  <2>2. IsAt(W[0], 1, NULL) /\ W[0].more = TRUE BY <1>4 DEF MemIter_Init, IsAt
  <2>3. W[1] = [W[0] EXCEPT !.rec = 0] BY <2>1, <2>2 DEF MemIter_Next, IsAt
  <2>4. QED BY <2>2, <2>3 DEF IsAt
<1>8. At1(2)
  <2>1. W[2] = MemIter_Next(W[1], pages) BY <1>2, <1>5
  <2>2. W[1].rec = 0 /\ W[1].sl = 1 /\ W[1].rec # NULL BY <1>6, <1>7 DEF IsAt
  <2>3. W[2] = [W[1] EXCEPT !.rec = L, !.more = FALSE] BY <2>1, <2>2 DEF MemIter_Next
  <2>4. QED BY <1>6, <2>3 DEF IsAt
<1>9. ASSUME NEW n \in 2 .. L, At1(n) PROVE At1(n + 1)
  <2>1. W[n + 1] = MemIter_Next(W[n], pages) BY <1>2, <1>5
  <2>2. L + 2 - n > 1 /\ L + 2 - n # 0 /\ L + 2 - n # NULL /\ L + 2 - n - 1 = L + 2 - (n + 1)
    BY <1>7
  <2>3. W[n + 1] = [W[n] EXCEPT !.rec = @ - 1]
    BY <1>9, <2>1, <2>2 DEF MemIter_Next, IsAt
  <2>4. QED BY <1>9, <2>2, <2>3 DEF IsAt
<1> HIDE DEF At1
<1> DEFINE S == {k \in Nat : k + 2 \in 2 .. L + 1 => At1(k + 2)}
<1>10. 0 \in S
  BY <1>8
<1>11. ASSUME NEW k \in Nat, k \in S PROVE k + 1 \in S
  <2>1. CASE k + 1 + 2 \in 2 .. L + 1
    <3>1. k + 2 \in 2 .. L /\ At1(k + 2) /\ k + 1 + 2 = k + 2 + 1
      BY <1>11, <2>1
    <3>2. At1(k + 2 + 1) BY <3>1, <1>9
    <3>3. QED BY <3>1, <3>2
  <2>2. CASE ~(k + 1 + 2 \in 2 .. L + 1)
    BY <2>2
  <2>3. QED BY <2>1, <2>2
<1>12. ASSUME NEW n \in 2 .. L + 1 PROVE At1(n)
  <2>1. \A k \in Nat : k \in S => k + 1 \in S BY <1>11
  <2> HIDE DEF S
  <2>2. Nat \subseteq S BY ONLY <1>10, <2>1, SetInduction
  <2>3. n - 2 \in S /\ n - 2 + 2 = n BY <2>2
  <2>4. QED BY <2>3 DEF S
<1>13. IsAt(W[L + 1], 1, 1) /\ 1 # NULL /\ W[L + 2] = MemIter_Next(W[L + 1], pages)
  <2>1. W[L + 2] = MemIter_Next(W[L + 1], pages) BY <1>2, <1>5
  <2>2. At1(L + 1) /\ L + 2 - (L + 1) = 1 BY <1>12
  <2>3. QED BY <1>7, <2>1, <2>2 DEF At1
<1>14. ASSUME Len(pages) = 1 PROVE W[L + 2].end = TRUE
  <2>4. W[L + 2] = [W[L + 1] EXCEPT !.end = TRUE]
    BY <1>13, <1>14 DEF MemIter_Next, IsAt
  <2>5. QED BY <1>13, <2>4 DEF IsAt
<1>15. ASSUME Len(pages) = 2
       PROVE  W[L + 2].end = FALSE /\ IsAt(W[L + 3], 2, 0) /\ W[L + 3].more = TRUE
  <2>1. W[L + 2] = [MemIter_Init EXCEPT !.sl = 2]
    BY <1>13, <1>15 DEF MemIter_Next, IsAt
  <2>2. IsAt(W[L + 2], 2, NULL) /\ W[L + 2].more = TRUE
    BY <2>1 DEF MemIter_Init, IsAt
  <2>3. W[L + 3] = MemIter_Next(W[L + 2], pages)
    BY <1>2, <1>5, <1>15
  <2>4. W[L + 3] = [W[L + 2] EXCEPT !.rec = 0]
    BY <2>2, <2>3 DEF MemIter_Next, IsAt
  <2>5. QED BY <2>2, <2>4 DEF IsAt
<1>16. QED BY <1>2, <1>6, <1>12, <1>14, <1>15 DEF W, N, At1

(* The pages of an arena and the records on them.                          *)
Formed(pages) ==
  /\ Listed(pages) /\ Len(pages) \in {1, 2}
  /\ \A i \in DOMAIN pages :
       /\ pages[i] = [addr |-> pages[i].addr, recs |-> pages[i].recs]
       /\ Listed(pages[i].recs) /\ Len(pages[i].recs) >= 1
       /\ \A n \in DOMAIN pages[i].recs :
            DOMAIN pages[i].recs[n] = {"of", "ptrs", "key", "text"}

(* All that is mapped in a record becomes something.                       *)
Fits(rec, to) == \A i \in Mapped(rec) : rec.ptrs[i] \in DOMAIN to

(* The only page of an arena, with its records from k on packed.           *)
From(pages, to, k) ==
  [pages EXCEPT ![1].recs =
     [n \in DOMAIN pages[1].recs |-> IF n >= k THEN Packed(pages[1].recs[n], to)
                                     ELSE pages[1].recs[n]]]

Half(acc, pages, to, k) ==
  /\ DOMAIN acc = {"pages", "checksum", "failed"}
  /\ ~acc.failed => /\ acc.pages = From(pages, to, k)
                    /\ \A n \in DOMAIN pages[1].recs : n >= k => Fits(pages[1].recs[n], to)

\* Packing one record more.
LEMMA HalfStep ==
  ASSUME NEW pages, Formed(pages), NEW to, NEW k \in DOMAIN pages[1].recs, NEW packing,
         NEW acc, Half(acc, pages, to, k + 1), NEW mit, IsAt(mit, 1, k), mit.more = FALSE
  PROVE  Half(PackOne(acc, mit, packing, to), pages, to, k)
<1> DEFINE recs == pages[1].recs
           some == From(pages, to, k + 1)
           rec == some[1].recs[k]
<1>1. 1 \in DOMAIN pages /\ DOMAIN pages[1] = {"addr", "recs"} /\ DOMAIN recs = 1 .. Len(recs)
      /\ k \in Nat
  BY ListedIs DEF Formed
<1>2. rec = recs[k]
  BY <1>1 DEF From
<1>3. CASE acc.failed
  BY <1>3 DEF PackOne, Half
<1>4. CASE ~acc.failed
  <2>1. acc.pages = some /\ \A n \in DOMAIN recs : n >= k + 1 => Fits(recs[n], to)
    BY <1>4 DEF Half
  <2>2. CASE ~Fits(recs[k], to)
    <3>1. PackOne(acc, mit, packing, to) = [acc EXCEPT !.failed = TRUE]
      BY <1>2, <1>4, <2>1, <2>2 DEF PackOne, IsAt, Fits
    <3>2. QED BY <3>1 DEF Half
  <2>3. CASE Fits(recs[k], to)
    <3> DEFINE new == [some EXCEPT ![1].recs[k] = Packed(recs[k], to)]
               sum == acc.checksum + Stored(recs[k])
    <3>1. PackOne(acc, mit, packing, to) = [acc EXCEPT !.checksum = sum, !.pages = new]
      BY <1>2, <1>4, <2>1, <2>3, ZenonT(60) DEF PackOne, IsAt, Fits, Half
    <3>2. new = From(pages, to, k)
      <4>1. some[1].recs = [n \in DOMAIN recs |-> IF n >= k + 1 THEN Packed(recs[n], to) ELSE recs[n]]
        BY <1>1 DEF From
      <4>2. [some[1].recs EXCEPT ![k] = Packed(recs[k], to)]
              = [n \in DOMAIN recs |-> IF n >= k THEN Packed(recs[n], to) ELSE recs[n]]
        BY <1>1, <4>1, SMTT(30)
      <4>3. new = [some EXCEPT ![1].recs = [some[1].recs EXCEPT ![k] = Packed(recs[k], to)]]
        OBVIOUS
      <4> DEFINE whole1 == [n \in DOMAIN recs |-> IF n >= k THEN Packed(recs[n], to) ELSE recs[n]]
                 part1 == [n \in DOMAIN recs |-> IF n >= k + 1 THEN Packed(recs[n], to) ELSE recs[n]]
      <4>4. some = [pages EXCEPT ![1].recs = part1]
        BY DEF From
      <4>5. From(pages, to, k) = [pages EXCEPT ![1].recs = whole1]
        BY DEF From
      <4> HIDE DEF whole1, part1, some, new
      <4>6. [[pages EXCEPT ![1].recs = part1] EXCEPT ![1].recs = whole1] = [pages EXCEPT ![1].recs = whole1]
        BY <1>1
      <4>7. QED BY <4>2, <4>3, <4>4, <4>5, <4>6 DEF whole1
    <3>3. \A n \in DOMAIN recs : n >= k => Fits(recs[n], to)
      BY <1>1, <2>1, <2>3
    <3> HIDE DEF new, sum
    <3>4. QED BY <3>1, <3>2, <3>3 DEF Half
  <2>4. QED BY <2>2, <2>3
<1>5. QED BY <1>3, <1>4

\* What packing or unpacking makes of the only page of an arena: every record
\* is packed, or it fails.
LEMMA OnePagePacked ==
  ASSUME NEW pages, Formed(pages), Len(pages) = 1, NEW packing, NEW to,
         ~Stash_PackMemCh(pages, packing, to).failed
  PROVE  /\ Stash_PackMemCh(pages, packing, to).pages = From(pages, to, 1)
         /\ \A n \in DOMAIN pages[1].recs : Fits(pages[1].recs[n], to)
<1> DEFINE L == Len(pages[1].recs)
           W == Walk(pages)
<1>1. L \in Nat /\ L >= 1 /\ DOMAIN pages[1].recs = 1 .. L /\ 1 \in DOMAIN pages
      /\ pages[1] = [addr |-> pages[1].addr, recs |-> pages[1].recs] /\ pages[1].recs = [n \in 1 .. L |-> pages[1].recs[n]]
  BY ListedIs DEF Formed
<1>2. /\ Steps(pages) = L + 2
      /\ IsAt(W[1], 1, 0) /\ W[1].more = TRUE
      /\ \A n \in 2 .. L + 1 : IsAt(W[n], 1, L + 2 - n) /\ W[n].more = FALSE
      /\ W[L + 2].end = TRUE
  BY <1>1, WalkSteps
<1>3. PICK f : IsPacking(f, pages, packing, to, L + 2) /\ Stash_PackMemCh(pages, packing, to) = f[L + 2]
  BY <1>1, <1>2, PackingLoops
<1> HIDE DEF L
<1>4. f[0] = [pages |-> pages, checksum |-> 0, failed |-> FALSE]
  BY <1>1, <1>3 DEF IsPacking
<1>5. \A n \in 1 .. L + 2 : f[n] = IF W[n].end THEN f[n - 1] ELSE PackOne(f[n - 1], W[n], packing, to)
  <2> SUFFICES ASSUME NEW n \in 1 .. L + 2
               PROVE  f[n] = IF W[n].end THEN f[n - 1] ELSE PackOne(f[n - 1], W[n], packing, to)
    OBVIOUS
  <2>1. n \in 0 .. L + 2 /\ n # 0 BY <1>1
  <2>2. QED BY <1>3, <2>1 DEF IsPacking
<1> HIDE DEF W
<1>6. Half(f[1], pages, to, L + 1)
  <2>1. f[1] = PackOne(f[0], W[1], packing, to)
    BY <1>1, <1>2, <1>5 DEF IsAt
  <2>2. f[0].failed = FALSE /\ f[0].pages = pages /\ DOMAIN f[0] = {"pages", "checksum", "failed"}
    BY <1>4
  <2>3. DOMAIN f[1] = {"pages", "checksum", "failed"} /\ f[1].pages = pages
    BY <1>2, <2>1, <2>2 DEF PackOne
  <2>4. From(pages, to, L + 1) = pages
    <3>1. [n \in DOMAIN pages[1].recs |-> IF n >= L + 1 THEN Packed(pages[1].recs[n], to)
                                          ELSE pages[1].recs[n]] = pages[1].recs
      BY <1>1
    <3>2. pages = [i \in DOMAIN pages |-> pages[i]]
      BY ListedIs DEF Formed
    <3>3. From(pages, to, L + 1) = [pages EXCEPT ![1].recs = pages[1].recs]
      BY <3>1 DEF From
    <3>4. [pages EXCEPT ![1].recs = pages[1].recs] = [pages EXCEPT ![1] = [addr |-> pages[1].addr, recs |-> pages[1].recs]]
      BY <1>1
    <3>5. [pages EXCEPT ![1] = pages[1]] = pages
      BY <1>1, <3>2
    <3>6. QED BY <1>1, <3>3, <3>4, <3>5
  <2>5. QED BY <1>1, <2>3, <2>4 DEF Half
<1> DEFINE S == {k \in Nat : k <= L => Half(f[k + 1], pages, to, L + 1 - k)}
<1>7. 0 \in S
  BY <1>1, <1>6
<1>8. ASSUME NEW k \in Nat, k \in S PROVE k + 1 \in S
  <2> SUFFICES ASSUME k + 1 <= L PROVE Half(f[k + 2], pages, to, L - k)
    BY <1>1
  <2>1. Half(f[k + 1], pages, to, (L - k) + 1) /\ L - k \in 1 .. L /\ k + 2 \in 2 .. L + 1
    BY <1>1, <1>8
  <2>2. IsAt(W[k + 2], 1, L - k) /\ W[k + 2].more = FALSE
    <3>1. L + 2 - (k + 2) = L - k BY <1>1
    <3>2. IsAt(W[k + 2], 1, L + 2 - (k + 2)) /\ W[k + 2].more = FALSE BY <1>2, <2>1
    <3>3. QED BY <3>1, <3>2
  <2>3. f[k + 2] = PackOne(f[k + 1], W[k + 2], packing, to)
    BY <1>1, <1>5, <2>1, <2>2 DEF IsAt
  <2>4. Half(PackOne(f[k + 1], W[k + 2], packing, to), pages, to, L - k)
    <3> DEFINE j == L - k
    <3>1. j \in DOMAIN pages[1].recs /\ Half(f[k + 1], pages, to, j + 1) /\ IsAt(W[k + 2], 1, j)
      BY <1>1, <2>1, <2>2
    <3> HIDE DEF j
    <3>2. QED BY <2>2, <3>1, HalfStep DEF j
  <2>5. QED BY <2>3, <2>4
<1>9. Half(f[L + 1], pages, to, 1)
  <2>1. \A k \in Nat : k \in S => k + 1 \in S BY <1>8
  <2> HIDE DEF S
  <2>2. Nat \subseteq S BY ONLY <1>7, <2>1, SetInduction
  <2>3. L \in S BY <1>1, <2>2
  <2>4. QED BY <1>1, <2>3 DEF S
<1>10. f[L + 2] = f[L + 1]
  BY <1>1, <1>2, <1>5
<1>11. QED BY <1>1, <1>3, <1>9, <1>10 DEF Half

\* An arena of two pages is not packed: the walk does not find the second.
LEMMA TwoPagesFail ==
  ASSUME NEW pages, Formed(pages), Len(pages) = 2, NEW to, NEW packing, packing
  PROVE  Stash_PackMemCh(pages, packing, to).failed
<1> DEFINE L == Len(pages[1].recs)
           W == Walk(pages)
           N == Steps(pages)
<1>1. L \in Nat /\ L >= 1 /\ Len(pages[2].recs) \in Nat
  <2>1. 1 \in DOMAIN pages /\ 2 \in DOMAIN pages BY ListedIs DEF Formed
  <2>2. QED BY <2>1, ListedIs DEF Formed
<1>2. N \in Nat /\ N >= L + 3 /\ IsAt(W[L + 3], 2, 0) /\ W[L + 3].more = TRUE
  BY <1>1, WalkSteps
<1>3. PICK f : IsPacking(f, pages, packing, to, N) /\ Stash_PackMemCh(pages, packing, to) = f[N]
  BY <1>2, PackingLoops
<1> HIDE DEF L, W, N
<1>4. f[0] = [pages |-> pages, checksum |-> 0, failed |-> FALSE]
  BY <1>2, <1>3 DEF IsPacking
<1>5. \A n \in 1 .. N : f[n] = IF W[n].end THEN f[n - 1] ELSE PackOne(f[n - 1], W[n], packing, to)
  <2> SUFFICES ASSUME NEW n \in 1 .. N
               PROVE  f[n] = IF W[n].end THEN f[n - 1] ELSE PackOne(f[n - 1], W[n], packing, to)
    OBVIOUS
  <2>1. n \in 0 .. N /\ n # 0 BY <1>2
  <2>2. QED BY <1>3, <2>1 DEF IsPacking, W
<1> DEFINE Fails(n) == "failed" \in DOMAIN f[n] /\ (n >= L + 3 => f[n].failed)
           S == {n \in Nat : n <= N => Fails(n)}
<1>6. 0 \in S
  BY <1>1, <1>4
<1>7. ASSUME NEW n \in Nat, n \in S PROVE n + 1 \in S
  <2> HIDE DEF Fails
  <2> SUFFICES ASSUME n + 1 <= N PROVE Fails(n + 1)
    OBVIOUS
  <2>1. Fails(n)
    BY <1>2, <1>7
  <2> USE DEF Fails
  <2>2. f[n + 1] = IF W[n + 1].end THEN f[n] ELSE PackOne(f[n], W[n + 1], packing, to)
    <3> DEFINE m == n + 1
    <3>1. m \in 1 .. N /\ m - 1 = n BY <1>2
    <3> HIDE DEF m, Fails, S
    <3>2. f[m] = IF W[m].end THEN f[m - 1] ELSE PackOne(f[m - 1], W[m], packing, to)
      BY ONLY <1>5, <3>1
    <3>3. f[m] = IF W[m].end THEN f[n] ELSE PackOne(f[n], W[m], packing, to)
      BY ONLY <3>1, <3>2
    <3>4. QED BY ONLY <3>3 DEF m
  <2>3. "failed" \in DOMAIN f[n + 1]
    <3>1. "failed" \in DOMAIN PackOne(f[n], W[n + 1], packing, to) BY <2>1 DEF PackOne
    <3>2. QED BY <2>1, <2>2, <3>1
  <2>4. CASE n >= L + 3
    <3>1. PackOne(f[n], W[n + 1], packing, to) = f[n] BY <2>1, <2>4 DEF PackOne
    <3>2. QED BY <2>1, <2>2, <2>3, <2>4, <3>1
  <2>5. CASE n + 1 = L + 3
    <3>1. f[n + 1] = PackOne(f[n], W[n + 1], packing, to)
      BY <1>2, <2>2, <2>5 DEF IsAt
    <3>2. W[n + 1].more = TRUE /\ W[n + 1].rec = 0 /\ W[n + 1].sl = 2
      BY <1>2, <2>5 DEF IsAt
    <3>3. CASE f[n].failed
      <4>1. f[n + 1] = f[n] BY <3>1, <3>3 DEF PackOne
      <4>2. QED BY <2>3, <3>3, <4>1
    <3>4. CASE ~f[n].failed
      <4> DEFINE second == packing /\ W[n + 1].rec = 0 /\ W[n + 1].sl > 1
      <4>1. second
        BY <3>2
      <4>2. f[n + 1] = [f[n] EXCEPT !.failed = second]
        BY <3>1, <3>2, <3>4 DEF PackOne
      <4> HIDE DEF second
      <4>3. f[n + 1].failed = second
        BY <2>1, <4>2
      <4>4. QED BY <2>3, <4>1, <4>3
    <3>5. QED BY <3>3, <3>4
  <2>6. QED BY <1>1, <2>3, <2>4, <2>5
<1>8. N \in S
  <2>1. \A n \in Nat : n \in S => n + 1 \in S BY <1>7
  <2> HIDE DEF S
  <2>2. Nat \subseteq S BY ONLY <1>6, <2>1, SetInduction
  <2>3. QED BY <1>2, <2>2
<1>9. Fails(N)
  BY <1>2, <1>8
<1>10. QED BY <1>2, <1>3, <1>9

\* Every address of an arena of one page is of its first page.
LEMMA OnePageTable ==
  ASSUME NEW pages, Formed(pages), Len(pages) = 1,
         NEW p \in DOMAIN MemIter_GetTable(pages)
  PROVE  /\ MemIter_GetTable(pages)[p] = 1
         /\ p = Ptr(pages[1].addr, p.rec) /\ p.rec \in Nat
<1> DEFINE L == Len(pages[1].recs)
           W == Walk(pages)
           Fine(t) == \A q \in DOMAIN t : t[q] = 1 /\ q = Ptr(pages[1].addr, q.rec) /\ q.rec \in Nat
<1>1. L \in Nat /\ L >= 1
  <2>1. 1 \in DOMAIN pages BY ListedIs DEF Formed
  <2>2. QED BY <2>1, ListedIs DEF Formed
<1>2. /\ Steps(pages) = L + 2
      /\ IsAt(W[1], 1, 0) /\ W[1].more = TRUE
      /\ \A n \in 2 .. L + 1 : IsAt(W[n], 1, L + 2 - n) /\ W[n].more = FALSE
      /\ W[L + 2].end = TRUE
  BY <1>1, WalkSteps
<1>3. PICK f : IsTable(f, pages, L + 2) /\ MemIter_GetTable(pages) = f[L + 2].tbl
  BY <1>1, <1>2, TableLoops
<1> HIDE DEF L, W
<1>4. f[0] = [slIdx |-> 0, tbl |-> <<>>]
  BY <1>1, <1>3 DEF IsTable
<1>5. ASSUME NEW n \in 1 .. L + 2
      PROVE  f[n] = IF W[n].end THEN f[n - 1] ELSE Indexed(f[n - 1], W[n], pages)
  <2>1. n \in 0 .. L + 2 /\ n # 0 BY <1>1
  <2>2. QED BY <1>3, <2>1 DEF IsTable, W
<1>6. f[1].slIdx = 1 /\ Fine(f[1].tbl)
  <2>1. f[1] = Indexed(f[0], W[1], pages)
    BY <1>1, <1>2, <1>5 DEF IsAt
  <2>2. setMemIdent(W[1], pages) = Ptr(pages[1].addr, 0)
    <3>1. W[1].rec # NULL BY <1>2, SsidAssumption DEF IsAt
    <3>2. QED BY <1>2, <3>1 DEF setMemIdent, IsAt
  <2>3. f[0].slIdx = 0 /\ DOMAIN f[0].tbl = {}
    BY <1>4
  <2>4. f[1].slIdx = 1 /\ f[1].tbl = [a \in {Ptr(pages[1].addr, 0)} |-> 1]
    BY <1>2, <2>1, <2>2, <2>3 DEF Indexed
  <2>5. QED BY <2>4 DEF Ptr
<1> DEFINE S == {k \in Nat : k <= L => f[k + 1].slIdx = 1 /\ Fine(f[k + 1].tbl)}
<1>7. 0 \in S
  BY <1>6
<1>8. ASSUME NEW k \in Nat, k \in S PROVE k + 1 \in S
  <2> SUFFICES ASSUME k + 1 <= L PROVE f[k + 2].slIdx = 1 /\ Fine(f[k + 2].tbl)
    OBVIOUS
  <2>1. f[k + 1].slIdx = 1 /\ Fine(f[k + 1].tbl) /\ k + 2 \in 2 .. L + 1 /\ L - k \in Nat
    BY <1>1, <1>8
  <2>2. IsAt(W[k + 2], 1, L - k) /\ W[k + 2].more = FALSE
    <3>1. L + 2 - (k + 2) = L - k BY <1>1
    <3>2. IsAt(W[k + 2], 1, L + 2 - (k + 2)) /\ W[k + 2].more = FALSE BY <1>2, <2>1
    <3>3. QED BY <3>1, <3>2
  <2>3. f[k + 2] = Indexed(f[k + 1], W[k + 2], pages)
    BY <1>1, <1>5, <2>1, <2>2 DEF IsAt
  <2> DEFINE q == Ptr(pages[1].addr, L - k)
             old == f[k + 1].tbl
  <2>4. setMemIdent(W[k + 2], pages) = q
    BY <2>2 DEF setMemIdent, IsAt
  <2>5. f[k + 2].slIdx = 1 /\ f[k + 2].tbl = [a \in DOMAIN old \union {q} |-> IF a = q THEN 1 ELSE old[a]]
    BY <2>1, <2>2, <2>3, <2>4 DEF Indexed
  <2>6. q.rec = L - k /\ q = Ptr(pages[1].addr, q.rec) BY DEF Ptr
  <2> HIDE DEF q, old
  <2>7. Fine(old) BY <2>1 DEF old
  <2>8. QED BY <2>1, <2>5, <2>6, <2>7
<1>9. f[L + 1].slIdx = 1 /\ Fine(f[L + 1].tbl)
  <2>1. \A k \in Nat : k \in S => k + 1 \in S BY <1>8
  <2> HIDE DEF S
  <2>2. Nat \subseteq S BY ONLY <1>7, <2>1, SetInduction
  <2>3. L \in S BY <1>1, <2>2
  <2>4. QED BY <1>1, <2>3 DEF S
<1>10. f[L + 2] = f[L + 1]
  BY <1>1, <1>2, <1>5
<1>11. QED BY <1>3, <1>9, <1>10
-----------------------------------------------------------------------------
(* From the slots of a Table to its texts, in memory and in a file.        *)

(* The record that a pointer to an arena leads to, wherever the arena was  *)
(* when the pointer was saved: it is on the first page unless it is of the *)
(* second, which no arena that was saved has.                              *)
Home(pages, ptr) == IF Len(pages) = 2 /\ ptr.page = pages[2].addr THEN 2 ELSE 1

Leads(pages, ptr) == ptr.rec \in DOMAIN pages[Home(pages, ptr)].recs

Lead(pages, ptr) == pages[Home(pages, ptr)].recs[ptr.rec]

(* A pointer of a slab leads to the entry of a key of that slot, and the   *)
(* entry to a text.                                                        *)
Entry(pages, ptr, slot) ==
  /\ Leads(pages, ptr)
  /\ Lead(pages, ptr).of = "hashed"
  /\ Lead(pages, ptr).key \in DOMAIN Slot /\ Slot[Lead(pages, ptr).key] = slot
  /\ DOMAIN Lead(pages, ptr).ptrs = {1}

Value(pages, ptr) == Lead(pages, ptr).ptrs[1]

Found(pages, ptr, text) ==
  Leads(pages, Value(pages, ptr)) /\ Lead(pages, Value(pages, ptr)).text = text

(* A Table, on its pages or in a file: what data says of each slot.        *)
Linked(pages, data) ==
  /\ Formed(pages) /\ Len(pages[1].recs) >= 5
  /\ pages[1].recs[3].of = "slab" /\ pages[1].recs[5].of = "slab"
  /\ DOMAIN Slab(pages) = 1 .. SLOTS /\ DOMAIN data = 1 .. SLOTS
  /\ \A s \in 1 .. SLOTS :
       IF Slab(pages)[s] = NULL THEN data[s] = NULL
       ELSE Entry(pages, Slab(pages)[s], s) /\ Found(pages, Slab(pages)[s], data[s])

Here(pages) == {pages[i].addr : i \in DOMAIN pages}

(* On its pages: the value of an entry is on one of them, and a pointer of *)
(* the slab is to one of them or to the page of a session read before.     *)
Holds(pages, data) ==
  /\ Linked(pages, data)
  /\ pages[1].addr \in Addrs /\ (Len(pages) = 2 => pages[2].addr = -pages[1].addr)
  /\ \A s \in 1 .. SLOTS : Slab(pages)[s] # NULL =>
       /\ Slab(pages)[s] \in [page : Addrs \union Here(pages), rec : Nat]
       /\ Value(pages, Slab(pages)[s]) \in [page : Here(pages), rec : Nat]

(* In a file: one page, and the pointers of the slab that were not packed  *)
(* are of the page of a session read before.                               *)
Image(pages, data) ==
  /\ Linked(pages, data) /\ Len(pages) = 1
  /\ \A s \in 1 .. SLOTS \ Mapped(pages[1].recs[5]) : Slab(pages)[s] # NULL =>
       Slab(pages)[s] \in [page : Addrs, rec : Nat]

(* What the client has is what it should find; a file is of what was       *)
(* written for its id, and what is being written of what will be.          *)
Held == handle.pages # NULL => Holds(handle.pages, handle.data)

Imaged ==
  /\ DOMAIN whole = Ids
  /\ \A id \in DOMAIN dirs : dirs[id].file # NULL =>
       /\ DOMAIN dirs[id].file = {"checksum", "pages"}
       /\ dirs[id].file.pages # <<>> => Image(dirs[id].file.pages, whole[id])

Writing ==
  ssid.pc \in {"header", "page"} =>
    /\ Image(ssid.out.pages, ssid.data)
    /\ DOMAIN dirs[ssid.id].file = {"checksum", "pages"} /\ dirs[ssid.id].file.pages = <<>>
-----------------------------------------------------------------------------
\* A function on the numbers up to n is a sequence of length n.
LEMMA FunctionListed ==
  ASSUME NEW n \in Nat, NEW s, s = [i \in 1 .. n |-> s[i]]
  PROVE  Listed(s) /\ Len(s) = n /\ DOMAIN s = 1 .. n
<1> DEFINE T == {s[i] : i \in DOMAIN s}
<1>1. DOMAIN s = 1 .. n
  OBVIOUS
<1>2. \A i \in 1 .. n : s[i] \in T
  BY <1>1
<1> HIDE DEF T
<1>3. s \in [1 .. n -> T]
  BY <1>2
<1>4. s \in Seq(T)
  BY <1>3, SeqDef
<1>5. Len(s) = n
  BY <1>1, <1>4, LenProperties
<1>6. QED BY <1>1, <1>4, <1>5 DEF Listed, T

(* A sequence with another entry, an arena with other records on a page,   *)
(* or with other pointers in a record.                                     *)
Put(s, i, x) == [s EXCEPT ![i] = x]
PutRecs(pages, j, recs) == [pages EXCEPT ![j].recs = recs]
PutPtrs(pages, j, m, ptrs) == [pages EXCEPT ![j].recs[m].ptrs = ptrs]

\* Changing an entry of a sequence.
LEMMA ListChanged ==
  ASSUME NEW s, Listed(s), NEW i \in DOMAIN s, NEW x
  PROVE  /\ Listed(Put(s, i, x)) /\ Len(Put(s, i, x)) = Len(s)
         /\ DOMAIN Put(s, i, x) = DOMAIN s
         /\ Put(s, i, x)[i] = x
         /\ \A j \in DOMAIN s \ {i} : Put(s, i, x)[j] = s[j]
<1> DEFINE t == Put(s, i, x)
<1>1. Len(s) \in Nat /\ DOMAIN s = 1 .. Len(s)
  BY ListedIs
<1>2. t = [n \in 1 .. Len(s) |-> t[n]]
  BY <1>1 DEF Put
<1>3. t[i] = x /\ \A j \in DOMAIN s \ {i} : t[j] = s[j]
  BY DEF Put
<1> HIDE DEF t
<1>4. Listed(t) /\ Len(t) = Len(s) /\ DOMAIN t = 1 .. Len(s)
  BY <1>1, <1>2, FunctionListed
<1>5. QED BY <1>1, <1>3, <1>4 DEF t

\* Its entries, and the one that is put after them.
LEMMA ListLonger ==
  ASSUME NEW s, Listed(s), NEW x
  PROVE  /\ Listed(Append(s, x)) /\ Len(Append(s, x)) = Len(s) + 1
         /\ DOMAIN Append(s, x) = 1 .. Len(s) + 1
         /\ Append(s, x)[Len(s) + 1] = x
         /\ \A j \in DOMAIN s : Append(s, x)[j] = s[j]
<1> DEFINE T == {s[n] : n \in DOMAIN s} \union {x}
<1>1. s \in Seq(T) /\ x \in T
  BY SeqMonotonic DEF Listed
<1> HIDE DEF T
<1>2. Append(s, x) \in Seq(T) /\ Len(Append(s, x)) = Len(s) + 1 /\ Len(s) \in Nat /\ DOMAIN s = 1 .. Len(s)
  BY <1>1, AppendProperties, LenProperties
<1>3. /\ Append(s, x)[Len(s) + 1] = x /\ \A j \in DOMAIN s : Append(s, x)[j] = s[j]
  BY <1>1, <1>2, AppendProperties
<1> DEFINE t == Append(s, x)
<1>4. t = [n \in 1 .. Len(s) + 1 |-> t[n]]
  <2>1. t \in [1 .. Len(t) -> T] BY <1>2, LenProperties
  <2> HIDE DEF t
  <2>2. Len(t) = Len(s) + 1 BY <1>2 DEF t
  <2>3. QED BY <2>1, <2>2
<1> HIDE DEF t
<1>5. Listed(t) /\ Len(t) = Len(s) + 1 /\ DOMAIN t = 1 .. Len(s) + 1
  BY <1>2, <1>4, FunctionListed
<1>6. QED BY <1>3, <1>5 DEF t

\* What is packed of a record: its pointers, as many as there were.
LEMMA PackedIs ==
  ASSUME NEW rec, DOMAIN rec = {"of", "ptrs", "key", "text"}, NEW to
  PROVE  /\ DOMAIN Packed(rec, to) = {"of", "ptrs", "key", "text"}
         /\ Packed(rec, to).of = rec.of /\ Packed(rec, to).key = rec.key
         /\ Packed(rec, to).text = rec.text
         /\ DOMAIN Packed(rec, to).ptrs = DOMAIN rec.ptrs
         /\ \A i \in DOMAIN rec.ptrs :
              Packed(rec, to).ptrs[i] = IF i \in Mapped(rec) THEN to[rec.ptrs[i]] ELSE rec.ptrs[i]
BY DEF Packed

\* The pages once they are packed, with what was on them.
LEMMA FromIs ==
  ASSUME NEW pages, Formed(pages), Len(pages) = 1, NEW to
  PROVE  /\ Formed(From(pages, to, 1)) /\ Len(From(pages, to, 1)) = 1
         /\ From(pages, to, 1)[1].addr = pages[1].addr
         /\ Len(From(pages, to, 1)[1].recs) = Len(pages[1].recs)
         /\ DOMAIN From(pages, to, 1)[1].recs = DOMAIN pages[1].recs
         /\ \A n \in DOMAIN pages[1].recs :
              /\ From(pages, to, 1)[1].recs[n] = Packed(pages[1].recs[n], to)
              /\ DOMAIN pages[1].recs[n] = {"of", "ptrs", "key", "text"}
<1> DEFINE recs == pages[1].recs
           new == From(pages, to, 1)
           L == Len(recs)
           packed == [n \in DOMAIN recs |-> Packed(recs[n], to)]
<1>1. /\ DOMAIN pages = {1} /\ Listed(pages) /\ pages[1] = [addr |-> pages[1].addr, recs |-> recs]
      /\ L \in Nat /\ L >= 1 /\ DOMAIN recs = 1 .. L
      /\ \A n \in DOMAIN recs : DOMAIN recs[n] = {"of", "ptrs", "key", "text"}
  <2>1. DOMAIN pages = 1 .. 1 BY ListedIs DEF Formed
  <2>2. QED BY <2>1, ListedIs DEF Formed
<1>2. new = [pages EXCEPT ![1].recs = packed]
  <2>1. \A n \in DOMAIN recs : n >= 1 BY <1>1
  <2>2. [n \in DOMAIN recs |-> IF n >= 1 THEN Packed(recs[n], to) ELSE recs[n]] = packed
    BY <2>1
  <2>3. QED BY <2>2 DEF From
<1>3. \A n \in DOMAIN recs : packed[n] = Packed(recs[n], to)
  OBVIOUS
<1>4. packed = [n \in 1 .. L |-> packed[n]]
  BY <1>1
<1> HIDE DEF packed
<1>5. Listed(packed) /\ Len(packed) = L /\ DOMAIN packed = 1 .. L
  BY <1>1, <1>4, FunctionListed
<1> HIDE DEF new, L
<1>6. new[1] = [addr |-> pages[1].addr, recs |-> packed] /\ DOMAIN new = {1}
  BY <1>1, <1>2
<1>7. Listed(new) /\ Len(new) = 1
  <2>1. new = [n \in DOMAIN pages |-> new[n]] BY <1>2
  <2>2. DOMAIN pages = 1 .. 1 BY <1>1
  <2>3. new = [n \in 1 .. 1 |-> new[n]] BY ONLY <2>1, <2>2
  <2>4. QED BY ONLY <2>3, FunctionListed
<1>8. \A n \in DOMAIN recs : DOMAIN packed[n] = {"of", "ptrs", "key", "text"}
  BY <1>1, <1>3, PackedIs
<1>9. Formed(new)
  BY <1>1, <1>5, <1>6, <1>7, <1>8 DEF Formed
<1>10. QED BY <1>1, <1>3, <1>5, <1>6, <1>7, <1>9 DEF new, L

\* On one page, packing or unpacking keeps every way from a slot to its text,
\* when it keeps the number of the record that a pointer leads to.
LEMMA PackedLinked ==
  ASSUME NEW pages, NEW data, Linked(pages, data), Len(pages) = 1, NEW to,
         \A n \in DOMAIN pages[1].recs : Fits(pages[1].recs[n], to),
         \A p \in DOMAIN to : to[p] # NULL /\ to[p].rec = p.rec
  PROVE  /\ Linked(From(pages, to, 1), data)
         /\ \A s \in 1 .. SLOTS :
              /\ Slab(From(pages, to, 1))[s] =
                   IF s \in Mapped(pages[1].recs[5]) THEN to[Slab(pages)[s]] ELSE Slab(pages)[s]
              /\ s \in Mapped(pages[1].recs[5]) =>
                   /\ s \in Mapped(From(pages, to, 1)[1].recs[5])
                   /\ Slab(pages)[s] \in DOMAIN to
              /\ Slab(From(pages, to, 1))[s] = NULL <=> Slab(pages)[s] = NULL
              /\ Slab(pages)[s] # NULL =>
                   /\ Value(pages, Slab(pages)[s]) \in DOMAIN to
                   /\ Value(From(pages, to, 1), Slab(From(pages, to, 1))[s]) = to[Value(pages, Slab(pages)[s])]
<1> DEFINE new == From(pages, to, 1)
           recs == pages[1].recs
           recs2 == new[1].recs
           slab == Slab(pages)
           slab2 == Slab(new)
<1>1. /\ Formed(new) /\ Len(new) = 1 /\ Len(recs2) = Len(recs) /\ DOMAIN recs2 = DOMAIN recs
      /\ \A n \in DOMAIN recs : /\ recs2[n] = Packed(recs[n], to)
                                /\ DOMAIN recs[n] = {"of", "ptrs", "key", "text"}
  BY FromIs DEF Linked
<1>2. 3 \in DOMAIN recs /\ 5 \in DOMAIN recs /\ Len(recs) >= 5
  <2>1. 1 \in DOMAIN pages BY ListedIs DEF Linked, Formed
  <2>2. Len(recs) \in Nat /\ DOMAIN recs = 1 .. Len(recs) BY <2>1, ListedIs DEF Linked, Formed
  <2>3. QED BY <2>2 DEF Linked
<1>3. /\ slab = recs[5].ptrs /\ slab2 = recs2[5].ptrs /\ DOMAIN slab = 1 .. SLOTS
      /\ recs[5].of = "slab" /\ recs[3].of = "slab" /\ DOMAIN data = 1 .. SLOTS
  BY DEF Slab, Linked
<1>4. recs2[5] = Packed(recs[5], to) /\ recs2[5].of = "slab" /\ recs2[3].of = "slab"
      /\ DOMAIN slab2 = 1 .. SLOTS
  <2> HIDE DEF recs, recs2, new, slab, slab2
  <2>1. recs2[5] = Packed(recs[5], to) /\ recs2[3] = Packed(recs[3], to) BY <1>1, <1>2
  <2>2. recs2[5].of = recs[5].of /\ recs2[3].of = recs[3].of /\ DOMAIN recs2[5].ptrs = DOMAIN recs[5].ptrs
    BY <1>1, <1>2, <2>1, PackedIs
  <2>3. QED BY <1>3, <2>1, <2>2
<1>5. \A s \in 1 .. SLOTS : Home(pages, slab[s]) = 1 /\ Home(new, slab2[s]) = 1
  BY <1>1 DEF Home
<1>6. \A p : Home(pages, p) = 1 /\ Home(new, p) = 1
  BY <1>1 DEF Home
<1> HIDE DEF new, recs, recs2, slab, slab2
<1>7. ASSUME NEW s \in 1 .. SLOTS
      PROVE  /\ slab2[s] = IF s \in Mapped(recs[5]) THEN to[slab[s]] ELSE slab[s]
             /\ s \in Mapped(recs[5]) => slab[s] # NULL /\ slab[s] \in DOMAIN to
             /\ slab2[s] = NULL <=> slab[s] = NULL
             /\ slab[s] # NULL => slab2[s].rec = slab[s].rec
  <2>1. slab2[s] = IF s \in Mapped(recs[5]) THEN to[slab[s]] ELSE slab[s]
    <3> DEFINE r == recs[5]
    <3>1. DOMAIN r = {"of", "ptrs", "key", "text"} /\ s \in DOMAIN r.ptrs /\ slab[s] = r.ptrs[s]
          /\ slab2[s] = Packed(r, to).ptrs[s]
      BY <1>1, <1>2, <1>3, <1>4
    <3> HIDE DEF r
    <3>2. slab2[s] = IF s \in Mapped(r) THEN to[r.ptrs[s]] ELSE r.ptrs[s]
      BY <3>1, PackedIs
    <3>3. QED BY <3>1, <3>2 DEF r
  <2>2. s \in Mapped(recs[5]) => slab[s] # NULL /\ slab[s] \in DOMAIN to
    <3>1. s \in Mapped(recs[5]) => slab[s] # NULL
      <4>1. s \in 1 .. s OBVIOUS
      <4>2. QED BY <1>3, <4>1 DEF Mapped
    <3>2. Fits(recs[5], to) BY <1>2 DEF recs
    <3>3. QED BY <1>3, <3>1, <3>2 DEF Fits
  <2>3. QED BY <2>1, <2>2
<1>8. Mapped(recs[5]) \subseteq Mapped(recs2[5])
  <2> SUFFICES ASSUME NEW s \in Mapped(recs[5]) PROVE s \in Mapped(recs2[5])
    OBVIOUS
  <2>1. s \in 1 .. SLOTS /\ \A j \in 1 .. s : slab[j] # NULL BY <1>3 DEF Mapped
  <2>2. \A j \in 1 .. s : j \in 1 .. SLOTS BY <2>1, SsidAssumption
  <2>3. \A j \in 1 .. s : slab2[j] # NULL BY <1>7, <2>1, <2>2
  <2>4. QED BY <1>3, <1>4, <2>1, <2>3 DEF Mapped
<1>9. ASSUME NEW s \in 1 .. SLOTS, slab[s] # NULL
      PROVE  /\ Entry(new, slab2[s], s) /\ Found(new, slab2[s], data[s])
             /\ Value(pages, slab[s]) \in DOMAIN to
             /\ Value(new, slab2[s]) = to[Value(pages, slab[s])]
  <2> DEFINE n == slab[s].rec
             v == recs[n].ptrs[1]
  <2>1. Entry(pages, slab[s], s) /\ Found(pages, slab[s], data[s])
    BY <1>9 DEF Linked, slab
  <2>2. /\ n \in DOMAIN recs /\ recs[n].of = "hashed" /\ recs[n].key \in DOMAIN Slot
        /\ Slot[recs[n].key] = s /\ DOMAIN recs[n].ptrs = {1}
        /\ Lead(pages, slab[s]) = recs[n] /\ Value(pages, slab[s]) = v
    BY <1>6, <2>1 DEF Entry, Leads, Lead, Value, recs
  <2>3. v.rec \in DOMAIN recs /\ recs[v.rec].text = data[s]
    BY <1>6, <2>1, <2>2 DEF Found, Leads, Lead, recs
  <2>4. 1 \in Mapped(recs[n]) BY <2>2 DEF Mapped
  <2>5. v \in DOMAIN to
    <3>1. Fits(recs[n], to) BY <2>2 DEF recs
    <3>2. QED BY <2>4, <3>1 DEF Fits
  <2> DEFINE w == recs2[n].ptrs[1]
  <2>6. /\ recs2[n].of = "hashed" /\ recs2[n].key = recs[n].key /\ DOMAIN recs2[n].ptrs = {1}
        /\ w = to[v]
    BY <1>1, <2>2, <2>4, PackedIs
  <2>7. w.rec = v.rec BY <2>5, <2>6
  <2>8. recs2[v.rec].text = data[s]
    BY <1>1, <2>3, PackedIs
  <2>9. slab2[s].rec = n BY <1>7, <1>9
  <2> HIDE DEF n, v, w
  <2>10. Leads(new, slab2[s]) /\ Lead(new, slab2[s]) = recs2[n] /\ Value(new, slab2[s]) = w
    BY <1>1, <1>6, <2>2, <2>9 DEF Leads, Lead, Value, recs2, w
  <2>11. Entry(new, slab2[s], s)
    BY <2>2, <2>6, <2>10 DEF Entry
  <2>12. Leads(new, w) /\ Lead(new, w) = recs2[v.rec]
    BY <1>1, <1>6, <2>3, <2>7 DEF Leads, Lead, recs2
  <2>13. Found(new, slab2[s], data[s])
    BY <2>8, <2>10, <2>12 DEF Found
  <2>14. QED BY <2>2, <2>5, <2>6, <2>10, <2>11, <2>13
<1>10. Linked(new, data)
  <2>1. ASSUME NEW s \in 1 .. SLOTS, slab[s] = NULL PROVE data[s] = NULL
    BY <2>1 DEF Linked, slab
  <2>2. \A s \in 1 .. SLOTS : IF slab2[s] = NULL THEN data[s] = NULL
                             ELSE Entry(new, slab2[s], s) /\ Found(new, slab2[s], data[s])
    BY <1>7, <1>9, <2>1
  <2>3. QED BY <1>1, <1>2, <1>3, <1>4, <2>2 DEF Linked, recs2, slab2
<1>11. QED BY <1>7, <1>8, <1>9, <1>10 DEF new, recs, recs2, slab, slab2

\* What is written of a Table says the same of every slot.
LEMMA FlushImage ==
  ASSUME NEW pages, NEW data, Holds(pages, data), ~Stash_FlushFree(pages).failed
  PROVE  Image(Stash_FlushFree(pages).pages, data)
<1> DEFINE tbl == MemIter_GetTable(pages)
           to == [p \in DOMAIN tbl |-> Stash_PackAddr(p, tbl)]
           yes == TRUE
<1>1. Stash_FlushFree(pages) = Stash_PackMemCh(pages, yes, to)
  BY DEF Stash_FlushFree
<1>2. yes
  OBVIOUS
<1>3. Formed(pages) /\ Linked(pages, data)
  BY DEF Holds, Linked
<1> HIDE DEF yes, to
<1>4. Len(pages) = 1
  <2>1. CASE Len(pages) = 2
    <3>1. Stash_PackMemCh(pages, yes, to).failed BY <1>2, <1>3, <2>1, TwoPagesFail
    <3>2. QED BY <1>1, <3>1
  <2>2. QED BY <1>3, <2>1 DEF Formed
<1> DEFINE new == From(pages, to, 1)
<1>5. Stash_FlushFree(pages).pages = new /\ \A n \in DOMAIN pages[1].recs : Fits(pages[1].recs[n], to)
  BY <1>1, <1>3, <1>4, OnePagePacked
<1>6. ASSUME NEW p \in DOMAIN to PROVE to[p] # NULL /\ to[p].rec = p.rec
  <2>1. p \in DOMAIN tbl /\ to[p] = Coord(tbl[p], p.rec) BY DEF to, Stash_PackAddr
  <2>2. tbl[p] = 1 /\ p.rec \in Nat BY <1>3, <1>4, <2>1, OnePageTable
  <2>3. to[p] = Coord(1, p.rec) BY <2>1, <2>2
  <2>4. QED BY <2>2, <2>3, SsidAssumption DEF Coord
<1> DEFINE slab == Slab(pages)
           slab2 == Slab(new)
           old == Mapped(pages[1].recs[5])
           still == Mapped(new[1].recs[5])
<1>7. /\ Linked(new, data)
      /\ \A s \in 1 .. SLOTS : /\ slab2[s] = IF s \in old THEN to[slab[s]] ELSE slab[s]
                               /\ s \in old => s \in still
  BY <1>3, <1>4, <1>5, <1>6, PackedLinked
<1>8. Len(new) = 1
  BY <1>3, <1>4, FromIs
<1> HIDE DEF tbl, new, slab, slab2, old, still
<1>9. Here(pages) \subseteq Addrs
  <2>1. DOMAIN pages = 1 .. 1 BY <1>3, <1>4, ListedIs DEF Formed
  <2>2. pages[1].addr \in Addrs BY DEF Holds
  <2>3. QED BY <2>1, <2>2 DEF Here
<1>10. ASSUME NEW s \in 1 .. SLOTS \ still, slab2[s] # NULL
       PROVE  slab2[s] \in [page : Addrs, rec : Nat]
  <2>1. slab2[s] = slab[s] BY <1>7
  <2>2. slab[s] \in [page : Addrs \union Here(pages), rec : Nat]
    BY <1>10, <2>1 DEF Holds, slab
  <2>3. Addrs \union Here(pages) = Addrs BY <1>9
  <2>4. QED BY <2>1, <2>2, <2>3
<1>11. Image(new, data)
  BY <1>7, <1>8, <1>10 DEF Image, new, slab2, still
<1>12. QED BY <1>5, <1>11

\* What is read of a file, wherever it is read to.
LEMMA LoadHolds ==
  ASSUME NEW file, NEW data, Image(file.pages, data), NEW addr \in Addrs,
         Stash_FromStream(file, addr) # NULL
  PROVE  Holds(Stash_FromStream(file, addr), data)
<1> DEFINE pages == file.pages
           page == [pages[1] EXCEPT !.addr = addr]
           read == << page >>
           to == [c \in Coords(read) |-> Stash_UnpackAddr(c, read)]
           no == FALSE
           mem == Stash_PackMemCh(read, no, to)
<1>1. ~mem.failed /\ Stash_FromStream(file, addr) = mem.pages
  BY DEF Stash_FromStream
<1>2. Linked(pages, data) /\ Len(pages) = 1 /\ Formed(pages)
  BY DEF Image, Linked
<1>3. /\ pages[1] = [addr |-> pages[1].addr, recs |-> pages[1].recs]
      /\ Listed(pages[1].recs) /\ Len(pages[1].recs) >= 1
      /\ \A n \in DOMAIN pages[1].recs :
            DOMAIN pages[1].recs[n] = {"of", "ptrs", "key", "text"}
  <2>1. DOMAIN pages = 1 .. 1 BY <1>2, ListedIs DEF Formed
  <2>2. QED BY <1>2, <2>1 DEF Formed
<1>4. /\ page = [addr |-> addr, recs |-> pages[1].recs] /\ page.addr = addr
      /\ page.recs = pages[1].recs
  BY <1>3
<1> HIDE DEF pages, page
<1>5. Len(read) = 1 /\ read[1] = page /\ DOMAIN read = {1}
  OBVIOUS
<1>6. Listed(read)
  <2>1. read \in Seq({page}) /\ {page} = {read[n] : n \in DOMAIN read} OBVIOUS
  <2>2. QED BY <2>1 DEF Listed
<1> HIDE DEF read, no
<1>7. Formed(read)
  BY <1>3, <1>4, <1>5, <1>6 DEF Formed
<1>8. \A p : Home(pages, p) = 1 /\ Home(read, p) = 1
  BY <1>2, <1>5 DEF Home
<1>9. Slab(read) = Slab(pages) /\ read[1].recs = pages[1].recs
  BY <1>4, <1>5 DEF Slab
<1>10. \A p : /\ Leads(read, p) = Leads(pages, p) /\ Lead(read, p) = Lead(pages, p)
              /\ Value(read, p) = Value(pages, p)
  BY <1>8, <1>9 DEF Leads, Lead, Value
<1>11. Linked(read, data)
  BY <1>2, <1>7, <1>9, <1>10 DEF Linked, Entry, Found
<1>12. addr \in Int /\ Addrs \subseteq Nat
  BY SsidAssumption
<1>13. ASSUME NEW c \in DOMAIN to
       PROVE  to[c] = Ptr(addr, c.rec) /\ c.rec \in Nat /\ to[c].rec = c.rec /\ to[c] # NULL
  <2>1. Len(read[1].recs) \in Nat
    BY <1>3, <1>9, ListedIs
  <2>2. c \in Coords(read) /\ to[c] = Ptr(read[c.idx].addr, c.rec)
    BY DEF Stash_UnpackAddr
  <2>3. PICK i \in DOMAIN read, n \in 0 .. Len(read[1].recs) : c = Coord(i, n)
    BY <2>2 DEF Coords
  <2>4. c.idx = 1 /\ c.rec = n /\ n \in Nat
    BY <1>5, <2>1, <2>3 DEF Coord
  <2>5. to[c] = Ptr(addr, c.rec) BY <1>4, <1>5, <2>2, <2>4
  <2> HIDE DEF to
  <2>6. QED BY <1>12, <2>4, <2>5, SsidAssumption DEF Ptr
<1> HIDE DEF to
<1> DEFINE new == From(read, to, 1)
<1>14. mem.pages = new /\ \A n \in DOMAIN read[1].recs : Fits(read[1].recs[n], to)
  BY <1>1, <1>5, <1>7, OnePagePacked
<1>15. /\ Linked(new, data)
       /\ \A s \in 1 .. SLOTS :
            /\ Slab(new)[s] = IF s \in Mapped(read[1].recs[5]) THEN to[Slab(read)[s]] ELSE Slab(read)[s]
            /\ s \in Mapped(read[1].recs[5]) => Slab(read)[s] \in DOMAIN to
            /\ Slab(new)[s] = NULL <=> Slab(read)[s] = NULL
            /\ Slab(read)[s] # NULL =>
                 /\ Value(read, Slab(read)[s]) \in DOMAIN to
                 /\ Value(new, Slab(new)[s]) = to[Value(read, Slab(read)[s])]
  BY <1>5, <1>11, <1>13, <1>14, PackedLinked
<1>16. Len(new) = 1 /\ new[1].addr = addr /\ addr \in Here(new)
  <2>1. Len(new) = 1 /\ new[1].addr = addr /\ Formed(new) BY <1>4, <1>5, <1>7, FromIs
  <2>2. 1 \in DOMAIN new BY <2>1, ListedIs DEF Formed
  <2>3. QED BY <2>1, <2>2 DEF Here
<1> HIDE DEF new, mem
<1>17. ASSUME NEW s \in 1 .. SLOTS, Slab(new)[s] # NULL
       PROVE  /\ Slab(new)[s] \in [page : Addrs \union Here(new), rec : Nat]
              /\ Value(new, Slab(new)[s]) \in [page : Here(new), rec : Nat]
  <2>1. Slab(read)[s] # NULL BY <1>15, <1>17
  <2>2. Value(new, Slab(new)[s]) \in [page : Here(new), rec : Nat]
    <3> DEFINE v == Value(read, Slab(read)[s])
    <3>1. v \in DOMAIN to /\ Value(new, Slab(new)[s]) = to[v] BY <1>15, <2>1
    <3> HIDE DEF v
    <3>2. to[v] = Ptr(addr, v.rec) /\ v.rec \in Nat BY <1>13, <3>1
    <3>3. QED BY <1>16, <3>1, <3>2 DEF Ptr
  <2>3. CASE s \in Mapped(read[1].recs[5])
    <3> DEFINE p == Slab(read)[s]
    <3>1. p \in DOMAIN to /\ Slab(new)[s] = to[p] BY <1>15, <2>3
    <3> HIDE DEF p
    <3>2. to[p] = Ptr(addr, p.rec) /\ p.rec \in Nat BY <1>13, <3>1
    <3>3. QED BY <2>2, <3>1, <3>2 DEF Ptr
  <2>4. CASE s \notin Mapped(read[1].recs[5])
    <3>1. Slab(new)[s] = Slab(pages)[s] BY <1>9, <1>15, <2>4
    <3>2. Slab(pages)[s] \in [page : Addrs, rec : Nat]
      BY <1>9, <2>1, <2>4 DEF Image, pages
    <3>3. QED BY <2>2, <3>1, <3>2
  <2>5. QED BY <2>3, <2>4
<1>18. Holds(new, data)
  BY <1>15, <1>16, <1>17 DEF Holds
<1>19. QED BY <1>1, <1>14, <1>18
-----------------------------------------------------------------------------
\* The pages of an arena, and where their records are.
LEMMA FormedIs ==
  ASSUME NEW pages, Formed(pages)
  PROVE  /\ DOMAIN pages = 1 .. Len(pages) /\ Len(pages) \in {1, 2} /\ 1 \in DOMAIN pages
         /\ \A i \in DOMAIN pages :
              /\ Len(pages[i].recs) \in Nat /\ DOMAIN pages[i].recs = 1 .. Len(pages[i].recs)
              /\ DOMAIN pages[i] = {"addr", "recs"} /\ Listed(pages[i].recs)
              /\ Len(pages[i].recs) >= 1
              /\ \A n \in DOMAIN pages[i].recs :
                   DOMAIN pages[i].recs[n] = {"of", "ptrs", "key", "text"}
<1>1. DOMAIN pages = 1 .. Len(pages) /\ Len(pages) \in {1, 2}
  BY ListedIs DEF Formed
<1>2. 1 \in DOMAIN pages
  BY <1>1
<1>3. ASSUME NEW i \in DOMAIN pages PROVE DOMAIN pages[i] = {"addr", "recs"}
  <2>1. pages[i] = [addr |-> pages[i].addr, recs |-> pages[i].recs] BY DEF Formed
  <2> DEFINE a == pages[i].addr
             r == pages[i].recs
  <2> HIDE DEF a, r
  <2>2. DOMAIN [addr |-> a, recs |-> r] = {"addr", "recs"} OBVIOUS
  <2>3. QED BY <2>1, <2>2 DEF a, r
<1>4. QED BY <1>1, <1>2, <1>3, ListedIs DEF Formed

(* What other pages are then.                                              *)
IsPut(new, pages, j, recs) ==
  /\ Formed(new) /\ Len(new) = Len(pages) /\ DOMAIN new = DOMAIN pages
  /\ \A i \in DOMAIN pages : /\ new[i].addr = pages[i].addr
                             /\ new[i].recs = IF i = j THEN recs ELSE pages[i].recs

\* Putting other records on one of the pages.
LEMMA PageSet ==
  ASSUME NEW pages, Formed(pages), NEW j \in DOMAIN pages, NEW recs,
         Listed(recs), Len(recs) >= 1,
         \A n \in DOMAIN recs : DOMAIN recs[n] = {"of", "ptrs", "key", "text"}
  PROVE  IsPut(PutRecs(pages, j, recs), pages, j, recs)
<1> DEFINE page == [pages[j] EXCEPT !.recs = recs]
           new == Put(pages, j, page)
<1>1. PutRecs(pages, j, recs) = new
  BY DEF PutRecs, Put
<1>2. page = [addr |-> pages[j].addr, recs |-> recs]
  <2>1. pages[j] = [addr |-> pages[j].addr, recs |-> pages[j].recs] BY DEF Formed
  <2>2. QED BY <2>1
<1>3. page.addr = pages[j].addr /\ page.recs = recs
  BY <1>2
<1> HIDE DEF page
<1>4. Listed(pages) /\ Len(pages) \in {1, 2}
  BY DEF Formed
<1>5. /\ Listed(new) /\ Len(new) = Len(pages) /\ DOMAIN new = DOMAIN pages
      /\ new[j] = page /\ \A i \in DOMAIN pages \ {j} : new[i] = pages[i]
  BY <1>4, ListChanged
<1> HIDE DEF new
<1>6. \A i \in DOMAIN pages : /\ new[i].addr = pages[i].addr
                              /\ new[i].recs = IF i = j THEN recs ELSE pages[i].recs
  BY <1>3, <1>5
<1>7. \A i \in DOMAIN pages : new[i] = [addr |-> new[i].addr, recs |-> new[i].recs]
  <2> SUFFICES ASSUME NEW i \in DOMAIN pages
               PROVE  new[i] = [addr |-> new[i].addr, recs |-> new[i].recs]
    OBVIOUS
  <2>1. CASE i = j BY <1>2, <1>3, <1>5, <2>1
  <2>2. CASE i # j
    <3>1. new[i] = pages[i] BY <1>5, <2>2
    <3>2. pages[i] = [addr |-> pages[i].addr, recs |-> pages[i].recs] BY DEF Formed
    <3>3. QED BY <3>1, <3>2
  <2>3. QED BY <2>1, <2>2
<1>8. \A i \in DOMAIN pages :
        /\ Listed(new[i].recs) /\ Len(new[i].recs) >= 1
        /\ \A n \in DOMAIN new[i].recs : DOMAIN new[i].recs[n] = {"of", "ptrs", "key", "text"}
  BY <1>6 DEF Formed
<1>9. Formed(new)
  BY <1>4, <1>5, <1>7, <1>8 DEF Formed
<1>10. QED BY <1>1, <1>5, <1>6, <1>9 DEF IsPut

IsPutPtrs(new, pages, j, m, ptrs) ==
  /\ Formed(new) /\ Len(new) = Len(pages) /\ DOMAIN new = DOMAIN pages
  /\ \A i \in DOMAIN pages :
       /\ new[i].addr = pages[i].addr /\ DOMAIN new[i].recs = DOMAIN pages[i].recs
       /\ Len(new[i].recs) = Len(pages[i].recs)
       /\ \A n \in DOMAIN pages[i].recs :
            /\ i # j \/ n # m => new[i].recs[n] = pages[i].recs[n]
            /\ new[i].recs[n].of = pages[i].recs[n].of
            /\ new[i].recs[n].key = pages[i].recs[n].key
            /\ new[i].recs[n].text = pages[i].recs[n].text
  /\ new[j].recs[m].ptrs = ptrs

\* Giving one of the records other pointers.
LEMMA PtrsSet ==
  ASSUME NEW pages, Formed(pages), NEW j \in DOMAIN pages, NEW m \in DOMAIN pages[j].recs,
         NEW ptrs
  PROVE  IsPutPtrs(PutPtrs(pages, j, m, ptrs), pages, j, m, ptrs)
<1> DEFINE rec == [pages[j].recs[m] EXCEPT !.ptrs = ptrs]
           recs == Put(pages[j].recs, m, rec)
           new == PutRecs(pages, j, recs)
<1>1. PutPtrs(pages, j, m, ptrs) = new
  BY DEF PutPtrs, PutRecs, Put
<1>2. /\ Listed(pages[j].recs) /\ Len(pages[j].recs) >= 1
      /\ \A n \in DOMAIN pages[j].recs : DOMAIN pages[j].recs[n] = {"of", "ptrs", "key", "text"}
  BY DEF Formed
<1>3. /\ DOMAIN rec = {"of", "ptrs", "key", "text"} /\ rec.ptrs = ptrs
      /\ rec.of = pages[j].recs[m].of /\ rec.key = pages[j].recs[m].key
      /\ rec.text = pages[j].recs[m].text
  BY <1>2
<1> HIDE DEF rec
<1>4. /\ Listed(recs) /\ Len(recs) = Len(pages[j].recs) /\ DOMAIN recs = DOMAIN pages[j].recs
      /\ recs[m] = rec /\ \A n \in DOMAIN pages[j].recs \ {m} : recs[n] = pages[j].recs[n]
  BY <1>2, ListChanged
<1> HIDE DEF recs
<1>5. \A n \in DOMAIN recs : DOMAIN recs[n] = {"of", "ptrs", "key", "text"}
  BY <1>2, <1>3, <1>4
<1>6. /\ Formed(new) /\ Len(new) = Len(pages) /\ DOMAIN new = DOMAIN pages
      /\ \A i \in DOMAIN pages : /\ new[i].addr = pages[i].addr
                                 /\ new[i].recs = IF i = j THEN recs ELSE pages[i].recs
  <2>1. Len(recs) >= 1 BY <1>2, <1>4
  <2>2. IsPut(new, pages, j, recs) BY <1>4, <1>5, <2>1, PageSet
  <2> HIDE DEF new
  <2>3. QED BY <2>2 DEF IsPut
<1> HIDE DEF new
<1>7. QED BY <1>1, <1>3, <1>4, <1>6 DEF IsPutPtrs

(* An arena on which records were put: those there were are what they      *)
(* were, but for the pointers of the slab of its pages.                    *)
Grown(pages, new) ==
  /\ Formed(new) /\ Len(new) >= Len(pages)
  /\ Len(new) = 2 => new[2].addr = -new[1].addr
  /\ \A i \in DOMAIN pages :
       /\ new[i].addr = pages[i].addr /\ Len(new[i].recs) >= Len(pages[i].recs)
       /\ \A n \in DOMAIN pages[i].recs :
            /\ new[i].recs[n].of = pages[i].recs[n].of
            /\ new[i].recs[n].text = pages[i].recs[n].text
            /\ pages[i].recs[n].of # "slab" \/ (i = 1 /\ n = 5)
                 => new[i].recs[n] = pages[i].recs[n]

Last(pages, rec) ==
  /\ Newest(pages) \in [page : Here(pages), rec : Nat]
  /\ Leads(pages, Newest(pages)) /\ Lead(pages, Newest(pages)) = rec

Laid(pages) ==
  /\ Formed(pages) /\ Len(pages[1].recs) >= 5
  /\ pages[1].recs[3].of = "slab" /\ pages[1].addr \in Nat \ {0}
  /\ Len(pages) = 2 => pages[2].addr = -pages[1].addr

PutLast(pages, rec) == [pages EXCEPT ![Len(pages)].recs = Append(@, rec)]

\* Putting a record on the last page.
LEMMA AppendGrown ==
  ASSUME NEW pages, Laid(pages), NEW rec, DOMAIN rec = {"of", "ptrs", "key", "text"}
  PROVE  Grown(pages, PutLast(pages, rec)) /\ Last(PutLast(pages, rec), rec)
<1> DEFINE j == Len(pages)
           old == pages[j].recs
           recs == Append(old, rec)
           new == PutRecs(pages, j, recs)
           L == Len(old)
<1>1. /\ j \in DOMAIN pages /\ j \in {1, 2} /\ Formed(pages) /\ DOMAIN pages = 1 .. j
      /\ Listed(old) /\ L \in Nat /\ DOMAIN old = 1 .. L
      /\ \A n \in DOMAIN old : DOMAIN old[n] = {"of", "ptrs", "key", "text"}
  <2>1. Formed(pages) BY DEF Laid
  <2>2. j \in {1, 2} /\ DOMAIN pages = 1 .. j BY <2>1, FormedIs
  <2>3. j \in DOMAIN pages BY <2>2
  <2> HIDE DEF j
  <2>4. QED BY <2>1, <2>2, <2>3, FormedIs
<1>2. PutLast(pages, rec) = new
  BY DEF PutRecs, PutLast
<1> HIDE DEF old, j
<1>3. /\ Listed(recs) /\ Len(recs) = L + 1 /\ DOMAIN recs = 1 .. L + 1 /\ recs[L + 1] = rec
      /\ \A n \in DOMAIN old : recs[n] = old[n]
  BY <1>1, ListLonger
<1> HIDE DEF recs, L
<1>4. \A n \in DOMAIN recs : DOMAIN recs[n] = {"of", "ptrs", "key", "text"}
  <2> SUFFICES ASSUME NEW n \in DOMAIN recs PROVE DOMAIN recs[n] = {"of", "ptrs", "key", "text"}
    OBVIOUS
  <2>1. n \in DOMAIN old \/ n = L + 1 BY <1>1, <1>3
  <2>2. QED BY <1>1, <1>3, <2>1
<1>5. Len(recs) >= 1
  BY <1>1, <1>3
<1>6. /\ Formed(new) /\ Len(new) = j /\ DOMAIN new = DOMAIN pages
      /\ \A i \in DOMAIN pages : /\ new[i].addr = pages[i].addr
                                 /\ new[i].recs = IF i = j THEN recs ELSE pages[i].recs
  <2>1. Formed(pages) /\ j \in DOMAIN pages /\ Listed(recs) /\ Len(pages) = j BY <1>1, <1>3 DEF j
  <2>2. IsPut(new, pages, j, recs) BY ONLY <1>4, <1>5, <2>1, PageSet
  <2> HIDE DEF new
  <2>3. QED BY <2>1, <2>2 DEF IsPut
<1> HIDE DEF new
<1>7. Len(new) = 2 => new[2].addr = -new[1].addr
  BY <1>1, <1>6 DEF Laid, j
<1>8. ASSUME NEW i \in DOMAIN pages
      PROVE  /\ Len(new[i].recs) >= Len(pages[i].recs)
             /\ \A n \in DOMAIN pages[i].recs : new[i].recs[n] = pages[i].recs[n]
  <2>1. CASE i = j BY <1>1, <1>3, <1>6, <2>1 DEF old, L
  <2>2. CASE i # j
    <3>1. new[i].recs = pages[i].recs BY <1>6, <2>2
    <3>2. Len(pages[i].recs) \in Nat BY <1>1, FormedIs
    <3>3. QED BY <3>1, <3>2
  <2>3. QED BY <2>1, <2>2
<1>9. Grown(pages, new)
  BY <1>1, <1>6, <1>7, <1>8 DEF Grown, j
<1>10. Newest(new) = Ptr(new[j].addr, L + 1)
  BY <1>1, <1>3, <1>6 DEF Newest
<1>11. Home(new, Newest(new)) = j
  <2>1. CASE j = 1 BY <1>6, <2>1 DEF Home
  <2>2. CASE j = 2 BY <1>6, <1>10, <2>2 DEF Home, Ptr
  <2>3. QED BY <1>1, <2>1, <2>2
<1>12. Last(new, rec)
  <2>1. Newest(new).rec = L + 1 /\ L + 1 \in Nat /\ L + 1 \in 1 .. L + 1 BY <1>1, <1>10 DEF Ptr
  <2>2. Newest(new) \in [page : Here(new), rec : Nat]
    <3>1. new[j].addr \in Here(new) BY <1>1, <1>6 DEF Here
    <3>2. QED BY <1>10, <2>1, <3>1 DEF Ptr
  <2>3. QED BY <1>1, <1>3, <1>6, <1>11, <2>1, <2>2 DEF Last, Leads, Lead
<1>13. QED BY <1>2, <1>9, <1>12

\* What was on an arena is on it after MemCh_AllocOf, and what was put there
\* is what Newest leads to.
LEMMA AllocGrown ==
  ASSUME NEW pages, Laid(pages), NEW rec, DOMAIN rec = {"of", "ptrs", "key", "text"}
  PROVE  Grown(pages, MemCh_AllocOf(pages, rec)) /\ Last(MemCh_AllocOf(pages, rec), rec)
<1> DEFINE more == -pages[1].addr
           new == MemCh_AllocOf(pages, rec)
<1>1. CASE ~(Len(pages) = 1 /\ Len(pages[1].recs) >= PAGE_RECS)
  <2>1. new = PutLast(pages, rec)
    BY <1>1 DEF MemCh_AllocOf, PutLast
  <2> HIDE DEF new
  <2>2. Grown(pages, PutLast(pages, rec)) /\ Last(PutLast(pages, rec), rec)
    BY AppendGrown
  <2>3. QED BY <2>1, <2>2 DEF new
<1>2. CASE Len(pages) = 1 /\ Len(pages[1].recs) >= PAGE_RECS
  <2> DEFINE ptrs == [pages[1].recs[3].ptrs EXCEPT ![2] = Ptr(more, 0)]
             some == PutPtrs(pages, 1, 3, ptrs)
             page == [addr |-> more, recs |-> <<rec>>]
  <2>1. new = Append(some, page)
    BY <1>2 DEF MemCh_AllocOf, PutPtrs
  <2>2. /\ Formed(pages) /\ DOMAIN pages = {1} /\ 3 \in DOMAIN pages[1].recs
        /\ pages[1].addr \in Nat \ {0}
    <3>1. Formed(pages) /\ Len(pages[1].recs) >= 5 /\ pages[1].addr \in Nat \ {0} BY DEF Laid
    <3>2. DOMAIN pages = 1 .. 1 /\ Len(pages[1].recs) \in Nat
          /\ DOMAIN pages[1].recs = 1 .. Len(pages[1].recs)
      BY <1>2, <3>1, FormedIs
    <3>3. QED BY <3>1, <3>2
  <2> HIDE DEF ptrs
  <2>3. IsPutPtrs(some, pages, 1, 3, ptrs)
    BY <2>2, PtrsSet
  <2> HIDE DEF some, new
  <2>4. /\ Formed(some) /\ Len(some) = 1 /\ DOMAIN some = {1} /\ Listed(some)
        /\ some[1].addr = pages[1].addr /\ DOMAIN some[1].recs = DOMAIN pages[1].recs
        /\ Len(some[1].recs) = Len(pages[1].recs)
        /\ \A n \in DOMAIN pages[1].recs :
             /\ n # 3 => some[1].recs[n] = pages[1].recs[n]
             /\ some[1].recs[n].of = pages[1].recs[n].of
             /\ some[1].recs[n].text = pages[1].recs[n].text
    BY <1>2, <2>2, <2>3 DEF IsPutPtrs, Formed
  <2>5. /\ Listed(page.recs) /\ Len(page.recs) = 1 /\ DOMAIN page.recs = {1}
        /\ page.recs[1] = rec /\ page.addr = more
        /\ page = [addr |-> page.addr, recs |-> page.recs]
    <3>1. <<rec>> \in Seq({rec}) /\ {rec} = {<<rec>>[n] : n \in DOMAIN <<rec>>} OBVIOUS
    <3>2. QED BY <3>1 DEF Listed
  <2> HIDE DEF page
  <2>6. /\ Listed(new) /\ Len(new) = 2 /\ DOMAIN new = 1 .. 2 /\ new[2] = page /\ new[1] = some[1]
    <3>1. Len(some) + 1 = 2 BY <2>4
    <3> DEFINE l == Len(some)
    <3>5. /\ Listed(Append(some, page)) /\ Len(Append(some, page)) = l + 1
          /\ DOMAIN Append(some, page) = 1 .. l + 1 /\ Append(some, page)[l + 1] = page
      BY ONLY <2>4, ListLonger
    <3> HIDE DEF l
    <3>6. l + 1 = 2 BY <3>1 DEF l
    <3>2. Listed(Append(some, page)) /\ Len(Append(some, page)) = 2 /\ DOMAIN Append(some, page) = 1 .. 2
          /\ Append(some, page)[2] = page
      BY ONLY <3>5, <3>6
    <3>3. \A i \in DOMAIN some : Append(some, page)[i] = some[i]
      BY ONLY <2>4, ListLonger
    <3>4. QED BY <2>1, <2>4, <3>2, <3>3
  <2>7. Formed(new)
    <3>1. ASSUME NEW i \in DOMAIN new
          PROVE  /\ new[i] = [addr |-> new[i].addr, recs |-> new[i].recs]
                 /\ Listed(new[i].recs) /\ Len(new[i].recs) >= 1
                 /\ \A n \in DOMAIN new[i].recs : DOMAIN new[i].recs[n] = {"of", "ptrs", "key", "text"}
      <4>1. CASE i = 1
        <5>1. new[i] = some[1] /\ 1 \in DOMAIN some BY <2>4, <2>6, <4>1
        <5>2. QED BY <2>4, <5>1 DEF Formed
      <4>2. CASE i = 2
        <5>1. new[i] = page BY <2>6, <4>2
        <5>2. QED BY <2>5, <5>1
      <4>3. QED BY <2>6, <4>1, <4>2
    <3>2. QED BY <2>6, <3>1 DEF Formed
  <2>8. Grown(pages, new)
    <3>1. Len(new) >= Len(pages) BY <1>2, <2>6
    <3>2. new[2].addr = -new[1].addr BY <2>4, <2>5, <2>6
    <3>3. pages[1].recs[3].of = "slab" BY DEF Laid
    <3>4. \A n \in DOMAIN pages[1].recs :
             pages[1].recs[n].of # "slab" \/ n = 5 => new[1].recs[n] = pages[1].recs[n]
      BY <2>4, <2>6, <3>3
    <3>5. Len(pages[1].recs) \in Nat BY <2>2, FormedIs
    <3>6. QED BY <2>2, <2>4, <2>6, <2>7, <3>1, <3>2, <3>4, <3>5 DEF Grown
  <2>9. Newest(new) = Ptr(more, 1)
    BY <2>5, <2>6 DEF Newest
  <2>10. Home(new, Newest(new)) = 2
    BY <2>5, <2>6, <2>9 DEF Home, Ptr
  <2>11. more \in Here(new)
    BY <2>5, <2>6 DEF Here
  <2>12. Last(new, rec)
    BY <2>5, <2>6, <2>9, <2>10, <2>11 DEF Last, Leads, Lead, Ptr
  <2>13. QED BY <2>8, <2>12 DEF new
<1>3. QED BY <1>1, <1>2

\* The pages of a Table are an arena.
LEMMA HoldsLaid ==
  ASSUME NEW pages, NEW data, Holds(pages, data)
  PROVE  Laid(pages)
BY SsidAssumption DEF Holds, Linked, Laid

\* Where a pointer leads to is the same once the arena has grown.
LEMMA GrownLeads ==
  ASSUME NEW pages, Laid(pages), NEW new, Grown(pages, new), NEW p,
         p.page \in Addrs \union Here(pages), Leads(pages, p)
  PROVE  /\ Leads(new, p) /\ Lead(new, p).text = Lead(pages, p).text
         /\ Lead(pages, p).of # "slab" => Lead(new, p) = Lead(pages, p)
         /\ p.page \in Addrs \union Here(new)
         /\ p.page \in Here(pages) => p.page \in Here(new)
<1>1. /\ Formed(pages) /\ Formed(new) /\ DOMAIN pages = 1 .. Len(pages) /\ Len(pages) \in {1, 2}
      /\ DOMAIN new = 1 .. Len(new) /\ Len(new) \in {1, 2} /\ Len(new) >= Len(pages)
      /\ DOMAIN pages \subseteq DOMAIN new
  <2>1. Formed(pages) /\ Formed(new) /\ Len(new) >= Len(pages) BY DEF Laid, Grown
  <2>2. DOMAIN pages = 1 .. Len(pages) /\ Len(pages) \in {1, 2} BY <2>1, FormedIs
  <2>3. DOMAIN new = 1 .. Len(new) /\ Len(new) \in {1, 2} BY <2>1, FormedIs
  <2>4. DOMAIN pages \subseteq DOMAIN new BY <2>1, <2>2, <2>3
  <2>5. QED BY <2>1, <2>2, <2>3, <2>4
<1>2. \A i \in DOMAIN pages : new[i].addr = pages[i].addr
  BY DEF Grown
<1>3. Home(pages, p) \in DOMAIN pages /\ Home(new, p) = Home(pages, p)
  <2>1. CASE Len(pages) = 2
    <3>1. Len(new) = 2 /\ new[2].addr = pages[2].addr BY <1>1, <1>2, <2>1
    <3>2. QED BY <1>1, <2>1, <3>1 DEF Home
  <2>2. CASE Len(pages) = 1 /\ Len(new) = 2
    <3>1. pages[1].addr \in Nat \ {0} BY DEF Laid
    <3>2. new[2].addr = -pages[1].addr BY <1>1, <1>2, <2>2 DEF Grown
    <3>3. p.page \in Nat
      <4>1. Here(pages) = {pages[1].addr} BY <1>1, <2>2 DEF Here
      <4>2. QED BY <3>1, <4>1, SsidAssumption
    <3>4. p.page # new[2].addr BY <3>1, <3>2, <3>3
    <3>5. QED BY <1>1, <2>2, <3>4 DEF Home
  <2>3. CASE Len(pages) = 1 /\ Len(new) = 1
    BY <1>1, <2>3 DEF Home
  <2>4. QED BY <1>1, <2>1, <2>2, <2>3
<1> DEFINE h == Home(pages, p)
           r == p.rec
<1>4. /\ r \in DOMAIN pages[h].recs /\ Leads(new, p) = (r \in DOMAIN new[h].recs)
      /\ Lead(pages, p) = pages[h].recs[r] /\ Lead(new, p) = new[h].recs[r]
  BY <1>3 DEF Leads, Lead
<1> HIDE DEF h, r
<1>5. r \in DOMAIN new[h].recs
  <2>1. h \in DOMAIN pages /\ h \in DOMAIN new BY <1>1, <1>3 DEF h
  <2>2. Len(new[h].recs) >= Len(pages[h].recs) BY <2>1 DEF Grown
  <2>3. /\ Len(pages[h].recs) \in Nat /\ DOMAIN pages[h].recs = 1 .. Len(pages[h].recs)
    BY <1>1, <2>1, FormedIs
  <2>5. Len(new[h].recs) \in Nat /\ DOMAIN new[h].recs = 1 .. Len(new[h].recs)
    BY <1>1, <2>1, FormedIs
  <2>4. QED BY <1>4, <2>2, <2>3, <2>5
<1>6. /\ new[h].recs[r].text = pages[h].recs[r].text
      /\ pages[h].recs[r].of # "slab" => new[h].recs[r] = pages[h].recs[r]
  BY <1>3, <1>4 DEF Grown, h
<1>7. Here(pages) \subseteq Here(new)
  BY <1>1, <1>2 DEF Here
<1>8. QED BY <1>4, <1>5, <1>6, <1>7

\* What a Table says of each slot stays as its arena grows.
LEMMA GrownHolds ==
  ASSUME NEW pages, NEW data, Holds(pages, data), NEW new, Grown(pages, new)
  PROVE  Holds(new, data) /\ Slab(new) = Slab(pages)
<1>1. /\ Laid(pages) /\ Linked(pages, data) /\ Formed(pages) /\ Formed(new)
  BY HoldsLaid DEF Grown, Holds, Linked
<1>2. /\ 1 \in DOMAIN pages /\ Len(pages[1].recs) >= 5 /\ Len(pages[1].recs) \in Nat
      /\ Len(new[1].recs) >= Len(pages[1].recs) /\ new[1].addr = pages[1].addr
      /\ 3 \in DOMAIN pages[1].recs /\ 5 \in DOMAIN pages[1].recs
      /\ Len(new[1].recs) \in Nat
  <2>1. 1 \in DOMAIN pages /\ Len(pages[1].recs) >= 5 BY <1>1, FormedIs DEF Linked
  <2>2. Len(pages[1].recs) \in Nat /\ DOMAIN pages[1].recs = 1 .. Len(pages[1].recs)
    BY <1>1, <2>1, FormedIs
  <2>3. Len(new[1].recs) >= Len(pages[1].recs) /\ new[1].addr = pages[1].addr
    BY <2>1 DEF Grown
  <2>4. 1 \in DOMAIN new BY <1>1, FormedIs
  <2>5. Len(new[1].recs) \in Nat BY <1>1, <2>4, FormedIs
  <2>6. QED BY <2>1, <2>2, <2>3, <2>5
<1>3. /\ new[1].recs[3].of = "slab" /\ new[1].recs[5] = pages[1].recs[5] /\ new[1].recs[5].of = "slab"
  BY <1>1, <1>2 DEF Grown, Linked
<1>4. Slab(new) = Slab(pages)
  BY <1>3 DEF Slab
<1>5. ASSUME NEW s \in 1 .. SLOTS, Slab(pages)[s] # NULL
      PROVE  /\ Entry(new, Slab(pages)[s], s) /\ Found(new, Slab(pages)[s], data[s])
             /\ Slab(pages)[s] \in [page : Addrs \union Here(new), rec : Nat]
             /\ Value(new, Slab(pages)[s]) \in [page : Here(new), rec : Nat]
  <2> DEFINE p == Slab(pages)[s]
             v == Value(pages, p)
  <2>1. Entry(pages, p, s) /\ Found(pages, p, data[s])
    BY <1>1, <1>5 DEF Linked
  <2>2. p \in [page : Addrs \union Here(pages), rec : Nat] /\ v \in [page : Here(pages), rec : Nat]
    BY <1>5 DEF Holds
  <2> HIDE DEF p
  <2>3. Leads(pages, p) /\ Lead(pages, p).of = "hashed" /\ p.page \in Addrs \union Here(pages)
    BY <2>1, <2>2 DEF Entry
  <2>4. Leads(new, p) /\ Lead(new, p) = Lead(pages, p) /\ p.page \in Addrs \union Here(new)
    BY <1>1, <2>3, GrownLeads
  <2>5. Value(new, p) = v
    BY <2>4 DEF Value
  <2> HIDE DEF v
  <2>6. Leads(pages, v) /\ Lead(pages, v).text = data[s] /\ v.page \in Here(pages)
    BY <2>1, <2>2 DEF Found, v
  <2>7. Leads(new, v) /\ Lead(new, v).text = data[s] /\ v.page \in Here(new)
    BY <1>1, <2>6, GrownLeads
  <2>8. Entry(new, p, s) /\ Found(new, p, data[s])
    BY <2>1, <2>4, <2>5, <2>7 DEF Entry, Found
  <2>9. /\ p \in [page : Addrs \union Here(new), rec : Nat]
        /\ v \in [page : Here(new), rec : Nat]
    BY <2>2, <2>4, <2>7
  <2>10. QED BY <2>5, <2>8, <2>9 DEF p
<1>6. Linked(new, data)
  <2>1. \A s \in 1 .. SLOTS : IF Slab(new)[s] = NULL THEN data[s] = NULL
                             ELSE Entry(new, Slab(new)[s], s) /\ Found(new, Slab(new)[s], data[s])
    BY <1>1, <1>4, <1>5 DEF Linked
  <2>2. Len(new[1].recs) >= 5 BY <1>2
  <2>3. QED BY <1>1, <1>3, <1>4, <2>1, <2>2 DEF Linked
<1>7. new[1].addr \in Addrs /\ (Len(new) = 2 => new[2].addr = -new[1].addr)
  BY <1>2 DEF Holds, Grown
<1>8. QED BY <1>4, <1>5, <1>6, <1>7 DEF Holds

\* Other pointers in one record: every pointer leads where it did.
LEMMA PtrsLeads ==
  ASSUME NEW pages, Formed(pages), NEW j, NEW m, NEW ptrs, NEW new,
         IsPutPtrs(new, pages, j, m, ptrs), NEW q
  PROVE  /\ Home(new, q) = Home(pages, q) /\ Here(new) = Here(pages)
         /\ Leads(new, q) <=> Leads(pages, q)
         /\ Leads(pages, q) =>
              /\ Lead(new, q).of = Lead(pages, q).of /\ Lead(new, q).key = Lead(pages, q).key
              /\ Lead(new, q).text = Lead(pages, q).text
              /\ Home(pages, q) # j \/ q.rec # m => Lead(new, q) = Lead(pages, q)
<1>1. /\ DOMAIN pages = 1 .. Len(pages) /\ Len(pages) \in {1, 2} /\ DOMAIN new = DOMAIN pages
      /\ Len(new) = Len(pages)
      /\ \A i \in DOMAIN pages : new[i].addr = pages[i].addr /\ DOMAIN new[i].recs = DOMAIN pages[i].recs
  BY FormedIs DEF IsPutPtrs
<1>2. Home(new, q) = Home(pages, q) /\ Home(pages, q) \in DOMAIN pages
  <2>1. Len(pages) = 2 => 2 \in DOMAIN pages BY <1>1
  <2>2. 1 \in DOMAIN pages BY <1>1
  <2>3. QED BY <1>1, <2>1, <2>2 DEF Home
<1>3. Here(new) = Here(pages)
  BY <1>1 DEF Here
<1> DEFINE h == Home(pages, q)
<1>4. /\ Leads(new, q) <=> q.rec \in DOMAIN pages[h].recs
      /\ Leads(pages, q) <=> q.rec \in DOMAIN pages[h].recs
      /\ Lead(new, q) = new[h].recs[q.rec] /\ Lead(pages, q) = pages[h].recs[q.rec]
  BY <1>1, <1>2 DEF Leads, Lead
<1> HIDE DEF h
<1>5. QED BY <1>2, <1>3, <1>4 DEF IsPutPtrs, h

\* A slot is given a pointer to an entry of its own.
LEMMA SlabSet ==
  ASSUME NEW pages, NEW data, Holds(pages, data), NEW slot \in 1 .. SLOTS, NEW text, NEW p,
         p \in [page : Here(pages), rec : Nat], Value(pages, p) \in [page : Here(pages), rec : Nat],
         Entry(pages, p, slot), Found(pages, p, text)
  PROVE  Holds(PutPtrs(pages, 1, 5, Put(Slab(pages), slot, p)), Put(data, slot, text))
<1> DEFINE slab == Slab(pages)
           ptrs == Put(slab, slot, p)
           new == PutPtrs(pages, 1, 5, ptrs)
           data2 == Put(data, slot, text)
<1>1. Laid(pages) /\ Linked(pages, data) /\ Formed(pages)
  BY HoldsLaid DEF Holds, Linked
<1>2. /\ 1 \in DOMAIN pages /\ 3 \in DOMAIN pages[1].recs /\ 5 \in DOMAIN pages[1].recs
      /\ DOMAIN pages = 1 .. Len(pages)
  <2>1. 1 \in DOMAIN pages /\ Len(pages[1].recs) >= 5 /\ DOMAIN pages = 1 .. Len(pages)
    BY <1>1, FormedIs DEF Linked
  <2>2. Len(pages[1].recs) \in Nat /\ DOMAIN pages[1].recs = 1 .. Len(pages[1].recs)
    BY <1>1, <2>1, FormedIs
  <2>3. QED BY <2>1, <2>2
<1>3. /\ DOMAIN ptrs = 1 .. SLOTS /\ ptrs[slot] = p /\ \A s \in 1 .. SLOTS \ {slot} : ptrs[s] = slab[s]
  <2>1. DOMAIN slab = 1 .. SLOTS BY <1>1 DEF Linked
  <2> HIDE DEF slab
  <2>2. QED BY <2>1 DEF Put
<1>4. /\ DOMAIN data2 = 1 .. SLOTS /\ data2[slot] = text
      /\ \A s \in 1 .. SLOTS \ {slot} : data2[s] = data[s]
  BY <1>1 DEF Linked, Put
<1> HIDE DEF ptrs, data2
<1>5. IsPutPtrs(new, pages, 1, 5, ptrs)
  BY <1>1, <1>2, PtrsSet
<1> HIDE DEF new
<1>6. /\ Formed(new) /\ Len(new) = Len(pages) /\ Len(new[1].recs) = Len(pages[1].recs)
      /\ new[1].recs[3].of = "slab" /\ new[1].recs[5].of = "slab" /\ Slab(new) = ptrs
      /\ \A i \in DOMAIN pages : new[i].addr = pages[i].addr
  BY <1>1, <1>2, <1>5 DEF IsPutPtrs, Linked, Slab
<1>7. Here(new) = Here(pages) /\ Here(pages) \subseteq Int
  <2>1. Here(new) = Here(pages) BY <1>1, <1>5, PtrsLeads
  <2>2. ASSUME NEW i \in DOMAIN pages PROVE pages[i].addr \in Int
    <3>1. pages[1].addr \in Nat /\ (Len(pages) = 2 => pages[2].addr = -pages[1].addr)
      BY <1>1 DEF Laid
    <3>2. i = 1 \/ (i = 2 /\ Len(pages) = 2) BY <1>1, <1>2 DEF Formed
    <3>3. QED BY <3>1, <3>2
  <2>3. QED BY <2>1, <2>2 DEF Here
<1>8. ASSUME NEW s, NEW q, NEW t, Entry(pages, q, s), Found(pages, q, t)
      PROVE  Entry(new, q, s) /\ Found(new, q, t) /\ Value(new, q) = Value(pages, q)
  <2>1. Leads(pages, q) /\ Lead(pages, q).of = "hashed"
    BY <1>8 DEF Entry
  <2>2. Home(pages, q) # 1 \/ q.rec # 5
    BY <1>1, <2>1 DEF Lead, Linked
  <2>3. Leads(new, q) /\ Lead(new, q) = Lead(pages, q)
    BY <1>1, <1>5, <2>1, <2>2, PtrsLeads
  <2> DEFINE v == Value(pages, q)
  <2>4. Value(new, q) = v BY <2>3 DEF Value
  <2> HIDE DEF v
  <2>5. Leads(pages, v) /\ Lead(pages, v).text = t BY <1>8 DEF Found, v
  <2>6. Leads(new, v) /\ Lead(new, v).text = t BY <1>1, <1>5, <2>5, PtrsLeads
  <2>7. QED BY <1>8, <2>3, <2>4, <2>6 DEF Entry, Found, v
<1>9. p # NULL
  BY <1>7, SsidAssumption
<1>10. ASSUME NEW s \in 1 .. SLOTS
       PROVE  /\ IF ptrs[s] = NULL THEN data2[s] = NULL
                 ELSE Entry(new, ptrs[s], s) /\ Found(new, ptrs[s], data2[s])
              /\ ptrs[s] # NULL => /\ ptrs[s] \in [page : Addrs \union Here(new), rec : Nat]
                                   /\ Value(new, ptrs[s]) \in [page : Here(new), rec : Nat]
  <2>1. CASE s = slot
    <3>1. ptrs[s] = p /\ data2[s] = text BY <1>3, <1>4, <2>1
    <3>2. Entry(new, p, s) /\ Found(new, p, text) /\ Value(new, p) = Value(pages, p)
      BY <1>8, <2>1
    <3>3. p \in [page : Addrs \union Here(new), rec : Nat] BY <1>7
    <3>4. Value(new, p) \in [page : Here(new), rec : Nat] BY <1>7, <3>2
    <3>5. QED BY <1>9, <3>1, <3>2, <3>3, <3>4
  <2>2. CASE s # slot
    <3>1. ptrs[s] = slab[s] /\ data2[s] = data[s] BY <1>3, <1>4, <2>2
    <3>2. CASE slab[s] = NULL
      <4>1. data[s] = NULL BY <1>1, <3>2 DEF Linked
      <4>2. QED BY <3>1, <3>2, <4>1
    <3>3. CASE slab[s] # NULL
      <4>1. Entry(pages, slab[s], s) /\ Found(pages, slab[s], data[s])
        BY <1>1, <3>3 DEF Linked
      <4>2. /\ slab[s] \in [page : Addrs \union Here(pages), rec : Nat]
            /\ Value(pages, slab[s]) \in [page : Here(pages), rec : Nat]
        BY <3>3 DEF Holds
      <4> HIDE DEF slab
      <4>3. /\ Entry(new, slab[s], s) /\ Found(new, slab[s], data[s])
            /\ Value(new, slab[s]) = Value(pages, slab[s])
        BY <1>8, <4>1
      <4>4. QED BY <1>7, <3>1, <3>3, <4>2, <4>3
    <3>4. QED BY <3>2, <3>3
  <2>3. QED BY <2>1, <2>2
<1>11. Linked(new, data2)
  <2>1. Len(new[1].recs) >= 5 BY <1>1, <1>6 DEF Linked
  <2>2. QED BY <1>3, <1>4, <1>6, <1>10, <2>1 DEF Linked
<1>12. new[1].addr \in Addrs /\ (Len(new) = 2 => new[2].addr = -new[1].addr)
  <2>1. Len(pages) = 2 => 2 \in DOMAIN pages BY <1>2
  <2>2. QED BY <1>2, <1>6, <2>1 DEF Holds
<1>13. Holds(new, data2)
  BY <1>6, <1>10, <1>11, <1>12 DEF Holds
<1>14. QED BY <1>13 DEF new, ptrs, data2

\* An entry is given another value.
LEMMA EntrySet ==
  ASSUME NEW pages, NEW data, Holds(pages, data), NEW slot \in 1 .. SLOTS, NEW text, NEW v,
         Slab(pages)[slot] # NULL, v \in [page : Here(pages), rec : Nat],
         Leads(pages, v), Lead(pages, v).text = text
  PROVE  Holds(PutPtrs(pages, Home(pages, Slab(pages)[slot]), Slab(pages)[slot].rec, <<v>>),
               Put(data, slot, text))
<1> DEFINE slab == Slab(pages)
           e == slab[slot]
           j == Home(pages, e)
           m == e.rec
           new == PutPtrs(pages, j, m, <<v>>)
           data2 == Put(data, slot, text)
<1>1. Laid(pages) /\ Linked(pages, data) /\ Formed(pages)
  BY HoldsLaid DEF Holds, Linked
<1>2. /\ 1 \in DOMAIN pages /\ 3 \in DOMAIN pages[1].recs /\ 5 \in DOMAIN pages[1].recs
      /\ DOMAIN pages = 1 .. Len(pages)
  <2>1. 1 \in DOMAIN pages /\ Len(pages[1].recs) >= 5 /\ DOMAIN pages = 1 .. Len(pages)
    BY <1>1, FormedIs DEF Linked
  <2>2. Len(pages[1].recs) \in Nat /\ DOMAIN pages[1].recs = 1 .. Len(pages[1].recs)
    BY <1>1, <2>1, FormedIs
  <2>3. QED BY <2>1, <2>2
<1>3. Entry(pages, e, slot)
  BY <1>1 DEF Linked
<1>4. /\ DOMAIN data2 = 1 .. SLOTS /\ data2[slot] = text
      /\ \A s \in 1 .. SLOTS \ {slot} : data2[s] = data[s]
  BY <1>1 DEF Linked, Put
<1> HIDE DEF data2
<1>5. /\ j \in DOMAIN pages /\ m \in DOMAIN pages[j].recs /\ Lead(pages, e) = pages[j].recs[m]
      /\ pages[j].recs[m].of = "hashed"
  <2>1. Leads(pages, e) /\ Lead(pages, e).of = "hashed" BY <1>3 DEF Entry
  <2>2. Home(pages, e) \in DOMAIN pages
    <3>1. Len(pages) = 2 => 2 \in DOMAIN pages BY <1>2
    <3>2. QED BY <1>2, <3>1 DEF Home
  <2>3. QED BY <2>1, <2>2 DEF Leads, Lead
<1> HIDE DEF j, m, e
<1>6. IsPutPtrs(new, pages, j, m, <<v>>)
  BY <1>1, <1>5, PtrsSet
<1> HIDE DEF new
<1>7. /\ Formed(new) /\ Len(new) = Len(pages) /\ Len(new[1].recs) = Len(pages[1].recs)
      /\ new[1].recs[3].of = "slab" /\ new[1].recs[5].of = "slab" /\ Slab(new) = slab
      /\ \A i \in DOMAIN pages : new[i].addr = pages[i].addr
  <2>1. j # 1 \/ m # 5 BY <1>1, <1>5 DEF Linked
  <2>2. new[1].recs[5] = pages[1].recs[5] BY <1>2, <1>6, <2>1 DEF IsPutPtrs
  <2>3. new[1].recs[3].of = "slab" BY <1>1, <1>2, <1>6 DEF IsPutPtrs, Linked
  <2>4. pages[1].recs[5].of = "slab" BY <1>1 DEF Linked
  <2>5. QED BY <1>2, <1>6, <2>2, <2>3, <2>4 DEF IsPutPtrs, Slab
<1>8. Here(new) = Here(pages)
  BY <1>1, <1>6, PtrsLeads
<1>9. /\ Entry(new, e, slot) /\ Found(new, e, text) /\ Value(new, e) = v
  <2>1. /\ Leads(new, e) /\ Lead(new, e).of = Lead(pages, e).of
        /\ Lead(new, e).key = Lead(pages, e).key /\ Home(new, e) = Home(pages, e)
    BY <1>1, <1>3, <1>6, PtrsLeads DEF Entry
  <2>2. Lead(new, e) = new[j].recs[m] BY <2>1 DEF Lead, j, m
  <2>3. Lead(new, e).ptrs = <<v>> BY <1>6, <2>2 DEF IsPutPtrs
  <2>4. Value(new, e) = v BY <2>3 DEF Value
  <2>5. DOMAIN Lead(new, e).ptrs = {1} BY <2>3
  <2>6. Leads(new, v) /\ Lead(new, v).text = text BY <1>1, <1>6, PtrsLeads
  <2>7. QED BY <1>3, <2>1, <2>4, <2>5, <2>6 DEF Entry, Found
<1>10. ASSUME NEW s \in 1 .. SLOTS
       PROVE  /\ IF slab[s] = NULL THEN data2[s] = NULL
                 ELSE Entry(new, slab[s], s) /\ Found(new, slab[s], data2[s])
              /\ slab[s] # NULL => /\ slab[s] \in [page : Addrs \union Here(new), rec : Nat]
                                   /\ Value(new, slab[s]) \in [page : Here(new), rec : Nat]
  <2>1. CASE s = slot
    <3>1. slab[s] = e /\ data2[s] = text BY <1>4, <2>1 DEF e
    <3>2. e # NULL /\ e \in [page : Addrs \union Here(new), rec : Nat]
      BY <1>8 DEF Holds, e
    <3>3. QED BY <1>8, <1>9, <2>1, <3>1, <3>2
  <2>2. CASE s # slot
    <3>1. data2[s] = data[s] BY <1>4, <2>2
    <3>2. CASE slab[s] = NULL
      <4>1. data[s] = NULL BY <1>1, <3>2 DEF Linked
      <4>2. QED BY <3>1, <3>2, <4>1
    <3>3. CASE slab[s] # NULL
      <4> DEFINE q == slab[s]
      <4>1. Entry(pages, q, s) /\ Found(pages, q, data[s])
        BY <1>1, <3>3 DEF Linked
      <4>2. /\ q \in [page : Addrs \union Here(pages), rec : Nat]
            /\ Value(pages, q) \in [page : Here(pages), rec : Nat]
        BY <3>3 DEF Holds
      <4> HIDE DEF q
      <4>3. Home(pages, q) # j \/ q.rec # m
        <5>1. SUFFICES ASSUME Home(pages, q) = j, q.rec = m PROVE FALSE
          OBVIOUS
        <5>2. Lead(pages, q) = Lead(pages, e) BY <1>5, <5>1 DEF Lead
        <5>3. Slot[Lead(pages, q).key] = s /\ Slot[Lead(pages, e).key] = slot
          BY <1>3, <4>1 DEF Entry
        <5>4. QED BY <2>2, <5>2, <5>3
      <4>4. Leads(pages, q) BY <4>1 DEF Entry
      <4>5. Leads(new, q) /\ Lead(new, q) = Lead(pages, q)
        BY <1>1, <1>6, <4>3, <4>4, PtrsLeads
      <4> DEFINE w == Value(pages, q)
      <4>6. Value(new, q) = w BY <4>5 DEF Value
      <4> HIDE DEF w
      <4>7. Leads(pages, w) /\ Lead(pages, w).text = data[s] BY <4>1 DEF Found, w
      <4>8. Leads(new, w) /\ Lead(new, w).text = data[s] BY <1>1, <1>6, <4>7, PtrsLeads
      <4>9. Entry(new, q, s) /\ Found(new, q, data[s])
        BY <4>1, <4>5, <4>6, <4>8 DEF Entry, Found
      <4>10. QED BY <1>8, <3>1, <3>3, <4>2, <4>6, <4>9 DEF q, w
    <3>4. QED BY <3>2, <3>3
  <2>3. QED BY <2>1, <2>2
<1>11. Linked(new, data2)
  <2>1. Len(new[1].recs) >= 5 BY <1>1, <1>7 DEF Linked
  <2>2. DOMAIN slab = 1 .. SLOTS BY <1>1 DEF Linked
  <2>3. QED BY <1>4, <1>7, <1>10, <2>1, <2>2 DEF Linked
<1>12. new[1].addr \in Addrs /\ (Len(new) = 2 => new[2].addr = -new[1].addr)
  <2>1. Len(pages) = 2 => 2 \in DOMAIN pages BY <1>2
  <2>2. QED BY <1>2, <1>7, <2>1 DEF Holds
<1>13. Holds(new, data2)
  BY <1>7, <1>10, <1>11, <1>12 DEF Holds
<1>14. QED BY <1>13 DEF new, data2, j, m, e

\* The page of a pointer that is to a page of the arena.
LEMMA PageIs ==
  ASSUME NEW pages, Laid(pages), NEW p, p.page \in Here(pages)
  PROVE  PageOf(pages, p) = Home(pages, p)
<1>1. /\ DOMAIN pages = 1 .. Len(pages) /\ Len(pages) \in {1, 2}
  BY FormedIs DEF Laid
<1>2. pages[1].addr \in Nat \ {0} /\ (Len(pages) = 2 => pages[2].addr = -pages[1].addr)
  BY DEF Laid
<1>3. CASE Len(pages) = 1
  <2>1. \A i \in DOMAIN pages : pages[i].addr = p.page <=> i = 1
    BY <1>1, <1>3 DEF Here
  <2>2. 1 \in DOMAIN pages BY <1>1, <1>3
  <2>3. PageOf(pages, p) = 1 BY <2>1, <2>2 DEF PageOf
  <2>4. QED BY <1>3, <2>3 DEF Home
<1>4. CASE Len(pages) = 2
  <2>1. pages[2].addr # pages[1].addr BY <1>2, <1>4
  <2>2. DOMAIN pages = {1, 2} BY <1>1, <1>4
  <2>3. \E i \in {1, 2} : \A k \in {1, 2} : pages[k].addr = p.page <=> k = i
    BY <2>1, <2>2 DEF Here
  <2>4. PICK i \in {1, 2} : \A k \in {1, 2} : pages[k].addr = p.page <=> k = i
    BY <2>3
  <2>5. PageOf(pages, p) = i BY <2>2, <2>4 DEF PageOf
  <2>6. Home(pages, p) = i BY <1>4, <2>4 DEF Home
  <2>7. QED BY <2>5, <2>6
<1>5. QED BY <1>1, <1>3, <1>4

\* A Table that was just made has nothing in it.
LEMMA MakeHolds ==
  ASSUME NEW addr \in Addrs
  PROVE  Holds(Table_Make(addr), NoTexts)
<1> DEFINE m1 == MemCh_Map(Ptr(addr, 2), Ptr(addr, 4))
           m2 == Span_Map(Ptr(addr, 1), Ptr(addr, 3))
           m3 == Pointers_Map(Ptr(addr, 0))
           m4 == Span_Map(Ptr(addr, 1), Ptr(addr, 5))
           m5 == Pointers_Map(NULL)
           recs == <<m1, m2, m3, m4, m5>>
           page == [addr |-> addr, recs |-> recs]
           pages == <<page>>
           Fields == {"of", "ptrs", "key", "text"}
<1>1. Table_Make(addr) = pages
  BY DEF Table_Make
<1>2. /\ DOMAIN m1 = Fields /\ DOMAIN m2 = Fields /\ DOMAIN m3 = Fields /\ DOMAIN m4 = Fields
      /\ DOMAIN m5 = Fields /\ m3.of = "slab" /\ m5.of = "slab"
      /\ m5.ptrs = [i \in 1 .. SLOTS |-> NULL]
  <2>1. [i \in 1 .. SLOTS |-> IF i = 1 THEN NULL ELSE NULL] = [i \in 1 .. SLOTS |-> NULL]
    OBVIOUS
  <2>2. QED BY <2>1 DEF MemCh_Map, Span_Map, Pointers_Map, Rec
<1> HIDE DEF m1, m2, m3, m4, m5
<1>3. /\ recs = [n \in 1 .. 5 |-> recs[n]] /\ recs[3] = m3 /\ recs[5] = m5
      /\ \A n \in 1 .. 5 : recs[n] \in {m1, m2, m3, m4, m5}
  OBVIOUS
<1> HIDE DEF recs
<1>4. Listed(recs) /\ Len(recs) = 5 /\ DOMAIN recs = 1 .. 5
  BY <1>3, FunctionListed
<1>5. \A n \in DOMAIN recs : DOMAIN recs[n] = {"of", "ptrs", "key", "text"}
  BY <1>2, <1>3, <1>4
<1>6. page.addr = addr /\ page.recs = recs /\ page = [addr |-> page.addr, recs |-> page.recs]
  OBVIOUS
<1> HIDE DEF page
<1>7. pages = [n \in 1 .. 1 |-> pages[n]] /\ pages[1] = page
  OBVIOUS
<1> HIDE DEF pages
<1>8. Listed(pages) /\ Len(pages) = 1 /\ DOMAIN pages = 1 .. 1
  BY <1>7, FunctionListed
<1>9. Formed(pages)
  <2>1. \A i \in DOMAIN pages : pages[i] = page BY <1>7, <1>8
  <2>2. Len(recs) >= 1 BY <1>4
  <2>3. QED BY <1>4, <1>5, <1>6, <1>8, <2>1, <2>2 DEF Formed
<1>10. Slab(pages) = [i \in 1 .. SLOTS |-> NULL]
  BY <1>2, <1>3, <1>6, <1>7 DEF Slab
<1>11. Linked(pages, NoTexts)
  <2>1. Len(pages[1].recs) >= 5 BY <1>4, <1>6, <1>7
  <2>2. pages[1].recs[3].of = "slab" /\ pages[1].recs[5].of = "slab" BY <1>2, <1>3, <1>6, <1>7
  <2>3. QED BY <1>9, <1>10, <2>1, <2>2 DEF Linked, NoTexts
<1>12. Holds(pages, NoTexts)
  <2>1. \A s \in 1 .. SLOTS : Slab(pages)[s] = NULL BY <1>10
  <2>2. pages[1].addr \in Addrs BY <1>6, <1>7
  <2>3. QED BY <1>8, <1>11, <2>1, <2>2 DEF Holds
<1>13. QED BY <1>1, <1>12

\* A text that is put on the arena of a Table is there, and the Table as it was.
LEMMA TextPut ==
  ASSUME NEW pages, NEW data, Holds(pages, data), NEW text, NEW str,
         str = MemCh_AllocOf(pages, Str_Map(text))
  PROVE  /\ Grown(pages, str) /\ Holds(str, data) /\ Slab(str) = Slab(pages) /\ Laid(str)
         /\ Newest(str) \in [page : Here(str), rec : Nat] /\ Leads(str, Newest(str))
         /\ Lead(str, Newest(str)).text = text
<1>1. DOMAIN Str_Map(text) = {"of", "ptrs", "key", "text"} /\ Str_Map(text).text = text
  BY DEF Str_Map, Rec
<1>2. Grown(pages, str) /\ Last(str, Str_Map(text))
  BY <1>1, HoldsLaid, AllocGrown
<1>3. Holds(str, data) /\ Slab(str) = Slab(pages)
  BY <1>2, GrownHolds
<1>4. QED BY <1>1, <1>2, <1>3, HoldsLaid DEF Last

\* A key whose slot was free.
LEMMA AddHolds ==
  ASSUME NEW pages, NEW data, Holds(pages, data), NEW key \in DOMAIN Slot, NEW text
  PROVE  Holds(Table_Add(pages, Slot[key], key, text), Put(data, Slot[key], text))
<1> DEFINE str == MemCh_AllocOf(pages, Str_Map(text))
           v == Newest(str)
           rec == Hashed_Map(key, v)
           hashed == MemCh_AllocOf(str, rec)
           p == Newest(hashed)
           slot == Slot[key]
<1>1. /\ Holds(str, data) /\ Laid(str) /\ v \in [page : Here(str), rec : Nat]
      /\ Leads(str, v) /\ Lead(str, v).text = text
  BY TextPut
<1> HIDE DEF str, v
<1>2. /\ DOMAIN rec = {"of", "ptrs", "key", "text"} /\ rec.of = "hashed" /\ rec.key = key
      /\ rec.ptrs = <<v>>
  BY DEF Hashed_Map, Rec
<1> HIDE DEF rec
<1>3. Grown(str, hashed) /\ Last(hashed, rec)
  BY <1>1, <1>2, AllocGrown
<1> HIDE DEF hashed
<1>4. Holds(hashed, data)
  BY <1>1, <1>3, GrownHolds
<1>5. /\ Leads(hashed, v) /\ Lead(hashed, v).text = text /\ v \in [page : Here(hashed), rec : Nat]
  BY <1>1, <1>3, GrownLeads
<1>6. /\ p \in [page : Here(hashed), rec : Nat] /\ Leads(hashed, p) /\ Lead(hashed, p) = rec
  BY <1>3 DEF Last
<1> HIDE DEF p
<1>7. Value(hashed, p) = v /\ DOMAIN rec.ptrs = {1}
  BY <1>2, <1>6 DEF Value
<1>8. slot \in 1 .. SLOTS
  BY SsidAssumption
<1>9. Entry(hashed, p, slot) /\ Found(hashed, p, text)
  BY <1>2, <1>5, <1>6, <1>7 DEF Entry, Found
<1>10. Holds(PutPtrs(hashed, 1, 5, Put(Slab(hashed), slot, p)), Put(data, slot, text))
  BY <1>4, <1>5, <1>6, <1>7, <1>8, <1>9, SlabSet
<1>11. Table_Add(pages, slot, key, text) = [hashed EXCEPT ![1].recs[5].ptrs[slot] = p]
  BY DEF Table_Add, hashed, p, rec, v, str
<1>12. PutPtrs(hashed, 1, 5, Put(Slab(hashed), slot, p)) = [hashed EXCEPT ![1].recs[5].ptrs[slot] = p]
  BY DEF PutPtrs, Put, Slab
<1>13. QED BY <1>10, <1>11, <1>12

\* A key that was there, and can be looked at.
LEMMA ReplaceHolds ==
  ASSUME NEW pages, NEW data, Holds(pages, data), NEW slot \in 1 .. SLOTS, NEW text,
         Slab(pages)[slot] # NULL, ~Dangling(pages, Slab(pages)[slot])
  PROVE  Holds(Table_Replace(pages, slot, text), Put(data, slot, text))
<1> DEFINE str == MemCh_AllocOf(pages, Str_Map(text))
           v == Newest(str)
           e == Slab(pages)[slot]
<1>1. /\ Grown(pages, str) /\ Holds(str, data) /\ Slab(str) = Slab(pages) /\ Laid(str)
      /\ v \in [page : Here(str), rec : Nat] /\ Leads(str, v) /\ Lead(str, v).text = text
  BY TextPut
<1>2. Table_Replace(pages, slot, text) = PutPtrs(str, PageOf(str, e), e.rec, <<v>>)
  BY DEF Table_Replace, PutPtrs
<1> HIDE DEF str, v
<1>3. e.page \in Here(pages)
  BY DEF Dangling, Here
<1>4. Leads(pages, e)
  BY DEF Holds, Linked, Entry
<1>5. e.page \in Here(str)
  BY <1>1, <1>3, <1>4, HoldsLaid, GrownLeads
<1>6. PageOf(str, e) = Home(str, e)
  BY <1>1, <1>5, PageIs
<1>7. Holds(PutPtrs(str, Home(str, Slab(str)[slot]), Slab(str)[slot].rec, <<v>>), Put(data, slot, text))
  BY <1>1, EntrySet
<1>8. QED BY <1>1, <1>2, <1>6, <1>7

\* What Table_Get finds is what was set, or is on a page that is not there.
LEMMA HeldReads ==
  ASSUME NEW pages, NEW data, Holds(pages, data), NEW s \in 1 .. SLOTS
  PROVE  Contents(pages)[s] \in {data[s], LOST}
<1> DEFINE p == Slab(pages)[s]
           v == Value(pages, p)
<1>1. Laid(pages)
  BY HoldsLaid
<1>2. Contents(pages)[s] = IF p = NULL THEN NULL ELSE Read(pages, p)
  BY DEF Contents
<1>3. CASE p = NULL
  <2>1. data[s] = NULL BY <1>3 DEF Holds, Linked
  <2>2. QED BY <1>2, <1>3, <2>1
<1>4. CASE p # NULL /\ Dangling(pages, p)
  BY <1>2, <1>4 DEF Read
<1>5. CASE p # NULL /\ ~Dangling(pages, p)
  <2>1. p.page \in Here(pages) BY <1>5 DEF Dangling, Here
  <2>2. Found(pages, p, data[s]) /\ v \in [page : Here(pages), rec : Nat]
    BY <1>5 DEF Holds, Linked
  <2> HIDE DEF p
  <2>3. At(pages, p) = Lead(pages, p) BY <1>1, <2>1, PageIs DEF At, Lead
  <2>4. At(pages, p).ptrs[1] = v BY <2>3 DEF Value
  <2> HIDE DEF v
  <2>5. At(pages, v) = Lead(pages, v)
    <3>1. v.page \in Here(pages) BY <2>2
    <3>2. QED BY <1>1, <3>1, PageIs DEF At, Lead
  <2>6. Lead(pages, v).text = data[s] BY <2>2 DEF Found, v
  <2>7. Read(pages, p) = data[s] BY <1>5, <2>4, <2>5, <2>6 DEF Read
  <2>8. QED BY <1>2, <1>5, <2>7
<1>6. QED BY <1>3, <1>4, <1>5
-----------------------------------------------------------------------------
SessionInv == SsidInv /\ Held /\ Imaged /\ Writing

\* What is written first of a session.
LEMMA FreshHolds ==
  ASSUME NEW ua, NEW id, NEW addr \in Addrs
  PROVE  Holds(Fresh(ua, id, addr), FreshData(ua, id))
<1> DEFINE one == Table_Add(Table_Make(addr), Slot["user-agent"], "user-agent", ua)
           data == Put(NoTexts, Slot["user-agent"], ua)
<1>1. {"user-agent", "orig-ssid"} \subseteq DOMAIN Slot
  BY SsidAssumption
<1>2. Holds(Table_Make(addr), NoTexts)
  BY MakeHolds
<1>3. Holds(one, data)
  BY <1>1, <1>2, AddHolds
<1>4. Fresh(ua, id, addr) = Table_Add(one, Slot["orig-ssid"], "orig-ssid", id)
  BY DEF Fresh
<1>5. FreshData(ua, id) = Put(data, Slot["orig-ssid"], id)
  BY DEF FreshData, Put
<1> HIDE DEF one, data
<1>6. Holds(Table_Add(one, Slot["orig-ssid"], "orig-ssid", id), Put(data, Slot["orig-ssid"], id))
  BY <1>1, <1>3, AddHolds
<1>7. QED BY <1>4, <1>5, <1>6

\* What leaves the files and what is written of them.
LEMMA SameFiles ==
  ASSUME SessionInv, UNCHANGED <<dirs, whole>>, Held',
         ssid'.pc \in {"header", "page"} =>
           ssid.pc \in {"header", "page"} /\ ssid'.id = ssid.id /\ ssid'.out = ssid.out
           /\ ssid'.data = ssid.data
  PROVE  (Held /\ Imaged /\ Writing)'
<1>1. Imaged'
  BY DEF SessionInv, Imaged
<1>2. Writing'
  BY DEF SessionInv, Writing
<1>3. QED BY <1>1, <1>2

\* The file is empty, and what will be written is what was there.
LEMMA FlushingHeld ==
  ASSUME SessionInv, NEW id \in DOMAIN dirs, NEW pages, NEW data, Holds(pages, data),
         Flushing(id, pages, data)
  PROVE  (Held /\ Imaged /\ Writing)'
<1> DEFINE mem == Stash_FlushFree(pages)
           out == [checksum |-> mem.checksum, pages |-> mem.pages]
<1>1. /\ dirs' = [dirs EXCEPT ![id].file = NoFile] /\ whole' = [whole EXCEPT ![id] = <<>>]
      /\ \/ mem.failed /\ ssid' = Down /\ handle' = NoHandle
         \/ /\ ~mem.failed
            /\ ssid' = [ssid EXCEPT !.pc = "header", !.id = id, !.data = data, !.out = out]
            /\ handle' = handle \/ handle' = NoHandle
  BY DEF Flushing, Fatal
<1>2. out.pages = mem.pages /\ (~mem.failed => Image(mem.pages, data))
  BY FlushImage
<1> HIDE DEF mem, out
<1>3. /\ DOMAIN ssid = Shape
      /\ \A i \in DOMAIN dirs : DOMAIN dirs[i] = {"parity", "orig", "file"}
  BY DEF SessionInv, SsidInv, SsidTypeOK, Shape
<1> DEFINE r == [dirs[id] EXCEPT !.file = NoFile]
<1>4. r.file = NoFile
  BY <1>3
<1> HIDE DEF r
<1>5. dirs' = [dirs EXCEPT ![id] = r]
  BY <1>1 DEF r
<1>6. /\ DOMAIN dirs' = DOMAIN dirs /\ dirs'[id].file = NoFile
      /\ \A i \in DOMAIN dirs \ {id} : dirs'[i] = dirs[i]
  BY <1>4, <1>5
<1>7. DOMAIN NoFile = {"checksum", "pages"} /\ NoFile.pages = <<>>
  BY DEF NoFile
<1>8. /\ DOMAIN whole' = Ids /\ \A i \in Ids \ {id} : whole'[i] = whole[i]
  BY <1>1 DEF SessionInv, Imaged
<1>9. DOMAIN dirs \subseteq Ids
  BY SsidAssumption DEF SessionInv, SsidInv, SsidTypeOK, Ids
<1>10. Imaged'
  <2>1. ASSUME NEW i \in DOMAIN dirs', dirs'[i].file # NULL
        PROVE  /\ DOMAIN dirs'[i].file = {"checksum", "pages"}
               /\ dirs'[i].file.pages # <<>> => Image(dirs'[i].file.pages, whole'[i])
    <3>1. CASE i = id BY <1>6, <1>7, <3>1
    <3>2. CASE i # id
      <4>1. dirs'[i] = dirs[i] /\ whole'[i] = whole[i] /\ i \in DOMAIN dirs
        BY <1>6, <1>8, <1>9, <2>1, <3>2
      <4>2. QED BY <2>1, <4>1 DEF SessionInv, Imaged
    <3>3. QED BY <3>1, <3>2
  <2>2. Ids' = Ids BY DEF Ids
  <2>3. QED BY <1>8, <2>1, <2>2 DEF Imaged
<1>11. CASE mem.failed /\ ssid' = Down /\ handle' = NoHandle
  <2>1. ssid'.pc = "down" /\ handle'.pages = NULL
    BY <1>3, <1>11 DEF Down, Shape, NoHandle
  <2>2. QED BY <1>10, <2>1 DEF Held, Writing
<1>12. CASE /\ ~mem.failed
            /\ ssid' = [ssid EXCEPT !.pc = "header", !.id = id, !.data = data, !.out = out]
            /\ handle' = handle \/ handle' = NoHandle
  <2>1. ssid'.id = id /\ ssid'.data = data /\ ssid'.out = out
    BY <1>3, <1>12 DEF Shape
  <2>2. Writing'
    BY <1>2, <1>6, <1>7, <1>12, <2>1 DEF Writing
  <2>3. Held'
    BY <1>12 DEF SessionInv, Held, NoHandle
  <2>4. QED BY <1>10, <2>2, <2>3
<1>13. QED BY <1>1, <1>11, <1>12

\* The header and the page of a file.
LEMMA WritingHeld ==
  ASSUME SessionInv, WriteHeader \/ WritePage
  PROVE  (Held /\ Imaged /\ Writing)'
<1> DEFINE id == ssid.id
           file == dirs[id].file
<1>1. /\ DOMAIN ssid = Shape /\ id \in DOMAIN dirs
      /\ \A i \in DOMAIN dirs : DOMAIN dirs[i] = {"parity", "orig", "file"}
      /\ DOMAIN dirs \subseteq Ids /\ DOMAIN whole = Ids
  BY SsidAssumption DEF SessionInv, SsidInv, SsidTypeOK, Shape, Underway, WriteHeader, WritePage, Ids, Imaged
<1>2. /\ Image(ssid.out.pages, ssid.data) /\ DOMAIN file = {"checksum", "pages"} /\ file.pages = <<>>
  BY DEF SessionInv, Writing, WriteHeader, WritePage
<1>3. Held'
  BY DEF SessionInv, Held, WriteHeader, WritePage
<1>4. CASE WriteHeader
  <2> DEFINE file2 == [file EXCEPT !.checksum = ssid.out.checksum]
             r == [dirs[id] EXCEPT !.file = file2]
  <2>1. dirs' = [dirs EXCEPT ![id] = r] /\ whole' = whole /\ ssid' = [ssid EXCEPT !.pc = "page"]
    BY <1>4 DEF WriteHeader
  <2>2. DOMAIN file2 = {"checksum", "pages"} /\ file2.pages = <<>>
    BY <1>2
  <2> HIDE DEF file2
  <2>3. r.file = file2
    BY <1>1
  <2> HIDE DEF r, id, file
  <2>4. /\ DOMAIN dirs' = DOMAIN dirs /\ dirs'[id].file = file2
        /\ \A i \in DOMAIN dirs \ {id} : dirs'[i] = dirs[i]
    BY <1>1, <2>1, <2>3
  <2>5. ASSUME NEW i \in DOMAIN dirs', dirs'[i].file # NULL
        PROVE  /\ DOMAIN dirs'[i].file = {"checksum", "pages"}
               /\ dirs'[i].file.pages # <<>> => Image(dirs'[i].file.pages, whole'[i])
    <3>1. CASE i = id BY <2>2, <2>4, <3>1
    <3>2. CASE i # id
      <4>1. dirs'[i] = dirs[i] /\ whole'[i] = whole[i] /\ i \in DOMAIN dirs
        BY <2>1, <2>4, <2>5, <3>2
      <4>2. QED BY <2>5, <4>1 DEF SessionInv, Imaged
    <3>3. QED BY <3>1, <3>2
  <2>6. Imaged'
    BY <1>1, <2>1, <2>5 DEF Imaged, Ids
  <2>7. ssid'.id = id /\ ssid'.out = ssid.out /\ ssid'.data = ssid.data
    BY <1>1, <2>1 DEF Shape, id
  <2>8. Writing'
    BY <1>2, <2>2, <2>4, <2>7 DEF Writing
  <2>9. QED BY <1>3, <2>6, <2>8
<1>5. CASE WritePage
  <2> DEFINE file2 == [file EXCEPT !.pages = ssid.out.pages]
             r == [dirs[id] EXCEPT !.file = file2]
  <2>1. dirs' = [dirs EXCEPT ![id] = r] /\ whole' = [whole EXCEPT ![id] = ssid.data]
        /\ ssid'.pc = "idle"
    BY <1>1, <1>5 DEF WritePage, Shape
  <2>2. DOMAIN file2 = {"checksum", "pages"} /\ file2.pages = ssid.out.pages
    BY <1>2
  <2> HIDE DEF file2
  <2>3. r.file = file2
    BY <1>1
  <2> HIDE DEF r, id, file
  <2>4. /\ DOMAIN dirs' = DOMAIN dirs /\ dirs'[id].file = file2
        /\ \A i \in DOMAIN dirs \ {id} : dirs'[i] = dirs[i]
        /\ DOMAIN whole' = Ids /\ whole'[id] = ssid.data
        /\ \A i \in DOMAIN dirs \ {id} : whole'[i] = whole[i]
    BY <1>1, <2>1, <2>3
  <2>5. ASSUME NEW i \in DOMAIN dirs', dirs'[i].file # NULL
        PROVE  /\ DOMAIN dirs'[i].file = {"checksum", "pages"}
               /\ dirs'[i].file.pages # <<>> => Image(dirs'[i].file.pages, whole'[i])
    <3>1. CASE i = id BY <1>2, <2>2, <2>4, <3>1
    <3>2. CASE i # id
      <4>1. dirs'[i] = dirs[i] /\ whole'[i] = whole[i] /\ i \in DOMAIN dirs
        BY <2>1, <2>4, <2>5, <3>2
      <4>2. QED BY <2>5, <4>1 DEF SessionInv, Imaged
    <3>3. QED BY <3>1, <3>2
  <2>6. Imaged'
    BY <2>4, <2>5 DEF Imaged, Ids
  <2>7. Writing'
    BY <2>1 DEF Writing
  <2>8. QED BY <1>3, <2>6, <2>7
<1>6. QED BY <1>4, <1>5

\* What is read of a file is what was written of it.
LEMMA OpenHeld ==
  ASSUME SessionInv, NEW id \in Ids, NEW ua, Ssid_Open(id, ua)
  PROVE  Held'
<1>1. PICK addr \in Addrs :
        LET pages == Loaded(id, addr)
        IN  IF pages = NULL THEN Fatal
            ELSE handle' = [pages |-> pages, data |-> whole[id]] /\ UNCHANGED ssid
  BY DEF Ssid_Open
<1> DEFINE pages == Loaded(id, addr)
           file == dirs[id].file
<1>2. CASE pages = NULL
  BY <1>1, <1>2 DEF Fatal, NoHandle, Held
<1>3. CASE pages # NULL
  <2>1. file # NULL /\ pages = Stash_FromStream(file, addr)
    BY <1>3 DEF Loaded
  <2>2. file.pages # <<>>
    BY <1>3, <2>1 DEF Stash_FromStream
  <2>3. id \in DOMAIN dirs
    BY DEF Ssid_Open, HalfParity_Compare
  <2>4. Image(file.pages, whole[id])
    BY <2>1, <2>2, <2>3 DEF SessionInv, Imaged
  <2> HIDE DEF file
  <2>5. Holds(pages, whole[id])
    BY <1>3, <2>1, <2>4, LoadHolds
  <2>6. handle'.pages = pages /\ handle'.data = whole[id]
    BY <1>1, <1>3
  <2> HIDE DEF pages
  <2>7. QED BY <2>5, <2>6 DEF Held
<1>4. QED BY <1>2, <1>3

\* A new name, and the same file.
LEMMA UpdateHeld ==
  ASSUME SessionInv, NEW id \in Ids, NEW ua, Ssid_Update(id, ua)
  PROVE  (Held /\ Imaged /\ Writing)'
<1> DEFINE new == ssid.count + 1
           dir == [dirs[id] EXCEPT !.parity = Parity[ua]]
<1>1. /\ DOMAIN ssid = Shape /\ id \in DOMAIN dirs /\ ssid.pc = "idle"
      /\ \A i \in DOMAIN dirs : DOMAIN dirs[i] = {"parity", "orig", "file"}
      /\ DOMAIN dirs \subseteq Ids /\ DOMAIN whole = Ids
      /\ new \in Ids /\ new \notin DOMAIN dirs
  BY SsidAssumption DEF SessionInv, SsidInv, SsidTypeOK, Shape, Ssid_Update, HalfParity_Compare,
     Ids, Imaged
<1>2. CASE Fatal /\ UNCHANGED <<dirs, whole>>
  <2>1. Held' BY <1>2 DEF Fatal, NoHandle, Held
  <2>2. ssid'.pc = "down" BY <1>1, <1>2 DEF Fatal, Down, Shape
  <2>3. QED BY <1>2, <2>1, <2>2, SameFiles
<1>3. CASE /\ dirs' = Renamed(id, new, dir)
           /\ whole' = [whole EXCEPT ![id] = <<>>, ![new] = whole[id]]
           /\ ssid' = [ssid EXCEPT !.count = new]
           /\ UNCHANGED handle
  <2>1. dir.file = dirs[id].file BY <1>1
  <2> HIDE DEF new, dir
  <2>2. ssid'.pc = "idle" BY <1>1, <1>3 DEF Shape
  <2>3. /\ DOMAIN dirs' = (DOMAIN dirs \ {id}) \union {new} /\ dirs'[new] = dir
        /\ \A i \in DOMAIN dirs \ {id} : dirs'[i] = dirs[i]
    BY <1>1, <1>3 DEF Renamed
  <2>4. /\ DOMAIN whole' = Ids /\ whole'[new] = whole[id]
        /\ \A i \in DOMAIN dirs \ {id} : whole'[i] = whole[i]
    BY <1>1, <1>3
  <2>5. ASSUME NEW i \in DOMAIN dirs', dirs'[i].file # NULL
        PROVE  /\ DOMAIN dirs'[i].file = {"checksum", "pages"}
               /\ dirs'[i].file.pages # <<>> => Image(dirs'[i].file.pages, whole'[i])
    <3>1. CASE i = new
      <4>1. dirs'[i].file = dirs[id].file /\ whole'[i] = whole[id] BY <2>1, <2>3, <2>4, <3>1
      <4>2. QED BY <1>1, <2>5, <4>1 DEF SessionInv, Imaged
    <3>2. CASE i # new
      <4>1. dirs'[i] = dirs[i] /\ whole'[i] = whole[i] /\ i \in DOMAIN dirs
        BY <2>3, <2>4, <2>5, <3>2
      <4>2. QED BY <2>5, <4>1 DEF SessionInv, Imaged
    <3>3. QED BY <3>1, <3>2
  <2>6. Imaged' BY <2>4, <2>5 DEF Imaged, Ids
  <2>7. Held' /\ Writing' BY <1>3, <2>2 DEF SessionInv, Held, Writing
  <2>8. QED BY <2>6, <2>7
<1>4. QED BY <1>2, <1>3 DEF Ssid_Update

\* A directory without a file is made, or is left of one, or goes.
LEMMA NamesHeld ==
  ASSUME SessionInv,
         \/ \E ua \in Agents : Ssid_Start(ua)
         \/ \E id \in Ids, ua \in Agents : Ssid_Destroy(id, ua)
         \/ Dir_Rm
  PROVE  (Held /\ Imaged /\ Writing)'
<1>1. /\ DOMAIN ssid = Shape
      /\ \A i \in DOMAIN dirs : DOMAIN dirs[i] = {"parity", "orig", "file"}
      /\ DOMAIN dirs \subseteq Ids /\ DOMAIN whole = Ids
  BY SsidAssumption DEF SessionInv, SsidInv, SsidTypeOK, Shape, Ids, Imaged
<1>2. /\ handle' = handle /\ ssid'.pc \notin {"header", "page"}
      /\ DOMAIN whole' = Ids
      /\ \A i \in DOMAIN dirs' :
           \/ dirs'[i].file = NULL
           \/ i \in DOMAIN dirs /\ dirs'[i] = dirs[i] /\ whole'[i] = whole[i]
  <2>1. ASSUME NEW ua \in Agents, Ssid_Start(ua) PROVE <1>2!:
    <3>1. ssid'.pc = "open" /\ handle' = handle /\ whole' = whole
      BY <1>1, <2>1 DEF Ssid_Start, Shape
    <3> DEFINE id == ssid.count + 1
    <3>2. dirs' = [i \in DOMAIN dirs \union {id} |->
                     IF i = id THEN [parity |-> Parity[ua], orig |-> id, file |-> NULL] ELSE dirs[i]]
      BY <2>1 DEF Ssid_Start, With
    <3> HIDE DEF id
    <3>3. QED BY <1>1, <3>1, <3>2
  <2>2. ASSUME NEW id \in Ids, NEW ua \in Agents, Ssid_Destroy(id, ua) PROVE <1>2!:
    <3>1. ssid'.pc = "remove" /\ handle' = handle /\ whole' = [whole EXCEPT ![id] = <<>>]
      BY <1>1, <2>2 DEF Ssid_Destroy, Shape
    <3> DEFINE r == [dirs[id] EXCEPT !.file = NULL]
    <3>2. dirs' = [dirs EXCEPT ![id] = r] /\ id \in DOMAIN dirs
      BY <2>2 DEF Ssid_Destroy, HalfParity_Compare
    <3>3. r.file = NULL BY <1>1, <3>2
    <3> HIDE DEF r
    <3>4. QED BY <1>1, <3>1, <3>2, <3>3
  <2>3. ASSUME Dir_Rm PROVE <1>2!:
    <3>1. ssid'.pc = "idle" /\ handle' = handle /\ whole' = whole
      BY <1>1, <2>3 DEF Dir_Rm, Shape
    <3>2. dirs' = [i \in DOMAIN dirs \ {ssid.id} |-> dirs[i]]
      BY <2>3 DEF Dir_Rm, Without
    <3>3. QED BY <1>1, <3>1, <3>2
  <2>4. QED BY <2>1, <2>2, <2>3
<1>3. ASSUME NEW i \in DOMAIN dirs', dirs'[i].file # NULL
      PROVE  /\ DOMAIN dirs'[i].file = {"checksum", "pages"}
             /\ dirs'[i].file.pages # <<>> => Image(dirs'[i].file.pages, whole'[i])
  <2>1. i \in DOMAIN dirs /\ dirs'[i] = dirs[i] /\ whole'[i] = whole[i] BY <1>2, <1>3
  <2>2. QED BY <1>3, <2>1 DEF SessionInv, Imaged
<1>4. Imaged' BY <1>2, <1>3 DEF Imaged, Ids
<1>5. Held' /\ Writing' BY <1>2 DEF SessionInv, Held, Writing
<1>6. QED BY <1>4, <1>5

\* What a client sets is what it should find.
LEMMA SetHeld ==
  ASSUME SessionInv, NEW key \in DOMAIN Slot, NEW text, Table_Set(key, text)
  PROVE  Held'
<1> DEFINE slot == Slot[key]
           old == Slab(handle.pages)[slot]
           add == Table_Add(handle.pages, slot, key, text)
           replace == Table_Replace(handle.pages, slot, text)
           data2 == Put(handle.data, slot, text)
<1>1. Holds(handle.pages, handle.data) /\ slot \in 1 .. SLOTS
  BY SsidAssumption DEF SessionInv, Held, Table_Set
<1>2. CASE Fatal
  BY <1>2 DEF Fatal, NoHandle, Held
<1>3. CASE /\ ~(old # NULL /\ Dangling(handle.pages, old))
           /\ handle' = [pages |-> IF old = NULL THEN add ELSE replace,
                         data |-> [handle.data EXCEPT ![slot] = text]]
  <2>1. handle'.data = data2 /\ handle'.pages = IF old = NULL THEN add ELSE replace
    BY <1>3 DEF Put
  <2>2. Holds(add, data2) BY <1>1, AddHolds
  <2>3. old # NULL => Holds(replace, data2) BY <1>1, <1>3, ReplaceHolds
  <2> HIDE DEF data2, add, replace, old
  <2>4. QED BY <2>1, <2>2, <2>3 DEF Held
<1>4. QED BY <1>2, <1>3 DEF Table_Set

\* At first there is nothing.
LEMMA SessionInitInv == SsidInit => SessionInv
<1> SUFFICES ASSUME SsidInit PROVE SessionInv
  OBVIOUS
<1>1. handle.pages = NULL /\ ssid.pc = "idle" /\ DOMAIN dirs = {} /\ DOMAIN whole = Ids
  BY DEF SsidInit, NoHandle
<1>2. QED BY <1>1, SsidInitInv DEF SessionInv, Held, Imaged, Writing

\* Each operation keeps what is in the files and what the client has.
LEMMA SessionStepInv == SessionInv /\ [SsidNext]_svars => SessionInv'
<1> SUFFICES ASSUME SessionInv, [SsidNext]_svars PROVE (Held /\ Imaged /\ Writing)'
  BY SsidStepInv DEF SessionInv
<1>0. DOMAIN ssid = Shape /\ Held
  BY DEF SessionInv, SsidInv, SsidTypeOK, Shape
<1>1. CASE UNCHANGED svars
  <2>1. Held' BY <1>0, <1>1 DEF svars, Held
  <2>2. QED BY <1>1, <2>1, SameFiles DEF svars
<1>2. ASSUME NEW ua \in Agents, Ssid_Start(ua) PROVE (Held /\ Imaged /\ Writing)'
  BY <1>2, NamesHeld
<1>3. ASSUME NEW ua \in Agents, NEW id \in Ids, Ssid_Open(id, ua)
      PROVE  (Held /\ Imaged /\ Writing)'
  <2>1. UNCHANGED <<dirs, whole>> /\ (ssid' = Down \/ ssid' = ssid)
    BY <1>3 DEF Ssid_Open, Fatal
  <2>2. ssid' = Down => ssid'.pc = "down" BY <1>0 DEF Down, Shape
  <2>3. Held' BY <1>3, OpenHeld
  <2>4. QED BY <2>1, <2>2, <2>3, SameFiles
<1>4. ASSUME NEW ua \in Agents, NEW id \in Ids, Ssid_Close(id, ua)
      PROVE  (Held /\ Imaged /\ Writing)'
  <2>1. /\ id \in DOMAIN dirs /\ Holds(handle.pages, handle.data)
        /\ Flushing(id, handle.pages, handle.data)
    BY <1>0, <1>4 DEF Ssid_Close, HalfParity_Compare, Held
  <2>2. QED BY <2>1, FlushingHeld
<1>5. ASSUME NEW ua \in Agents, NEW id \in Ids, Ssid_Update(id, ua)
      PROVE  (Held /\ Imaged /\ Writing)'
  BY <1>5, UpdateHeld
<1>6. ASSUME NEW ua \in Agents, NEW id \in Ids, Ssid_Destroy(id, ua)
      PROVE  (Held /\ Imaged /\ Writing)'
  BY <1>6, NamesHeld
<1>7. ASSUME StashTable PROVE (Held /\ Imaged /\ Writing)'
  <2>1. PICK addr \in Addrs :
          Flushing(ssid.id, Fresh(ssid.agent, ssid.id, addr), FreshData(ssid.agent, ssid.id))
    BY <1>7 DEF StashTable
  <2>2. ssid.id \in DOMAIN dirs
    BY <1>7 DEF StashTable, SessionInv, SsidInv, Underway
  <2>3. QED BY <2>1, <2>2, FreshHolds, FlushingHeld
<1>8. ASSUME WriteHeader \/ WritePage PROVE (Held /\ Imaged /\ Writing)'
  BY <1>8, WritingHeld
<1>9. ASSUME Dir_Rm PROVE (Held /\ Imaged /\ Writing)'
  BY <1>9, NamesHeld
<1>10. ASSUME NEW key \in DOMAIN Slot, NEW text, Table_Set(key, text)
       PROVE  (Held /\ Imaged /\ Writing)'
  <2>1. Held' BY <1>10, SetHeld
  <2>2. UNCHANGED <<dirs, whole>> /\ (ssid' = Down \/ ssid' = [ssid EXCEPT !.sets = @ + 1])
    BY <1>10 DEF Table_Set, Fatal
  <2>3. ssid' = Down => ssid'.pc = "down" BY <1>0 DEF Down, Shape
  <2>4. ssid' = [ssid EXCEPT !.sets = @ + 1] => ssid'.pc = ssid.pc /\ ssid.pc = "idle"
    BY <1>0, <1>10 DEF Shape, Table_Set
  <2>5. ssid'.pc \notin {"header", "page"}
    BY <2>2, <2>3, <2>4
  <2>6. QED BY <2>1, <2>2, <2>5, SameFiles
<1>11. ASSUME Client_Make PROVE (Held /\ Imaged /\ Writing)'
  <2>1. PICK addr \in Addrs : handle' = [pages |-> Table_Make(addr), data |-> NoTexts]
    BY <1>11 DEF Client_Make
  <2>2. Held' BY <2>1, MakeHolds DEF Held
  <2>3. QED BY <1>11, <2>2, SameFiles DEF Client_Make
<1>12. ASSUME Client_Drop PROVE (Held /\ Imaged /\ Writing)'
  <2>1. Held' BY <1>12 DEF Client_Drop, NoHandle, Held
  <2>2. QED BY <1>12, <2>1, SameFiles DEF Client_Drop
<1>13. ASSUME SsidStop PROVE (Held /\ Imaged /\ Writing)'
  <2>1. Held' BY <1>13 DEF SsidStop, NoHandle, Held
  <2>2. ssid'.pc = "down" BY <1>0, <1>13 DEF SsidStop, Down, Shape
  <2>3. QED BY <1>13, <2>1, <2>2, SameFiles DEF SsidStop
<1>14. ASSUME SsidRestart PROVE (Held /\ Imaged /\ Writing)'
  <2>1. Held' BY <1>0, <1>14 DEF SsidRestart, Held
  <2>2. ssid'.pc = "idle" BY <1>0, <1>14 DEF SsidRestart, Shape
  <2>3. QED BY <1>14, <2>1, <2>2, SameFiles DEF SsidRestart
<1>15. QED
  BY <1>1, <1>2, <1>3, <1>4, <1>5, <1>6, <1>7, <1>8, <1>9, <1>10, <1>11, <1>12,
     <1>13, <1>14 DEF SsidNext

(* The files of the sessions and the Table of a client are what was last   *)
(* written to the end and what was set (stash.c, ssid.c): every pointer of *)
(* a slot leads to the entry of its key, and that to its text.             *)
THEOREM SsidSessions == SsidSpec => []SessionInv
<1>1. QED BY SessionInitInv, SessionStepInv, PTL DEF SsidSpec

(* What a client finds in a session that it opened is what was last        *)
(* written for it to the end, or cannot be read, at whatever addresses the *)
(* pages were and are, and wherever the process stopped.                   *)
THEOREM SsidOpenedIsClosed == SsidSpec => []OpenedIsClosed
<1>1. SessionInv => OpenedIsClosed
  <2> SUFFICES ASSUME SessionInv, handle.pages # NULL
               PROVE  /\ handle.data # <<>>
                      /\ \A s \in 1 .. SLOTS : Contents(handle.pages)[s] \in {handle.data[s], LOST}
    BY DEF OpenedIsClosed
  <2>1. Holds(handle.pages, handle.data)
    BY DEF SessionInv, Held
  <2>2. handle.data # <<>>
    <3>1. Slot["user-agent"] \in 1 .. SLOTS BY SsidAssumption
    <3>2. DOMAIN handle.data = 1 .. SLOTS BY <2>1 DEF Holds, Linked
    <3>3. 1 .. SLOTS # {} BY <3>1
    <3>4. DOMAIN << >> = {}
      <4>1. << >> \in [1 .. Len(<< >>) -> {}] /\ Len(<< >>) = 0 BY EmptySeq, LenProperties
      <4>2. QED BY <4>1
    <3>5. QED BY ONLY <3>2, <3>3, <3>4
  <2>3. QED BY <2>1, <2>2, HeldReads
<1>2. QED BY <1>1, SsidSessions, PTL
-----------------------------------------------------------------------------
(* Logins.  Where the one that the process has stands: what the steps      *)
(* still to be made rely on having been done by those before.              *)
Dir == logins[lg.uid]

Written(j) ==
  lg.vals[Props[j]] # NONE => Dir.files[Props[j]] = lg.vals[Props[j]]

Placed ==
  /\ lg.pc \notin {"none", "down"} => lg.uid \in Uids
  /\ lg.pc \in {"persist", "write", "unlink"} => lg.at > 0
  /\ lg.pc \in {"create", "persist", "write"} => Dir # NONE

(* A persist has written the properties before the one it is at, and is    *)
(* writing none that was persisted before.                                 *)
Persisting ==
  /\ lg.pc = "persist" => \A j \in 1 .. lg.at - 1 : Written(j)
  /\ lg.pc = "write" =>
       /\ \A j \in 1 .. lg.at - 1 : Written(j)
       /\ kept[lg.uid] # NONE => kept[lg.uid][Props[lg.at]] = NONE

(* A login that is being destroyed is not kept, and what it has left goes  *)
(* in order: the files, the credentials, the directory.                    *)
Destroying ==
  /\ lg.pc \in {"unlink", "rmauth", "rmdir"} => kept[lg.uid] = NONE
  /\ lg.pc = "unlink" /\ Dir # NONE =>
       \A j \in 1 .. lg.at - 1 : Dir.files[Props[j]] = NONE
  /\ lg.pc \in {"rmauth", "rmdir"} /\ Dir # NONE => Dir.files = NoProps
  /\ lg.pc = "rmdir" /\ Dir # NONE => ~Dir.auth

LoginInv == LoginTypeOK /\ Placed /\ Persisting /\ Destroying /\ PersistedStays
-----------------------------------------------------------------------------
(* The seel has the path and the uid, and nothing but what it names.       *)
LEMMA PropNames ==
  /\ Len(Props) \in Nat /\ Len(Props) > 1
  /\ \A i \in 1 .. Len(Props) : Props[i] \in PropSet
  /\ \A p \in PropSet : \E i \in 1 .. Len(Props) : p = Props[i]
BY LoginAssumption DEF PropSet

\* An opened Login has text or nothing for every property; so has one without any.
LEMMA OpenedType ==
  /\ NoProps \in [PropSet -> Content \union {NONE}]
  /\ \A uid \in Uids : Opened(uid) \in [PropSet -> Content \union {NONE}]
<1>1. NoProps \in [PropSet -> Content \union {NONE}]
  BY DEF NoProps
<1>2. ASSUME NEW uid \in Uids
      PROVE  Opened(uid) \in [PropSet -> Content \union {NONE}]
  <2>1. "path" \in Content /\ uid \in Content
    BY DEF Content
  <2>2. QED BY <1>1, <2>1 DEF Opened
<1>3. QED BY <1>1, <1>2

\* A call to the system changes what one directory is, and no other.
LEMMA DirectorySet ==
  ASSUME NEW d \in [Uids -> Directory \union {NONE}], NEW u \in Uids,
         NEW r \in Directory, NEW e, e = [d EXCEPT ![u] = r]
  PROVE  /\ e \in [Uids -> Directory \union {NONE}]
         /\ e[u] = r /\ r # NONE
         /\ \A v \in Uids : v # u => e[v] = d[v]
BY LoginAssumption

-----------------------------------------------------------------------------
\* The process starts without a Login, and no uid is taken.
LEMMA LoginInitInv == LoginInit => LoginInv
<1> SUFFICES ASSUME LoginInit PROVE LoginInv
  OBVIOUS
<1>1. LoginTypeOK
  BY OpenedType, LoginAssumption, PropNames DEF LoginInit, LoginTypeOK
<1>2. Placed /\ Persisting /\ Destroying /\ PersistedStays
  BY DEF LoginInit, Placed, Persisting, Destroying, PersistedStays
<1>3. QED BY <1>1, <1>2 DEF LoginInv

\* Refreshing gives every property a text or nothing.
LEMMA RefreshedType ==
  ASSUME LoginTypeOK, NEW uid \in Uids, logins[uid] # NONE,
         NEW vals \in [PropSet -> Content \union {NONE}]
  PROVE  Refreshed(uid, vals) \in [PropSet -> Content \union {NONE}]
<1>1. logins[uid].files \in [PropSet -> Content \union {NONE}]
  BY DEF LoginTypeOK, Directory
<1>2. QED BY <1>1 DEF Refreshed

(* A step of the process that leaves the directories and what is kept as   *)
(* they are, for a Login that is idle, dropped or stopped afterwards.      *)
LEMMA RestInv ==
  ASSUME LoginInv, UNCHANGED <<logins, kept>>, LoginTypeOK',
         lg'.pc \in {"none", "idle", "down"}, lg'.pc = "idle" => lg'.uid \in Uids
  PROVE  LoginInv'
<1>1. Placed'
  BY DEF Placed
<1>2. Persisting' /\ Destroying'
  BY DEF Persisting, Destroying
<1>3. PersistedStays'
  BY DEF LoginInv, PersistedStays
<1>4. QED BY <1>1, <1>2, <1>3 DEF LoginInv

\* A new login is empty, and nothing was kept where there was no directory.
LEMMA CreateInv ==
  ASSUME LoginInv, NEW uid \in Uids, Login_Create(uid)
  PROVE  LoginInv'
<1> USE DEF LoginInv
<1> DEFINE r == [auth |-> FALSE, files |-> NoProps]
<1>1. r \in Directory
  BY OpenedType DEF Directory
<1>2. r # NONE
  BY <1>1, LoginAssumption
<1>3. logins' = [logins EXCEPT ![uid] = r] /\ logins[uid] = NONE
  BY DEF Login_Create
<1> HIDE DEF r
<1>4. LoginTypeOK'
  <2>1. logins' \in [Uids -> Directory \union {NONE}]
    BY <1>1, <1>3 DEF LoginTypeOK
  <2>2. QED BY <2>1 DEF Login_Create, LoginTypeOK
<1>5. Placed'
  BY <1>2, <1>3 DEF Login_Create, LoginTypeOK, Placed, Dir
<1>6. Persisting' /\ Destroying'
  BY DEF Login_Create, LoginTypeOK, Persisting, Destroying
<1>7. PersistedStays'
  BY <1>3 DEF Login_Create, LoginTypeOK, PersistedStays
<1>8. QED BY <1>4, <1>5, <1>6, <1>7

\* The credentials' directory follows; no file is touched.
LEMMA CreateAuthInv ==
  ASSUME LoginInv, CreateAuth
  PROVE  LoginInv'
<1> USE DEF LoginInv
<1>1. lg.uid \in Uids /\ logins[lg.uid] # NONE
  BY DEF CreateAuth, Placed, Dir
<1>2. /\ logins' \in [Uids -> Directory \union {NONE}]
      /\ logins'[lg.uid] # NONE /\ logins'[lg.uid].files = logins[lg.uid].files
      /\ \A v \in Uids : v # lg.uid => logins'[v] = logins[v]
  <2>1. logins \in [Uids -> Directory \union {NONE}]
    BY DEF LoginTypeOK
  <2> DEFINE r == [logins[lg.uid] EXCEPT !.auth = TRUE]
  <2>2. logins[lg.uid] \in Directory
    BY <1>1, <2>1
  <2>3. r \in Directory /\ r.files = logins[lg.uid].files
    BY <2>2 DEF Directory
  <2>4. logins' = [logins EXCEPT ![lg.uid] = r]
    BY DEF CreateAuth
  <2> HIDE DEF r
  <2>5. QED BY <1>1, <2>1, <2>3, <2>4, DirectorySet
<1>3. Refreshed(lg.uid, Opened(lg.uid)) \in [PropSet -> Content \union {NONE}]
  BY <1>1, OpenedType, RefreshedType
<1>4. LoginTypeOK'
  BY <1>2, <1>3 DEF CreateAuth, LoginTypeOK
<1>5. Placed' /\ Persisting' /\ Destroying'
  BY <1>1 DEF CreateAuth, LoginTypeOK, Placed, Persisting, Destroying
<1>6. PersistedStays'
  BY <1>2 DEF CreateAuth, PersistedStays
<1>7. QED BY <1>4, <1>5, <1>6

\* Opening, refreshing, setting a property, dropping, stopping and starting again.
LEMMA ClientInv ==
  ASSUME LoginInv,
         \/ \E uid \in Uids : Login_Open(uid)
         \/ \E i \in 3 .. Len(Props), v \in Values : Seel_Set(Props[i], v)
         \/ Login_Refresh \/ Drop \/ LoginStop \/ LoginRestart
  PROVE  LoginInv'
<1> USE DEF LoginInv
<1>1. CASE \E uid \in Uids : Login_Open(uid)
  <2> PICK uid \in Uids : Login_Open(uid)
    BY <1>1
  <2>1. LoginTypeOK'
    BY OpenedType, PropNames DEF Login_Open, Login_At, LoginTypeOK
  <2>2. QED BY <2>1, RestInv DEF Login_Open, Login_At
<1>2. CASE \E i \in 3 .. Len(Props), v \in Values : Seel_Set(Props[i], v)
  <2> PICK i \in 3 .. Len(Props), v \in Values : Seel_Set(Props[i], v)
    BY <1>2
  <2>0. i \in 1 .. Len(Props)
    BY PropNames
  <2>1. Props[i] \in PropSet /\ v \in Content
    BY <2>0, PropNames DEF Content
  <2>2. LoginTypeOK' /\ lg'.pc = "idle" /\ lg'.uid = lg.uid
    BY <2>1 DEF Seel_Set, LoginTypeOK
  <2>3. QED BY <2>2, RestInv DEF Seel_Set, Placed
<1>3. CASE Login_Refresh
  <2>1. lg.uid \in Uids /\ logins[lg.uid] # NONE
    BY <1>3 DEF Login_Refresh, Placed
  <2>2. Refreshed(lg.uid, lg.vals) \in [PropSet -> Content \union {NONE}]
    BY <2>1, RefreshedType DEF LoginTypeOK
  <2>3. LoginTypeOK' /\ lg'.pc = "idle" /\ lg'.uid = lg.uid
    BY <1>3, <2>2 DEF Login_Refresh, LoginTypeOK
  <2>4. QED BY <1>3, <2>1, <2>3, RestInv DEF Login_Refresh
<1>4. CASE Drop
  <2>1. LoginTypeOK' /\ lg'.pc = "none"
    BY <1>4, OpenedType, PropNames DEF Drop, Login_At, LoginTypeOK
  <2>2. QED BY <1>4, <2>1, RestInv DEF Drop
<1>5. CASE LoginStop
  <2>1. LoginTypeOK' /\ lg'.pc = "down"
    BY <1>5, OpenedType, PropNames, LoginAssumption DEF LoginStop, Login_At, LoginTypeOK
  <2>2. QED BY <1>5, <2>1, RestInv DEF LoginStop
<1>6. CASE LoginRestart
  <2>1. LoginTypeOK' /\ lg'.pc = "none"
    BY <1>6 DEF LoginRestart, LoginTypeOK
  <2>2. QED BY <1>6, <2>1, RestInv DEF LoginRestart
<1>7. QED BY <1>1, <1>2, <1>3, <1>4, <1>5, <1>6

\* Persisting starts with the first property, destroying with the first file.
LEMMA StartInv ==
  ASSUME LoginInv, Login_Persist \/ Login_Destroy
  PROVE  LoginInv'
<1> USE DEF LoginInv
<1>1. lg.uid \in Uids /\ 1 \in 0 .. Len(Props)
  BY PropNames DEF Login_Persist, Login_Destroy, Placed
<1>2. CASE Login_Persist
  <2>1. CASE Dir = NONE
    <3>1. LoginTypeOK' /\ lg'.pc = "idle" /\ lg'.uid = lg.uid
      BY <1>2, <2>1 DEF Login_Persist, LoginTypeOK, Dir
    <3>2. QED BY <1>1, <1>2, <3>1, RestInv DEF Login_Persist
  <2>2. CASE Dir # NONE
    <3>1. LoginTypeOK' /\ lg'.pc = "persist" /\ lg'.uid = lg.uid /\ lg'.at = 1
      BY <1>1, <1>2, <2>2 DEF Login_Persist, Step, LoginTypeOK, Dir
    <3>2. Placed' /\ Persisting' /\ Destroying'
      BY <1>1, <1>2, <2>2, <3>1 DEF Login_Persist, Placed, Persisting, Destroying, Dir
    <3>3. PersistedStays'
      BY <1>2 DEF Login_Persist, PersistedStays
    <3>4. QED BY <3>1, <3>2, <3>3
  <2>3. QED BY <2>1, <2>2
<1>3. CASE Login_Destroy
  <2>1. LoginTypeOK' /\ lg'.pc = "unlink" /\ lg'.uid = lg.uid /\ lg'.at = 1
    BY <1>1, <1>3 DEF Login_Destroy, Step, LoginTypeOK
  <2>2. kept' = [kept EXCEPT ![lg.uid] = NONE] /\ logins' = logins
    BY <1>3 DEF Login_Destroy
  <2>3. Placed' /\ Persisting' /\ Destroying'
    BY <1>1, <2>1, <2>2 DEF Placed, Persisting, Destroying, LoginTypeOK
  <2>4. PersistedStays'
    BY <1>1, <2>2 DEF PersistedStays, LoginTypeOK
  <2>5. QED BY <2>1, <2>3, <2>4
<1>4. QED BY <1>2, <1>3

(* The end of a property, written or without a value: with the last one    *)
(* everything the Login has is in the files, and is kept.                  *)
LEMMA NextPropInv ==
  ASSUME LoginInv, lg.pc \in {"persist", "write"}, Next_Prop, Kept, LoginTypeOK',
         Dir' # NONE, \A v \in Uids : v # lg.uid => logins'[v] = logins[v],
         \A j \in 1 .. lg.at :
           lg.vals[Props[j]] # NONE => logins'[lg.uid].files[Props[j]] = lg.vals[Props[j]],
         kept[lg.uid] # NONE =>
           \A p \in PropSet : kept[lg.uid][p] # NONE =>
                                logins'[lg.uid].files[p] = kept[lg.uid][p]
  PROVE  LoginInv'
<1> USE DEF LoginInv
<1>1. lg.uid \in Uids /\ lg.at \in 1 .. Len(Props) /\ Len(Props) \in Nat
  BY PropNames DEF Placed, LoginTypeOK
<1>2. CASE lg.at = Len(Props)
  <2>1. lg'.pc = "idle" /\ lg'.uid = lg.uid /\ kept' = [kept EXCEPT ![lg.uid] = lg.vals]
    BY <1>2 DEF Next_Prop, Step, Kept, LoginTypeOK
  <2>2. Placed' /\ Persisting' /\ Destroying'
    BY <1>1, <2>1 DEF Placed, Persisting, Destroying
  <2>3. \A p \in PropSet : lg.vals[p] # NONE => logins'[lg.uid].files[p] = lg.vals[p]
    BY <1>2, PropNames
  <2>4. kept'[lg.uid] = lg.vals /\ \A v \in Uids : v # lg.uid => kept'[v] = kept[v]
    BY <1>1, <2>1 DEF LoginTypeOK
  <2>5. PersistedStays'
    BY <1>1, <2>1, <2>3, <2>4 DEF PersistedStays, Dir
  <2>6. QED BY <2>2, <2>5
<1>3. CASE lg.at # Len(Props)
  <2>1. /\ lg'.pc = "persist" /\ lg'.uid = lg.uid /\ lg'.vals = lg.vals
        /\ lg'.at = lg.at + 1 /\ kept' = kept
    BY <1>3 DEF Next_Prop, Step, Kept, LoginTypeOK
  <2>2. Placed' /\ Destroying'
    BY <1>1, <2>1 DEF Placed, Destroying, Dir
  <2>3. Persisting'
    BY <1>1, <2>1 DEF Persisting, Written, Dir
  <2>4. PersistedStays'
    BY <1>1, <2>1 DEF PersistedStays, Dir
  <2>5. QED BY <2>2, <2>3, <2>4
<1>4. QED BY <1>2, <1>3

\* What Next_Prop and Kept make of the Login and of what is kept.
LEMMA NextPropType ==
  ASSUME LoginTypeOK, lg.uid \in Uids, Next_Prop, Kept,
         logins' \in [Uids -> Directory \union {NONE}]
  PROVE  LoginTypeOK' /\ lg'.uid = lg.uid
<1>1. Len(Props) \in Nat /\ lg.at \in 0 .. Len(Props)
  BY PropNames DEF LoginTypeOK
<1>2. \/ lg' = [lg EXCEPT !.pc = "idle", !.at = 0] /\ 0 \in 0 .. Len(Props)
      \/ lg' = [lg EXCEPT !.pc = "persist", !.at = lg.at + 1] /\ lg.at + 1 \in 0 .. Len(Props)
  BY <1>1 DEF Next_Prop, Step
<1>3. kept' \in [Uids -> [PropSet -> Content \union {NONE}] \union {NONE}]
  BY DEF Kept, LoginTypeOK
<1>4. QED BY <1>2, <1>3 DEF LoginTypeOK

(* A property without a value is passed over; one with a file ends the     *)
(* process; for any other the file is made, which is not one that is kept. *)
LEMMA PersistPropInv ==
  ASSUME LoginInv, PersistProp
  PROVE  LoginInv'
<1> USE DEF LoginInv
<1> DEFINE prop == Props[lg.at]
<1>1. /\ lg.pc = "persist" /\ lg.uid \in Uids /\ Dir # NONE
      /\ lg.at \in 1 .. Len(Props) /\ Len(Props) \in Nat /\ prop \in PropSet
  <2>1. lg.pc = "persist"
    BY DEF PersistProp
  <2>2. QED BY <2>1, PropNames DEF Placed, LoginTypeOK
<1>2. CASE lg.vals[prop] = NONE
  <2>1. Next_Prop /\ Kept /\ logins' = logins
    BY <1>2 DEF PersistProp
  <2>2. LoginTypeOK' /\ lg'.uid = lg.uid
    BY <1>1, <2>1, NextPropType DEF LoginTypeOK
  <2>3. \A j \in 1 .. lg.at :
           lg.vals[Props[j]] # NONE => logins'[lg.uid].files[Props[j]] = lg.vals[Props[j]]
    BY <1>1, <1>2, <2>1 DEF Persisting, Written, Dir
  <2>4. kept[lg.uid] # NONE =>
           \A p \in PropSet : kept[lg.uid][p] # NONE =>
                                logins'[lg.uid].files[p] = kept[lg.uid][p]
    BY <1>1, <2>1 DEF PersistedStays
  <2>5. Dir' # NONE /\ \A v \in Uids : v # lg.uid => logins'[v] = logins[v]
    BY <1>1, <2>1, <2>2 DEF Dir
  <2>6. QED BY <1>1, <2>1, <2>2, <2>3, <2>4, <2>5, NextPropInv
<1>3. CASE lg.vals[prop] # NONE /\ Dir.files[prop] # NONE
  <2>1. Fatal_Login /\ UNCHANGED <<logins, kept>>
    BY <1>3 DEF PersistProp, Dir
  <2>2. LoginTypeOK' /\ lg'.pc = "down"
    BY <2>1, OpenedType, PropNames DEF Fatal_Login, Login_At, LoginTypeOK
  <2>3. QED BY <2>1, <2>2, RestInv
<1>4. CASE lg.vals[prop] # NONE /\ Dir.files[prop] = NONE
  <2>0. kept' = kept
    BY <1>4 DEF PersistProp, Dir
  <2>1. /\ logins' = [logins EXCEPT ![lg.uid].files[prop] = Empty]
        /\ Step("write", lg.at)
    BY <1>4 DEF PersistProp, Dir
  <2>2. /\ logins' \in [Uids -> Directory \union {NONE}] /\ logins'[lg.uid] # NONE
        /\ logins'[lg.uid].files = [Dir.files EXCEPT ![prop] = Empty]
        /\ \A v \in Uids : v # lg.uid => logins'[v] = logins[v]
    <3> DEFINE r == [Dir EXCEPT !.files[prop] = Empty]
    <3>1. Empty \in Content \union {NONE} /\ logins \in [Uids -> Directory \union {NONE}]
      BY DEF Content, LoginTypeOK
    <3>2. Dir \in Directory
      BY <1>1, <3>1 DEF Dir
    <3>3. r \in Directory /\ r.files = [Dir.files EXCEPT ![prop] = Empty]
      BY <1>1, <3>1, <3>2 DEF Directory
    <3>4. logins' = [logins EXCEPT ![lg.uid] = r]
      BY <2>1 DEF Dir
    <3> HIDE DEF r
    <3>5. QED BY <1>1, <3>1, <3>3, <3>4, DirectorySet
  <2>3. /\ LoginTypeOK' /\ lg'.pc = "write" /\ lg'.uid = lg.uid /\ lg'.at = lg.at
        /\ lg'.vals = lg.vals
    BY <2>0, <2>1, <2>2 DEF Step, LoginTypeOK
  <2>4. Dir.files \in [PropSet -> Content \union {NONE}]
    BY <1>1 DEF Dir, LoginTypeOK, Directory
  <2>5. \A p \in PropSet : p # prop => logins'[lg.uid].files[p] = Dir.files[p]
    BY <2>2, <2>4
  <2>6. \A j \in 1 .. lg.at - 1 : Written(j) /\ (lg.vals[Props[j]] # NONE => Props[j] # prop)
    BY <1>1, <1>4 DEF Persisting, Written
  <2>7. kept[lg.uid] # NONE => kept[lg.uid][prop] = NONE
    BY <1>1, <1>4 DEF PersistedStays, Dir
  <2>8. Placed' /\ Destroying'
    BY <1>1, <2>2, <2>3 DEF Placed, Destroying, Dir
  <2>9. Persisting'
    <3>1. \A j \in 1 .. lg.at - 1 : Props[j] \in PropSet
      BY <1>1, PropNames
    <3>2. \A j \in 1 .. lg.at - 1 : Written(j)'
      BY <2>3, <2>5, <2>6, <3>1 DEF Written, Dir
    <3>3. QED BY <2>0, <2>3, <2>7, <3>2 DEF Persisting
  <2>10. PersistedStays'
    <3> SUFFICES ASSUME NEW u \in Uids, kept[u] # NONE
                 PROVE  /\ logins'[u] # NONE
                        /\ \A p \in PropSet : kept[u][p] # NONE =>
                                                logins'[u].files[p] = kept[u][p]
      BY <2>0 DEF PersistedStays
    <3>0. PersistedStays
      OBVIOUS
    <3>1. CASE u = lg.uid
      BY <2>2, <2>5, <2>7, <3>0, <3>1 DEF PersistedStays, Dir
    <3>2. CASE u # lg.uid
      BY <2>2, <3>0, <3>2 DEF PersistedStays
    <3>3. QED BY <3>1, <3>2
  <2>11. QED BY <2>3, <2>8, <2>9, <2>10
<1>5. QED BY <1>2, <1>3, <1>4

\* The value is written to the file that was made for it.
LEMMA WritePropInv ==
  ASSUME LoginInv, WriteProp
  PROVE  LoginInv'
<1> USE DEF LoginInv
<1> DEFINE prop == Props[lg.at]
<1>1. /\ lg.pc = "write" /\ lg.uid \in Uids /\ Dir # NONE
      /\ lg.at \in 1 .. Len(Props) /\ Len(Props) \in Nat /\ prop \in PropSet
      /\ lg.vals[prop] \in Content \union {NONE} /\ Next_Prop /\ Kept
      /\ logins \in [Uids -> Directory \union {NONE}]
  BY PropNames DEF WriteProp, Placed, LoginTypeOK
<1>2. logins' = [logins EXCEPT ![lg.uid].files[prop] = lg.vals[prop]]
  BY DEF WriteProp
<1>3. /\ logins' \in [Uids -> Directory \union {NONE}] /\ logins'[lg.uid] # NONE
      /\ logins'[lg.uid].files = [Dir.files EXCEPT ![prop] = lg.vals[prop]]
      /\ \A v \in Uids : v # lg.uid => logins'[v] = logins[v]
  <2> DEFINE r == [Dir EXCEPT !.files[prop] = lg.vals[prop]]
  <2>1. Dir \in Directory
    BY <1>1 DEF Dir
  <2>2. r \in Directory /\ r.files = [Dir.files EXCEPT ![prop] = lg.vals[prop]]
    BY <1>1, <2>1 DEF Directory
  <2>3. logins' = [logins EXCEPT ![lg.uid] = r]
    BY <1>2 DEF Dir
  <2> HIDE DEF r
  <2>4. QED BY <1>1, <2>2, <2>3, DirectorySet
<1>4. LoginTypeOK' /\ lg'.uid = lg.uid
  BY <1>1, <1>3, NextPropType
<1>5. Dir.files \in [PropSet -> Content \union {NONE}]
  BY <1>1 DEF Dir, Directory
<1>6. /\ logins'[lg.uid].files[prop] = lg.vals[prop]
      /\ \A p \in PropSet : p # prop => logins'[lg.uid].files[p] = Dir.files[p]
  BY <1>1, <1>3, <1>5
<1>7. \A j \in 1 .. lg.at :
        lg.vals[Props[j]] # NONE => logins'[lg.uid].files[Props[j]] = lg.vals[Props[j]]
  <2> SUFFICES ASSUME NEW j \in 1 .. lg.at, lg.vals[Props[j]] # NONE, Props[j] # prop
               PROVE  logins'[lg.uid].files[Props[j]] = lg.vals[Props[j]]
    BY <1>6
  <2>1. j \in 1 .. lg.at - 1 /\ Props[j] \in PropSet
    BY <1>1, PropNames
  <2>2. QED BY <1>1, <1>6, <2>1 DEF Persisting, Written
<1>8. kept[lg.uid] # NONE =>
        \A p \in PropSet : kept[lg.uid][p] # NONE =>
                             logins'[lg.uid].files[p] = kept[lg.uid][p]
  BY <1>1, <1>6 DEF Persisting, PersistedStays, Dir
<1>9. Dir' # NONE
  BY <1>3, <1>4 DEF Dir
<1>10. QED BY <1>1, <1>3, <1>4, <1>7, <1>8, <1>9, NextPropInv

(* The files go one after the other, each without regard to whether it was *)
(* there; after the last one none is left.                                 *)
LEMMA UnlinkInv ==
  ASSUME LoginInv, UnlinkProp
  PROVE  LoginInv'
<1> USE DEF LoginInv
<1> DEFINE prop == Props[lg.at]
<1>1. lg.pc = "unlink" /\ kept' = kept
  BY DEF UnlinkProp
<1>2. /\ lg.uid \in Uids /\ lg.at \in 1 .. Len(Props) /\ Len(Props) \in Nat
      /\ prop \in PropSet /\ kept[lg.uid] = NONE
      /\ logins \in [Uids -> Directory \union {NONE}]
  BY <1>1, PropNames DEF Placed, Destroying, LoginTypeOK
<1>3. \/ Dir = NONE /\ logins' = logins
      \/ /\ Dir # NONE /\ logins' \in [Uids -> Directory \union {NONE}]
         /\ logins'[lg.uid].files = [Dir.files EXCEPT ![prop] = NONE]
         /\ \A v \in Uids : v # lg.uid => logins'[v] = logins[v]
  <2>1. CASE Dir = NONE
    BY <2>1 DEF UnlinkProp, Dir
  <2>2. CASE Dir # NONE
    <3> DEFINE r == [Dir EXCEPT !.files[prop] = NONE]
    <3>1. Dir \in Directory
      BY <1>2, <2>2 DEF Dir
    <3>2. r \in Directory /\ r.files = [Dir.files EXCEPT ![prop] = NONE]
      BY <1>2, <3>1 DEF Directory
    <3>3. logins' = [logins EXCEPT ![lg.uid] = r]
      BY <2>2 DEF UnlinkProp, Dir
    <3> HIDE DEF r
    <3>4. QED BY <1>2, <2>2, <3>2, <3>3, DirectorySet
  <2>3. QED BY <2>1, <2>2
<1>4. /\ LoginTypeOK' /\ lg'.uid = lg.uid
      /\ \/ lg.at = Len(Props) /\ lg'.pc = "rmauth"
         \/ lg'.pc = "unlink" /\ lg'.at = lg.at + 1
  <2>1. logins' \in [Uids -> Directory \union {NONE}]
    BY <1>2, <1>3
  <2>2. \/ lg.at = Len(Props) /\ lg' = [lg EXCEPT !.pc = "rmauth", !.at = 0]
        \/ lg.at # Len(Props) /\ lg' = [lg EXCEPT !.pc = "unlink", !.at = lg.at + 1]
    BY DEF UnlinkProp, Step
  <2>3. 0 \in 0 .. Len(Props) /\ (lg.at # Len(Props) => lg.at + 1 \in 0 .. Len(Props))
    BY <1>2
  <2>4. QED BY <1>1, <1>2, <2>1, <2>2, <2>3 DEF LoginTypeOK
<1>5. Dir' # NONE => \A j \in 1 .. lg.at : logins'[lg.uid].files[Props[j]] = NONE
  <2> SUFFICES ASSUME Dir' # NONE, NEW j \in 1 .. lg.at
               PROVE  logins'[lg.uid].files[Props[j]] = NONE
    OBVIOUS
  <2>1. Dir # NONE /\ logins'[lg.uid].files = [Dir.files EXCEPT ![prop] = NONE]
    BY <1>3, <1>4 DEF Dir
  <2>2. Dir.files \in [PropSet -> Content \union {NONE}] /\ Props[j] \in PropSet
    BY <1>2, <2>1, PropNames DEF Dir, Directory
  <2>3. Props[j] # prop => j \in 1 .. lg.at - 1
    BY <1>2
  <2>4. QED BY <1>1, <1>2, <2>1, <2>2, <2>3 DEF Destroying
<1>6. Destroying'
  <2>1. CASE lg.at = Len(Props) /\ lg'.pc = "rmauth"
    <3>1. Dir' # NONE => \A p \in PropSet : Dir'.files[p] = NONE
      BY <1>4, <1>5, <2>1, PropNames DEF Dir
    <3>2. Dir' # NONE => Dir'.files \in [PropSet -> Content \union {NONE}]
      BY <1>2, <1>4 DEF Dir, LoginTypeOK, Directory
    <3>3. Dir' # NONE => Dir'.files = NoProps
      BY <3>1, <3>2 DEF NoProps
    <3>4. QED BY <1>1, <1>2, <1>4, <2>1, <3>3 DEF Destroying
  <2>2. CASE lg'.pc = "unlink" /\ lg'.at = lg.at + 1
    BY <1>1, <1>2, <1>4, <1>5, <2>2 DEF Destroying, Dir
  <2>3. QED BY <1>4, <2>1, <2>2
<1>7. Placed' /\ Persisting'
  BY <1>2, <1>4 DEF Placed, Persisting
<1>8. PersistedStays'
  <2> SUFFICES ASSUME NEW u \in Uids, kept[u] # NONE
               PROVE  /\ logins'[u] # NONE
                      /\ \A p \in PropSet : kept[u][p] # NONE =>
                                              logins'[u].files[p] = kept[u][p]
    BY <1>1 DEF PersistedStays
  <2>1. u # lg.uid /\ logins'[u] = logins[u]
    BY <1>2, <1>3
  <2>2. QED BY <2>1 DEF PersistedStays
<1>9. QED BY <1>4, <1>6, <1>7, <1>8

\* Then the directory of the credentials goes ...
LEMMA RmAuthInv ==
  ASSUME LoginInv, RmAuth
  PROVE  LoginInv'
<1> USE DEF LoginInv
<1>1. /\ lg.pc = "rmauth" /\ kept' = kept /\ lg' = [lg EXCEPT !.pc = "rmdir", !.at = 0]
      /\ 0 \in 0 .. Len(Props)
  BY PropNames DEF RmAuth, Step
<1>2. /\ lg.uid \in Uids /\ kept[lg.uid] = NONE
      /\ logins \in [Uids -> Directory \union {NONE}]
      /\ Dir # NONE => Dir.files = NoProps
  BY <1>1 DEF Placed, Destroying, LoginTypeOK
<1>3. \/ Dir = NONE /\ logins' = logins
      \/ /\ Dir # NONE /\ logins' \in [Uids -> Directory \union {NONE}]
         /\ logins'[lg.uid].files = NoProps /\ ~logins'[lg.uid].auth
         /\ \A v \in Uids : v # lg.uid => logins'[v] = logins[v]
  <2>1. CASE Dir = NONE
    BY <2>1 DEF RmAuth, Dir
  <2>2. CASE Dir # NONE
    <3> DEFINE r == [Dir EXCEPT !.auth = FALSE]
    <3>1. Dir \in Directory
      BY <1>2, <2>2 DEF Dir
    <3>2. r \in Directory /\ r.files = Dir.files /\ ~r.auth
      BY <3>1 DEF Directory
    <3>3. logins' = [logins EXCEPT ![lg.uid] = r]
      BY <2>2 DEF RmAuth, Dir
    <3> HIDE DEF r
    <3>4. QED BY <1>2, <2>2, <3>2, <3>3, DirectorySet
  <2>3. QED BY <2>1, <2>2
<1>4. LoginTypeOK' /\ lg'.uid = lg.uid /\ lg'.pc = "rmdir"
  BY <1>1, <1>2, <1>3 DEF LoginTypeOK
<1>5. Placed' /\ Persisting' /\ Destroying'
  BY <1>1, <1>2, <1>3, <1>4 DEF Placed, Persisting, Destroying, Dir
<1>6. PersistedStays'
  <2> SUFFICES ASSUME NEW u \in Uids, kept[u] # NONE
               PROVE  /\ logins'[u] # NONE
                      /\ \A p \in PropSet : kept[u][p] # NONE =>
                                              logins'[u].files[p] = kept[u][p]
    BY <1>1 DEF PersistedStays
  <2>1. u # lg.uid /\ logins'[u] = logins[u]
    BY <1>2, <1>3
  <2>2. QED BY <2>1 DEF PersistedStays
<1>7. QED BY <1>4, <1>5, <1>6

\* ... and the login's own, which is empty by now.
LEMMA RmDirFrees ==
  ASSUME LoginInv, RmDir
  PROVE  /\ lg.uid \in Uids /\ logins'[lg.uid] = NONE
         /\ logins' \in [Uids -> Directory \union {NONE}]
         /\ \A v \in Uids : v # lg.uid => logins'[v] = logins[v]
<1>1. lg.pc = "rmdir"
  BY DEF RmDir
<1>2. /\ lg.uid \in Uids /\ logins \in [Uids -> Directory \union {NONE}]
      /\ Dir # NONE => Dir.files = NoProps /\ ~Dir.auth
  BY <1>1 DEF LoginInv, Placed, Destroying, LoginTypeOK
<1>3. CASE Dir = NONE
  <2>1. logins' = logins
    BY <1>3 DEF RmDir, Dir
  <2>2. QED BY <1>2, <1>3, <2>1 DEF Dir
<1>4. CASE Dir # NONE
  <2>1. logins' = [logins EXCEPT ![lg.uid] = NONE]
    BY <1>2, <1>4 DEF RmDir, Dir
  <2>2. QED BY <1>2, <2>1
<1>5. QED BY <1>3, <1>4

\* Nothing that is kept was in it.
LEMMA RmDirInv ==
  ASSUME LoginInv, RmDir
  PROVE  LoginInv'
<1>1. /\ lg.uid \in Uids /\ logins' \in [Uids -> Directory \union {NONE}]
      /\ \A v \in Uids : v # lg.uid => logins'[v] = logins[v]
  BY RmDirFrees
<1> USE DEF LoginInv
<1>2. /\ lg.pc = "rmdir" /\ kept' = kept /\ lg' = [lg EXCEPT !.pc = "idle", !.at = 0]
      /\ 0 \in 0 .. Len(Props)
  BY PropNames DEF RmDir, Step
<1>3. kept[lg.uid] = NONE
  BY <1>2 DEF Destroying
<1>4. LoginTypeOK' /\ lg'.uid = lg.uid /\ lg'.pc = "idle"
  BY <1>1, <1>2 DEF LoginTypeOK
<1>5. Placed' /\ Persisting' /\ Destroying'
  BY <1>1, <1>4 DEF Placed, Persisting, Destroying
<1>6. PersistedStays'
  BY <1>1, <1>2, <1>3 DEF PersistedStays
<1>7. QED BY <1>4, <1>5, <1>6
-----------------------------------------------------------------------------
\* Every step of the process keeps the invariant.
LEMMA LoginStepInv == LoginInv /\ [LoginNext]_lvars => LoginInv'
<1> SUFFICES ASSUME LoginInv, [LoginNext]_lvars PROVE LoginInv'
  OBVIOUS
<1>1. CASE UNCHANGED lvars
  BY <1>1 DEF LoginInv, LoginTypeOK, Placed, Persisting, Destroying, Written, Dir,
              PersistedStays, lvars
<1>2. CASE \E uid \in Uids : Login_Create(uid)
  BY <1>2, CreateInv
<1>3. CASE \/ \E uid \in Uids : Login_Open(uid)
           \/ \E i \in 3 .. Len(Props), v \in Values : Seel_Set(Props[i], v)
           \/ Login_Refresh \/ Drop \/ LoginStop \/ LoginRestart
  BY <1>3, ClientInv
<1>4. CASE CreateAuth
  BY <1>4, CreateAuthInv
<1>5. CASE Login_Persist \/ Login_Destroy
  BY <1>5, StartInv
<1>6. CASE PersistProp \/ WriteProp
  BY <1>6, PersistPropInv, WritePropInv
<1>7. CASE UnlinkProp \/ RmAuth \/ RmDir
  BY <1>7, UnlinkInv, RmAuthInv, RmDirInv
<1>8. QED
  BY <1>1, <1>2, <1>3, <1>4, <1>5, <1>6, <1>7 DEF LoginNext

\* The inductive invariant of logins.
THEOREM LoginInvariant == LoginSpec => []LoginInv
<1>1. QED BY LoginInitInv, LoginStepInv, PTL DEF LoginSpec

(* A directory of a login is made of nothing but its credentials' and a    *)
(* file for each property, through every stop.                             *)
THEOREM LoginIsTyped == LoginSpec => []LoginTypeOK
<1>1. LoginInv => LoginTypeOK
  BY DEF LoginInv
<1>2. QED BY <1>1, LoginInvariant, PTL

(* What Login_Persist has brought to its end is in the files, wherever     *)
(* later calls of the process stop, until Login_Destroy.                   *)
THEOREM LoginPersistedStays == LoginSpec => []PersistedStays
<1>1. LoginInv => PersistedStays
  BY DEF LoginInv
<1>2. QED BY <1>1, LoginInvariant, PTL

(* A Login_Destroy that comes to its end has freed the uid: nothing it did *)
(* not unlink keeps the directory.                                         *)
THEOREM LoginDestroyedIsFree == LoginSpec => DestroyedIsFree
<1>1. LoginInv /\ [LoginNext]_lvars =>
        [lg.pc = "rmdir" /\ lg'.pc = "idle" => logins'[lg.uid] = NONE]_lvars
  <2> SUFFICES ASSUME LoginInv, LoginNext, lg.pc = "rmdir", lg'.pc = "idle"
               PROVE  logins'[lg.uid] = NONE
    OBVIOUS
  <2>1. RmDir
    BY DEF LoginNext, Login_Create, Login_Open, Seel_Set, CreateAuth, Login_Refresh,
           Login_Persist, PersistProp, WriteProp, Login_Destroy, UnlinkProp, RmAuth,
           Drop, LoginStop, LoginRestart, Login_At, LoginInv, LoginTypeOK
  <2>2. QED BY <2>1, RmDirFrees
<1>2. QED BY <1>1, LoginInvariant, PTL DEF LoginSpec, DestroyedIsFree
=============================================================================
