-------------------------------- MODULE Ssid --------------------------------
(***************************************************************************)
(* Sessions, src/src/mod/passport/session/ssid.c: a directory for each,    *)
(* named by an id that ends with the parity of the user agent, with a      *)
(* Stash of the session's Table in it.  A process starts, opens, closes,   *)
(* renames and destroys them, and may be stopped between any two calls to  *)
(* the system; nothing runs at the same time.                              *)
(***************************************************************************)
EXTENDS Stash

CONSTANTS
  Agents, Parity,  (* user agents, and the parity of each                  *)
  Texts,           (* what a client keeps in a session                     *)
  Slot,            (* the slot of a Table that each key is hashed to       *)
  Addrs,           (* addresses that pages may be given                    *)
  MAX_IDS,         (* bound: ids made by Ssid_From                         *)
  MAX_SETS,        (* bound: keys that clients set                         *)
  MAX_STOPS        (* bound: stops of the process                          *)

ASSUME SsidAssumption ==
  /\ Parity \in [Agents -> Int] /\ MAX_IDS \in Nat /\ MAX_STOPS \in Nat
  /\ SLOTS \in Nat /\ PAGE_RECS \in Nat /\ MAX_SETS \in Nat /\ Addrs \subseteq Nat \ {0}
  /\ NULL \notin Int /\ NULL \notin [page : Int, rec : Nat] /\ NULL \notin [idx : Nat, rec : Nat]
  /\ \A k, l \in DOMAIN Slot : Slot[k] \in 1 .. SLOTS /\ (Slot[k] = Slot[l] => k = l)
  /\ {"user-agent", "orig-ssid"} \subseteq DOMAIN Slot

VARIABLES
  dirs,    (* the directories there are, by id                             *)
  ssid,    (* what the process is doing                                    *)
  handle,  (* the Table the client has, and what it should find in it      *)
  whole,   (* what was last written to the end for each id (history)       *)
  live     (* the sessions started and not destroyed (history)             *)

svars == <<dirs, ssid, handle, whole, live>>

Ids == 1 .. MAX_IDS
NoFile == [checksum |-> NULL, pages |-> <<>>]
NoHandle == [pages |-> NULL, data |-> <<>>]
Free(addr) == handle.pages # NULL => \A i \in DOMAIN handle.pages : handle.pages[i].addr # addr

(* The process ends, by an Error no handler takes or by an access to a     *)
(* page that is not there.                                                 *)
Down == [ssid EXCEPT !.pc = "down", !.id = 0, !.agent = NULL, !.out = NoFile, !.data = <<>>]

Fatal == ssid' = Down /\ handle' = NoHandle

HalfParity_Compare(id, ua) == id \in DOMAIN dirs /\ dirs[id].parity = Parity[ua]

(* The directories once there is one, or none, with an id.                 *)
With(id, dir) == [i \in DOMAIN dirs \union {id} |-> IF i = id THEN dir ELSE dirs[i]]
Without(id)   == [i \in DOMAIN dirs \ {id} |-> dirs[i]]
Renamed(id, new, dir) ==
  [i \in (DOMAIN dirs \ {id}) \union {new} |-> IF i = new THEN dir ELSE dirs[i]]

(* The texts of a Table, by the slots of their keys.                       *)
NoTexts == [s \in 1 .. SLOTS |-> NULL]
FreshData(ua, id) == [NoTexts EXCEPT ![Slot["user-agent"]] = ua, ![Slot["orig-ssid"]] = id]

Fresh(ua, id, addr) ==
  Table_Add(Table_Add(Table_Make(addr), Slot["user-agent"], "user-agent", ua),
            Slot["orig-ssid"], "orig-ssid", id)

(* The end of File_Open for writing and the packing of Stash_FlushFree.    *)
Flushing(id, pages, data) ==
  LET mem == Stash_FlushFree(pages)
  IN  /\ dirs' = [dirs EXCEPT ![id].file = NoFile]
      /\ whole' = [whole EXCEPT ![id] = <<>>]
      /\ IF mem.failed THEN Fatal
         ELSE /\ ssid' = [ssid EXCEPT !.pc = "header", !.id = id, !.data = data,
                                      !.out = [checksum |-> mem.checksum, pages |-> mem.pages]]
              /\ handle' = IF ssid.pc = "open" THEN handle ELSE NoHandle
-----------------------------------------------------------------------------
(* Ssid_Start makes a directory with a name of Ssid_From, never the same   *)
(* twice, and then the file.                                               *)
Ssid_Start(ua) ==
  LET id == ssid.count + 1
  IN  /\ ssid.pc = "idle" /\ ssid.count < MAX_IDS
      /\ dirs' = With(id, [parity |-> Parity[ua], orig |-> id, file |-> NULL])
      /\ ssid' = [ssid EXCEPT !.pc = "open", !.count = id, !.id = id, !.agent = ua]
      /\ UNCHANGED <<handle, whole, live>>

StashTable ==
  /\ ssid.pc = "open"
  /\ \E addr \in Addrs :
       /\ Free(addr)
       /\ Flushing(ssid.id, Fresh(ssid.agent, ssid.id, addr), FreshData(ssid.agent, ssid.id))
  /\ UNCHANGED live

(* Ssid_Close opens the file with O_TRUNC before anything is packed.       *)
Ssid_Close(id, ua) ==
  /\ ssid.pc = "idle" /\ handle.pages # NULL
  /\ HalfParity_Compare(id, ua)
  /\ Flushing(id, handle.pages, handle.data)
  /\ UNCHANGED live

(* The header, and then the page, of Stash_FlushFree.                      *)
WriteHeader ==
  /\ ssid.pc = "header"
  /\ dirs' = [dirs EXCEPT ![ssid.id].file.checksum = ssid.out.checksum]
  /\ ssid' = [ssid EXCEPT !.pc = "page"]
  /\ UNCHANGED <<handle, whole, live>>

WritePage ==
  /\ ssid.pc = "page"
  /\ dirs' = [dirs EXCEPT ![ssid.id].file.pages = ssid.out.pages]
  /\ ssid' = [ssid EXCEPT !.pc = "idle", !.id = 0, !.agent = NULL,
                            !.out = NoFile, !.data = <<>>]
  /\ whole' = [whole EXCEPT ![ssid.id] = ssid.data]
  /\ live' = live \union {dirs[ssid.id].orig}
  /\ UNCHANGED handle

(* A session without a whole file is an Error.                             *)
Loaded(id, addr) ==
  IF dirs[id].file = NULL THEN NULL ELSE Stash_FromStream(dirs[id].file, addr)

Ssid_Open(id, ua) ==
  /\ ssid.pc = "idle" /\ handle.pages = NULL
  /\ HalfParity_Compare(id, ua)
  /\ \E addr \in Addrs :
       LET pages == Loaded(id, addr)
       IN  IF pages = NULL THEN Fatal
           ELSE handle' = [pages |-> pages, data |-> whole[id]] /\ UNCHANGED ssid
  /\ UNCHANGED <<dirs, whole, live>>

(* The old directory stays.                                                *)
Ssid_Update_Keeps(id, ua) ==
  LET new == ssid.count + 1
  IN  /\ ssid.pc = "idle" /\ ssid.count < MAX_IDS
      /\ HalfParity_Compare(id, ua) /\ Loaded(id, NULL) # NULL
      /\ dirs' = With(new, [dirs[id] EXCEPT !.parity = Parity[ua]])
      /\ whole' = [whole EXCEPT ![new] = whole[id]]
      /\ ssid' = [ssid EXCEPT !.count = new]
      /\ UNCHANGED <<handle, live>>

(* Ssid_Update opens the session and renames its directory.                *)
Ssid_Update(id, ua) ==
  LET new == ssid.count + 1
  IN  /\ ssid.pc = "idle" /\ ssid.count < MAX_IDS
      /\ HalfParity_Compare(id, ua)
      /\ IF Loaded(id, NULL) = NULL THEN Fatal /\ UNCHANGED <<dirs, whole>>
         ELSE /\ dirs' = Renamed(id, new, [dirs[id] EXCEPT !.parity = Parity[ua]])
              /\ whole' = [whole EXCEPT ![id] = <<>>, ![new] = whole[id]]
              /\ ssid' = [ssid EXCEPT !.count = new]
              /\ UNCHANGED handle
      /\ UNCHANGED live

(* Ssid_Destroy unlinks the file, whatever comes of it, and removes the    *)
(* directory.                                                              *)
Ssid_Destroy(id, ua) ==
  /\ ssid.pc = "idle" /\ HalfParity_Compare(id, ua)
  /\ dirs' = [dirs EXCEPT ![id].file = NULL]
  /\ whole' = [whole EXCEPT ![id] = <<>>]
  /\ live' = live \ {dirs[id].orig}
  /\ ssid' = [ssid EXCEPT !.pc = "remove", !.id = id]
  /\ UNCHANGED handle

Dir_Rm ==
  /\ ssid.pc = "remove"
  /\ dirs' = Without(ssid.id)
  /\ ssid' = [ssid EXCEPT !.pc = "idle", !.id = 0]
  /\ UNCHANGED <<handle, whole, live>>
-----------------------------------------------------------------------------
(* The client sets a key of the Table it has, or makes one.  Table_Set     *)
(* looks at the entry that is in the slot.                                 *)
Table_Set(key, text) ==
  LET slot == Slot[key]
      old == Slab(handle.pages)[slot]
  IN  /\ ssid.pc = "idle" /\ handle.pages # NULL /\ ssid.sets < MAX_SETS
      /\ IF old # NULL /\ Dangling(handle.pages, old) THEN Fatal
         ELSE /\ handle' = [pages |-> IF old = NULL
                                      THEN Table_Add(handle.pages, slot, key, text)
                                      ELSE Table_Replace(handle.pages, slot, text),
                            data |-> [handle.data EXCEPT ![slot] = text]]
              /\ ssid' = [ssid EXCEPT !.sets = @ + 1]
      /\ UNCHANGED <<dirs, whole, live>>

Client_Make ==
  /\ ssid.pc = "idle" /\ handle.pages = NULL
  /\ \E addr \in Addrs :
       handle' = [pages |-> Table_Make(addr), data |-> NoTexts]
  /\ UNCHANGED <<dirs, ssid, whole, live>>

(* Or lets go of it, with what was not written.                            *)
Client_Drop ==
  /\ ssid.pc = "idle" /\ handle.pages # NULL
  /\ handle' = NoHandle
  /\ UNCHANGED <<dirs, ssid, whole, live>>

SsidStop ==
  /\ ssid.pc # "down" /\ ssid.stops < MAX_STOPS
  /\ ssid' = [Down EXCEPT !.stops = @ + 1]
  /\ handle' = NoHandle
  /\ UNCHANGED <<dirs, whole, live>>

SsidRestart ==
  /\ ssid.pc = "down"
  /\ ssid' = [ssid EXCEPT !.pc = "idle"]
  /\ UNCHANGED <<dirs, handle, whole, live>>

SsidInit ==
  /\ dirs = <<>>
  /\ ssid = [pc |-> "idle", count |-> 0, id |-> 0, agent |-> NULL, out |-> NoFile,
             data |-> <<>>, sets |-> 0, stops |-> 0]
  /\ handle = NoHandle
  /\ whole = [id \in Ids |-> <<>>]
  /\ live = {}

SsidNext ==
  \/ \E ua \in Agents :
       \/ Ssid_Start(ua)
       \/ \E id \in Ids : \/ Ssid_Open(id, ua) \/ Ssid_Close(id, ua)
                          \/ Ssid_Update(id, ua) \/ Ssid_Destroy(id, ua)
  \/ StashTable \/ WriteHeader \/ WritePage \/ Dir_Rm
  \/ \E key \in DOMAIN Slot \ {"user-agent", "orig-ssid"}, text \in Texts : Table_Set(key, text)
  \/ Client_Make \/ Client_Drop \/ SsidStop \/ SsidRestart

SsidSpec == SsidInit /\ [][SsidNext]_svars
-----------------------------------------------------------------------------
SsidTypeOK ==
  /\ DOMAIN ssid = {"pc", "count", "id", "agent", "out", "data", "sets", "stops"}
  /\ ssid.pc \in {"idle", "open", "header", "page", "remove", "down"}
  /\ ssid.count \in 0 .. MAX_IDS
  /\ DOMAIN dirs \subseteq 1 .. ssid.count
  /\ \A i \in DOMAIN dirs : /\ DOMAIN dirs[i] = {"parity", "orig", "file"}
                            /\ dirs[i].orig \in 1 .. ssid.count
  /\ live \subseteq 1 .. ssid.count

(* What a client finds in a session it opened is what was last written for *)
(* the session to the end, or cannot be read at all: never an older text,  *)
(* another session's, or a part of a file.                                 *)
OpenedIsClosed ==
  handle.pages # NULL =>
    /\ handle.data # <<>>
    /\ \A s \in 1 .. SLOTS : Contents(handle.pages)[s] \in {handle.data[s], LOST}

(* A session that was answered has one directory until it is destroyed,    *)
(* wherever the process stops and however often it is renewed.             *)
OneName ==
  \A o \in live : \E i \in DOMAIN dirs :
    /\ dirs[i].orig = o
    /\ \A j \in DOMAIN dirs \ {i} : dirs[j].orig # o

(* Every entry of a session that is open can be read.  (It cannot: the     *)
(* pointers of a slab behind an empty slot are written as they are.)       *)
EntriesKept ==
  handle.pages # NULL => \A s \in 1 .. SLOTS : Contents(handle.pages)[s] # LOST
=============================================================================
