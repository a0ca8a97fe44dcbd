------------------------------- MODULE Config -------------------------------
(* Instances of ext/types/inst.c (Node only) and what config_roebling.c     *)
(* makes of a configuration file: nodes with attributes, lists and nodes.   *)
(*                                                                          *)
(* A value is <<"str" or "num", bytes>>, or <<"node", "table" or "list", id>>, *)
(* an object that others may point to too.  What is open is on a stack, the *)
(* Span of the source Iter: nodes, the Iters of tables and lists that are   *)
(* being filled, and a token that no node has taken as its name yet.        *)
EXTENDS Formats

NONE == <<"none">>

(* A Table, and the record of its Iter that takes the next value (0: none). *)
Pairs == [kv |-> <<>>, selected |-> 0]
Having(kv, key) == {k \in DOMAIN kv : kv[k][1] = key}

Table_SetKey(t, key) ==
  LET same == Having(t.kv, key)
  IN  IF same # {} THEN [t EXCEPT !.selected = CHOOSE k \in same : TRUE]
      ELSE [kv |-> Append(t.kv, <<key, NONE>>), selected |-> Len(t.kv) + 1]

Table_SetValue(t, value) ==
  IF t.selected = 0 THEN t
  ELSE [t EXCEPT !.kv[t.selected][2] = value, !.selected = 0]

Table_Set(kv, key, value) == Table_SetValue(Table_SetKey([kv |-> kv, selected |-> 0], key), value).kv
Table_Get(kv, key) == IF Having(kv, key) = {} THEN NONE ELSE kv[CHOOSE k \in Having(kv, key) : TRUE][2]

-----------------------------------------------------------------------------
(* Inst_Make(TYPE_NODE): atts and children are tables from the start; atts  *)
(* is replaced by the first one that is filled.                             *)
Inst0 == [name |-> NONE, atts |-> 0, children |-> <<>>]
AddNode(d) == [d EXCEPT !.nodes = Append(@, Inst0)]
Config0 == [nodes |-> <<>>, tables |-> <<>>, lists |-> <<>>, stack |-> <<>>]

(* Inst_ByPath under SPAN_OP_SET: the nodes on the way are made when they   *)
(* are missing; a value of another type in the way is an Error.             *)
Inst_SetByPath(d, id, path, value) ==
  LET Step(s, k) ==
        LET here == s.d.nodes[s.at].children
            next == Table_Get(here, path[k])
            new  == <<"node", Len(s.d.nodes) + 1>>
            Put(v) == [s.d EXCEPT !.nodes[s.at].children = Table_Set(@, path[k], v)]
        IN  CASE s.at = 0              -> s
              [] s.at # 0 /\ k = Len(path) -> [s EXCEPT !.d = Put(value)]
              [] s.at # 0 /\ k < Len(path) /\ next = NONE -> [d |-> AddNode(Put(new)), at |-> new[2]]
              [] OTHER -> [s EXCEPT !.at = IF next[1] = "node" THEN next[2] ELSE 0]
  IN  FoldLeft(Step, [d |-> d, at |-> id], [k \in DOMAIN path |-> k]).d

(* Inst_ByPath under SPAN_OP_GET.                                           *)
Inst_GetByPath(d, id, path) ==
  LET Step(v, key) == IF v[1] = "node" THEN Table_Get(d.nodes[v[2]].children, key) ELSE NONE
  IN  FoldLeft(Step, <<"node", id>>, path)

Inst_Atts(d, v) == IF v = NONE \/ d.nodes[v[2]].atts = 0 THEN <<>>
                   ELSE d.tables[d.nodes[v[2]].atts].kv

-----------------------------------------------------------------------------
(* findRecentOf: the place on the stack of the last entry of one of the     *)
(* kinds, above the place before; 0 when there is none.                     *)
FindRecentOf(d, kinds, before) ==
  LET at == {k \in before + 1 .. Len(d.stack) : d.stack[k][1] \in kinds}
  IN  IF at = {} THEN 0 ELSE CHOOSE k \in at : \A j \in at : j <= k

(* removeObj: the first entry, the root, is never removed.                  *)
RemoveObj(d, k) ==
  [d EXCEPT !.stack = SubSeq(@, 1, IF k <= 1 THEN 1 ELSE IF k > Len(@) THEN Len(@) ELSE k - 1)]

Push(d, entry) == [d EXCEPT !.stack = Append(@, entry)]

(* A value goes to the selected key of a table or to the end of a list.     *)
AddValue(d, data, value) ==
  CASE data = 0 -> d
    [] data # 0 /\ d.stack[data][1] = "table" ->
         [d EXCEPT !.tables[d.stack[data][2]] = Table_SetValue(@, value)]
    [] OTHER -> [d EXCEPT !.lists[d.stack[data][2]] = Append(@, value)]

(* A new table or list for a child without a name, keyed by its number.     *)
AddChild(d, current, v) ==
  LET id == d.stack[current][2]
  IN  Push([d EXCEPT !.nodes[id].children = Append(@, <<<<"at", Len(@)>>, v>>)], v)

CaptureIndent(d, current, data, token) ==
  LET new  == <<"node", Len(d.nodes) + 1>>
      d1   == AddNode(IF data # 0 THEN RemoveObj(d, current + 1) ELSE d)
      named == [Inst_SetByPath(d1, d.stack[current][2], d.stack[token][2], new)
                  EXCEPT !.nodes[new[2]].name = d.stack[token][2],
                         !.stack = Front(@)]
  IN  Push(IF token = 0 THEN d1 ELSE named, new)

CaptureKey(d, current, data, key) ==
  LET id == d.stack[current][2]
      t  == <<"table", Len(d.tables) + 1>>
      d1 == [d EXCEPT !.tables = Append(@, Table_SetKey(Pairs, key))]
  IN  CASE d.nodes[id].atts = 0 -> Push([d1 EXCEPT !.nodes[id].atts = t[2]], t)
        [] d.nodes[id].atts # 0 /\ data = 0 -> AddChild(d1, current, t)
        [] d.nodes[id].atts # 0 /\ data # 0 ->
             IF d.stack[data][1] = "table"
             THEN [d EXCEPT !.tables[d.stack[data][2]] = Table_SetKey(@, key)] ELSE d

CaptureItem(d, current, data, v) ==
  LET p  == <<"list", Len(d.lists) + 1>>
      d1 == [d EXCEPT !.lists = Append(@, <<v>>)]
  IN  CASE data = 0 -> AddChild(d1, current, p)
        [] data # 0 /\ d.stack[data][1] = "table" -> Push(AddValue(d1, data, p), p)
        [] data # 0 /\ d.stack[data][1] = "list"  -> AddValue(d, data, v)

(* Only what is open and not waiting for a value is closed by a blank line. *)
CaptureNl(d, current, data) ==
  IF data # 0 /\ (d.stack[data][1] = "list" \/ d.tables[d.stack[data][2]].selected = 0)
  THEN RemoveObj(d, current + 1) ELSE d

(* A token is looked for down to the open table or list.                    *)
ConfigCapture(d0, key, v) ==
  LET d  == IF d0.stack = <<>> THEN Push(AddNode(d0), <<"node", 1>>) ELSE d0
      current == FindRecentOf(d, {"node"}, 0)
      data  == FindRecentOf(d, {"table", "list"}, current)
      token == FindRecentOf(d, {"token"}, data)
  IN  CASE key = "INDENT"  -> CaptureIndent(d, current, data, token)
        [] key = "KEY"     -> CaptureKey(d, current, data, v)
        [] key = "OUTDENT" -> RemoveObj(d, current)
        [] key = "NL"      -> CaptureNl(d, current, data)
        [] key = "ITEM"    -> CaptureItem(d, current, data, <<"str", v>>)
        [] key = "NUMBER"  -> AddValue(d, data, <<"num", v>>)
        [] key \in {"LINE", "TOKEN"} ->
             IF data # 0 THEN AddValue(d, data, <<"str", v>>) ELSE Push(d, <<"token", <<v>>>>)
        [] OTHER           -> d
=============================================================================
