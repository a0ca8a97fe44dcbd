------------------------------ MODULE Captures ------------------------------
(* What the Capture function of each format makes of the pieces of text     *)
(* Roebling hands it: the request of http_roebling.c, the Uri of            *)
(* url_roebling.c, the template of cash_roebling.c with Cash_Out of cash.c, *)
(* the nodes of json_roebling.c, the lines of nl_roebling.c and the escaped *)
(* text of html_escape_roebling.c; Config has that of config_roebling.c.    *)
EXTENDS Config, Bitwise

-----------------------------------------------------------------------------
(* Str_FromHexFiltered: capitals are moved by 62, which is 30 past the      *)
(* letters Bytes_FromHex knows.                                             *)
Filtered(c) == IF c \in Ord["A"] .. Ord["F"] THEN c + 62 ELSE c
HexByte(hi, lo) ==
  LET Nibble(c) == IF c >= Ord["a"] THEN c - Ord["a"] + 10 ELSE c - Ord["0"]
  IN  ((Nibble(hi) * 16) % 256) | Nibble(lo)
Str_FromHexFiltered(s) ==
  LET f == [k \in DOMAIN s |-> Filtered(s[k])]
  IN  IF \E c \in Range(s) : ~\E r \in {<<"0", "9">>, <<"a", "f">>, <<"A", "F">>} :
                                  c \in Ord[r[1]] .. Ord[r[2]]
      THEN <<>>
      ELSE [k \in 1 .. Len(s) \div 2 |-> HexByte(f[2 * k - 1], f[2 * k])]

(* The query of a request or Uri: a key or value is put together from its   *)
(* pieces on the shelf and stored at the next mark.                         *)
ShelfStored(d, asKey) ==
  IF d.shelf = <<>> THEN d
  ELSE [d EXCEPT !.shelf = <<>>,
                 !.query = IF asKey THEN Table_SetKey(@, d.shelf) ELSE Table_SetValue(@, d.shelf)]

QueryCapture(d, key, v) ==
  CASE key = "QUERY_NEXT" -> ShelfStored(d, FALSE)
    [] key \in {"QUERY_NEXT_VALUE", "QUERY_END"} -> ShelfStored(d, d.query.selected = 0)
    [] key = "QUERY_SEG_ESCAPED" -> [d EXCEPT !.shelf = @ \o Str_FromHexFiltered(Tail(v))]
    [] key \in {"QUERY_SEG_KEY", "QUERY_SEG_VALUE"} -> [d EXCEPT !.shelf = @ \o v]
    [] OTHER -> d

(* http_roebling.c: the value of a header leaves its key selected, for the  *)
(* lines that continue it.                                                  *)
HttpReq0 == [method |-> "none", path |-> <<>>, proto |-> <<>>, headers |-> Pairs,
             query |-> Pairs, shelf |-> <<>>]
HttpCapture(d, key, v) ==
  LET sel == d.headers.selected
  IN  CASE key \in {"GET", "POST"} -> [d EXCEPT !.method = key]
        [] key = "PATH"            -> [d EXCEPT !.path = v]
        [] key = "VERSION"         -> [d EXCEPT !.proto = v]
        [] key = "HEADER_NAME"     -> [d EXCEPT !.headers = Table_SetKey(@, v)]
        [] key \in {"HEADER_VALUE", "HEADER_INT_VALUE"} ->
             [d EXCEPT !.headers = [Table_SetValue(@, v) EXCEPT !.selected = sel]]
        [] key = "HEADER_CONTINUED" ->
             IF sel = 0 THEN d ELSE [d EXCEPT !.headers.kv[sel][2] = @ \o v]
        [] OTHER -> QueryCapture(d, key, v)

(* url_roebling.c                                                           *)
Uri0 == [proto |-> <<>>, host |-> <<>>, path |-> <<>>, query |-> Pairs, shelf |-> <<>>]
UriCapture(d, key, v) ==
  CASE key = "PROTO"      -> [d EXCEPT !.proto = v]
    [] key = "DOMAIN_SEG" -> [d EXCEPT !.host = @ \o v]
    [] key = "DOMAIN_SEP" -> [d EXCEPT !.host = Append(@, Ord["."])]
    [] key = "PATH"       -> [d EXCEPT !.path = v]
    [] OTHER              -> QueryCapture(d, key, v)

-----------------------------------------------------------------------------
(* cash_roebling.c.  An item is text, a Fetcher with its keys, whether an   *)
(* IF ends them and where that jumps to (0: nowhere), or the END of an IF.  *)
Item(t, v) == [t |-> t, v |-> v, test |-> FALSE, jump |-> 0, done |-> FALSE]
LastItem(d) == d[Len(d)]

(* Jump_FindSource: the IF the END at k belongs to, over those of the ENDs  *)
(* before it.                                                               *)
Jump_FindSource_Nearest(d, k) ==
  LET mine == {j \in 1 .. k - 1 : d[j].t = "fetch" /\ d[j].test}
      j    == CHOOSE l \in mine : \A o \in mine : o <= l
  IN  IF mine = {} THEN d ELSE [d EXCEPT ![j].jump = k, ![k].jump = j]
Jump_FindSource(d, k) ==
  LET Open(j) == d[j].t = "fetch" /\ d[j].test
      Ends(j) == Cardinality({l \in j + 1 .. k - 1 : d[l].t = "end"})
      Ifs(j)  == Cardinality({l \in j + 1 .. k - 1 : Open(l)})
      mine    == {j \in 1 .. k - 1 : Open(j) /\ Ifs(j) = Ends(j)}
      j       == CHOOSE l \in mine : \A o \in mine : o <= l
  IN  IF mine = {} THEN d ELSE [d EXCEPT ![j].jump = k, ![k].jump = j]

CashCapture(d, key, v) ==
  LET open == IF LastItem(d).t # "fetch" \/ LastItem(d).done
              THEN Append(d, Item("fetch", <<>>)) ELSE d
  IN  CASE key = "TEXT"  -> Append(d, Item("text", v))
        [] key = "CLOSE" -> IF LastItem(d).t = "fetch" THEN [d EXCEPT ![Len(d)].done = TRUE] ELSE d
        [] key = "KEY" /\ v = Bytes("/") -> Jump_FindSource(Append(d, Item("end", <<>>)), Len(d) + 1)
        [] key = "KEY" /\ v # Bytes("/") -> [open EXCEPT ![Len(open)].v = Append(@, v)]
        [] key = "IF"    -> [open EXCEPT ![Len(open)].test = TRUE]
        [] OTHER         -> d

(* Cash_Out of cash.c with the values data gives to the keys: the text that *)
(* is written from item k on.                                               *)
RECURSIVE Cash_Out(_, _, _)
Cash_Out(cash, data, k) ==
  IF k > Len(cash) THEN <<>>
  ELSE LET a     == cash[k]
           value == IF a.v \in DOMAIN data THEN data[a.v] ELSE NONE
           Then(j) == Cash_Out(cash, data, j)
       IN  CASE a.t = "end"  -> Then(k + 1)
             [] a.t = "text" -> a.v \o Then(k + 1)
             [] a.t = "fetch" /\ a.test ->
                  Then(IF value = NONE /\ a.jump # 0 THEN a.jump ELSE k + 1)
             [] a.t = "fetch" /\ ~a.test ->
                  (IF value = NONE THEN <<>> ELSE value) \o Then(k + 1)

-----------------------------------------------------------------------------
(* json_roebling.c.  The children of a Node are a Span until a key is set;  *)
(* the stack holds the open nodes (with the Iter of its children, two       *)
(* entries of the source Iter), nodes[1] is the root.                       *)
Node == [of |-> "Span", kv |-> <<>>, selected |-> 0]
Json0 == [nodes |-> <<Node>>, stack |-> <<>>, nest |-> 0, error |-> FALSE]

JsonAdd(d, value) ==
  IF d.stack = <<>> THEN d
  ELSE LET n == d.nodes[Last(d.stack)]
           m == IF n.selected # 0 THEN Table_SetValue(n, value)
                ELSE [n EXCEPT !.kv = Append(@, <<NONE, value>>)]
       IN  [d EXCEPT !.nodes[Last(d.stack)] = m]

JsonOpen(d) ==
  LET id == Len(d.nodes) + 1
  IN  [JsonAdd([d EXCEPT !.nodes = Append(@, Node)], <<"node", id>>)
         EXCEPT !.stack = Append(@, id), !.nest = @ + 1]

JsonClose(d, of) ==
  IF d.stack = <<>> \/ d.nodes[Last(d.stack)].of # of THEN [d EXCEPT !.error = TRUE]
  ELSE [d EXCEPT !.stack = Front(@), !.nest = @ - 1]

(* A root that is an array is a node of its own, which nothing refers to.   *)
JsonCapture(d, key, v) ==
  LET top == Last(d.stack)
  IN  CASE key = "INDENT" /\ d.stack = <<>> -> [d EXCEPT !.stack = <<1>>, !.nest = @ + 1]
        [] key = "INDENT" /\ d.stack # <<>> -> JsonOpen(d)
        [] key = "ARR_INDENT"               -> JsonOpen(d)
        [] key = "OUTDENT"                  -> JsonClose(d, "Table")
        [] key = "ARR_OUTDENT"              -> JsonClose(d, "Span")
        [] key = "KEY" ->
             IF d.nodes[top].of = "Span" /\ d.nodes[top].kv # <<>> THEN d
             ELSE LET t == Table_SetKey([kv |-> d.nodes[top].kv, selected |-> 0], v)
                  IN  [d EXCEPT !.nodes[top] = [of |-> "Table", kv |-> t.kv, selected |-> t.selected]]
        [] key = "STRING"                   -> JsonAdd(d, <<"str", v>>)
        [] key = "NUMBER"                   -> JsonAdd(d, <<"num", v>>)
        [] OTHER                            -> d

(* The value a node stands for, without its identity.                       *)
RECURSIVE JsonValue(_, _)
JsonValue(d, value) ==
  IF value[1] # "node" THEN value
  ELSE LET n == d.nodes[value[2]]
       IN  <<n.of, [k \in DOMAIN n.kv |-> <<n.kv[k][1], JsonValue(d, n.kv[k][2])>>]>>

-----------------------------------------------------------------------------
(* nl_roebling.c: the lines; html_escape_roebling.c: the text with its      *)
(* entities.                                                                *)
NlCapture(d, key, v) == Append(d, v)
HtmlCapture(d, key, v) ==
  d \o CASE key = "AMPER"       -> Bytes("&amp;")
         [] key \in {"GT", "LT"} -> Bytes("&gt;")
         [] key = "QUOTE"       -> Bytes("&quot;")
         [] key = "SQUOTE"      -> Bytes("&apos;")
         [] OTHER               -> v

Doc0(kind) ==
  CASE kind = "http" -> HttpReq0 [] kind = "uri" -> Uri0 [] kind = "json" -> Json0
    [] kind = "config" -> Config0 [] OTHER -> <<>>
Captured(kind, d, key, v) ==
  CASE kind = "http" -> HttpCapture(d, key, v) [] kind = "uri"  -> UriCapture(d, key, v)
    [] kind = "cash" -> CashCapture(d, key, v) [] kind = "json" -> JsonCapture(d, key, v)
    [] kind = "config" -> ConfigCapture(d, key, v)
    [] kind = "nl"   -> NlCapture(d, key, v)   [] kind = "html" -> HtmlCapture(d, key, v)
=============================================================================
