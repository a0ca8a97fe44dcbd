------------------------------- MODULE MCParse -------------------------------
(* Texts written from what they mean, for each format the programs read,    *)
(* and the meaning the parser gives them.                                   *)
EXTENDS Roebling

Join(parts, sep) ==
  FoldLeft(LAMBDA t, p : IF t = <<>> THEN p ELSE t \o sep \o p, <<>>, parts)

(* A request: [method, path, query, headers], the pairs as sequences.       *)
Escaped(s) == FlattenSeq([k \in DOMAIN s |-> IF s[k] = Ord[" "] THEN Bytes("%20") ELSE <<s[k]>>])
HttpText(r) ==
  LET Arg(p) == p[1] \o Bytes("=") \o Escaped(p[2])
      Line(h) == h[1] \o Bytes(": ") \o h[2] \o Bytes("\r\n")
  IN  Bytes(r.method) \o Bytes(" ") \o r.path
      \o (IF r.query = <<>> THEN <<>>
          ELSE Bytes("?") \o Join([k \in DOMAIN r.query |-> Arg(r.query[k])], Bytes("&")))
      \o Bytes(" HTTP/1.1\r\n") \o FlattenSeq([k \in DOMAIN r.headers |-> Line(r.headers[k])])
      \o Bytes("\r\n")
P(k, v) == <<Bytes(k), Bytes(v)>>
Requests ==
  {[method |-> "GET", path |-> Bytes("/"), query |-> <<>>, headers |-> <<>>],
   [method |-> "GET", path |-> Bytes("/a"), query |-> <<P("k", "v"), P("l", "a b")>>,
    headers |-> <<P("Ab", "c d")>>],
   [method |-> "POST", path |-> Bytes("/b/c"), query |-> <<>>,
    headers |-> <<P("Len-X", "12"), P("H", "x")>>]}

(* A value of JSON, in the form of JsonValue; members of equal depth only   *)
(* differ in kind.                                                          *)
RECURSIVE JsonText(_)
JsonText(v) ==
  LET Quoted(s) == Bytes("\"") \o s \o Bytes("\"")
  IN  CASE v[1] = "str" -> Quoted(v[2])
        [] v[1] = "num" -> v[2]
        [] v[1] = "Span" ->
             Bytes("[") \o Join([k \in DOMAIN v[2] |-> JsonText(v[2][k][2])], Bytes(", ")) \o Bytes("]")
        [] v[1] = "Table" ->
             Bytes("{") \o Join([k \in DOMAIN v[2] |->
                 Quoted(v[2][k][1]) \o Bytes(": ") \o JsonText(v[2][k][2])], Bytes(","))
             \o Bytes("}")
Arr(s) == <<"Span", [k \in DOMAIN s |-> <<NONE, s[k]>>]>>
Obj(s) == <<"Table", s>>
S(s) == <<"str", Bytes(s)>>
N(s) == <<"num", Bytes(s)>>
Values ==
  {Obj(<<<<Bytes("a"), N("12")>>, <<Bytes("bc"), Arr(<<N("1"), S("x y"), Arr(<<>>)>>)>>>>),
   Obj(<<<<Bytes("d"), Obj(<<<<Bytes("e"), S("f")>>>>)>>, <<Bytes("g"), Arr(<<Obj(<<<<Bytes("h"), N("3")>>>>)>>)>>>>)}

(* A template: text, variables and parts that are there if a variable is.   *)
RECURSIVE CashText(_), Rendered(_, _)
CashText(t) ==
  FlattenSeq([k \in DOMAIN t |->
    CASE t[k][1] = "text" -> t[k][2]
      [] t[k][1] = "var"  -> Bytes("${") \o t[k][2] \o Bytes("}")
      [] t[k][1] = "if"   -> Bytes("${") \o t[k][2] \o Bytes("?}") \o CashText(t[k][3]) \o Bytes("${/}")])
Rendered(t, data) ==
  FlattenSeq([k \in DOMAIN t |->
    CASE t[k][1] = "text" -> t[k][2]
      [] t[k][1] = "var"  -> IF t[k][2] \in DOMAIN data THEN data[t[k][2]] ELSE <<>>
      [] t[k][1] = "if"   -> IF t[k][2] \in DOMAIN data THEN Rendered(t[k][3], data) ELSE <<>>])
Text(s) == <<"text", Bytes(s)>>
Var(s)  == <<"var", Bytes(s)>>
If(s, t) == <<"if", Bytes(s), t>>
Templates ==
  {<<Text("Hi "), Var("a"), Text("!")>>,
   <<Text("x"), If("a", <<Text(" y "), If("b", <<Var("b"), Text("z")>>), Var("a")>>), If("b", <<Text(",")>>)>>}
Known == {<<>>} \cup {[k \in ks |-> Bytes("1") \o k] :
                        ks \in (SUBSET {Bytes("a"), Bytes("b")}) \ {{}}}
Keyed(cash) == [k \in DOMAIN cash |->
  IF cash[k].t = "fetch" THEN [cash[k] EXCEPT !.v = FlattenSeq(@)] ELSE cash[k]]

(* A configuration: a node has attributes, the last of them may be a list,  *)
(* a blank line, and nodes.                                                 *)
Leaf(atts) == [atts |-> atts, nodes |-> <<>>]
RECURSIVE ConfigText(_)
ConfigText(n) ==
  LET Att(a) == Bytes("  ") \o a[1] \o Bytes(":") \o
        (IF a[2][1] = "list"
         THEN Bytes("\n") \o FlattenSeq([k \in DOMAIN a[2][2] |->
                                Bytes("  - ") \o a[2][2][k][2] \o Bytes("\n")])
         ELSE Bytes(" ") \o a[2][2] \o Bytes("\n"))
      Sub(c) == c[1] \o Bytes(" {\n") \o ConfigText(c[2]) \o Bytes("  }\n\n")
  IN  FlattenSeq([k \in DOMAIN n.atts |-> Att(n.atts[k])]) \o Bytes("\n")
      \o FlattenSeq([k \in DOMAIN n.nodes |-> Sub(n.nodes[k])])
Configs ==
  {[Leaf(<<<<Bytes("k"), S("a b")>>, <<Bytes("L"), N("12")>>>>) EXCEPT !.nodes =
      <<<<Bytes("in"), [Leaf(<<<<Bytes("e-f"), S("x")>>, <<Bytes("l"), <<"list", <<S("one"), S("t")>>>>>>>>)
                          EXCEPT !.nodes = <<<<Bytes("g"), Leaf(<<<<Bytes("h"), S("/i")>>>>)>>>>]>>,
        <<Bytes("out"), Leaf(<<<<Bytes("k"), N("3")>>>>)>>>>]}
ConfigPaths == {<<>>} \cup {<<Bytes(a)>> : a \in {"in", "out", "g"}}
               \cup {<<Bytes(a), Bytes(b)>> : a \in {"in", "out"}, b \in {"g", "in"}}
RECURSIVE WrittenAt(_, _)
WrittenAt(n, path) ==
  LET at == {k \in DOMAIN n.nodes : path # <<>> /\ n.nodes[k][1] = path[1]}
  IN  IF path = <<>> THEN n.atts
      ELSE IF at = {} THEN <<>> ELSE WrittenAt(n.nodes[CHOOSE k \in at : TRUE][2], Tail(path))
ConfigAt(d, path) ==
  LET atts == Inst_Atts(d, Inst_GetByPath(d, 1, path))
  IN  [k \in DOMAIN atts |->
         <<atts[k][1], IF atts[k][2][1] = "list" THEN <<"list", d.lists[atts[k][2][2]]>> ELSE atts[k][2]>>]

-----------------------------------------------------------------------------
Case(g, text, feed, end, want) ==
  [grammar |-> g, text |-> text, feed |-> feed, end |-> end, want |-> want]
Http == {Case(HttpRbl, HttpText(r), "Cursor_Add", "none",
                    [method |-> r.method, path |-> r.path, query |-> r.query, headers |-> r.headers])
               : r \in Requests}
HttpResp == {Case(HttpRespRbl, Bytes("HTTP/1.1 200 OK\r\nLen-X: 12\r\nH: x\r\n\r\n"), "Buff_Read", "none",
                  [method |-> "none", path |-> <<>>, query |-> <<>>,
                   headers |-> <<P("Len-X", "12"), P("H", "x")>>])}
Json == {Case(JsonParser, JsonText(v), "Buff_Read", "Roebling_Last", v) : v \in Values}
Cash == {Case(CashParser, CashText(t), "Buff_Read", "Roebling_Finalize",
              [d \in Known |-> Rendered(t, d)]) : t \in Templates}
Uri == {Case(UriRbl, Bytes("http://a.bc?d=e"), "Buff_Read", "Roebling_Finalize",
             [proto |-> Bytes("http"), host |-> Bytes("a.bc")])}
Lines == {Case(NlParser, Bytes("ab\ncd\n"), "Cursor_Update", "none", <<Bytes("ab"), Bytes("cd")>>)}
Html == {Case(HtmlEntRbl, Bytes("&>\"'"), "Buff_Read", "Roebling_Finalize",
              Bytes("&amp;&gt;&quot;&apos;"))}

Config_FromPath == {Case(FormatConfig, ConfigText(n), "Buff_Read", "none",
                    [p \in ConfigPaths |-> WrittenAt(n, p)]) : n \in Configs}

MCCases == Config_FromPath \cup Http \cup HttpResp \cup Json \cup Cash \cup Uri \cup Lines \cup Html
-----------------------------------------------------------------------------
(* What was parsed, in the form of what was written.                        *)
Meaning(kind, d) ==
  CASE kind = "http" -> [method |-> d.method, path |-> d.path, query |-> d.query.kv, headers |-> d.headers.kv]
    [] kind = "json" -> IF d.nest = 0 THEN JsonValue(d, <<"node", 1>>) ELSE NONE
    [] kind = "cash" -> [k \in Known |-> Cash_Out(Keyed(d), k, 1)]
    [] kind = "config" -> [p \in ConfigPaths |-> ConfigAt(d, p)]
    [] kind = "uri"  -> [proto |-> d.proto, host |-> d.host]
    [] OTHER -> d

(* A text in one piece means what was written: every part of a request, its *)
(* query decoded, and of an answer; every member of a JSON value and every  *)
(* value of a configuration at its place; a template gives, for all values  *)
(* of its variables, the text with its conditions decided.                  *)
DocExact == Over /\ cuts = 0 => Meaning(case.grammar.kind, rbl.doc) = case.want

=============================================================================
