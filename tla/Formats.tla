------------------------------- MODULE Formats -------------------------------
(* The grammars of ext/format given to Roebling: HTTP requests and answers,  *)
(* URIs, cash templates, JSON, configuration files, command lines and HTML   *)
(* text.  A grammar is its kind, its steps in order, the last the end mark,  *)
(* and the patterns of each step.                                             *)
(* Flags are written with the letters of patchar.h, see Match.                *)
EXTENDS Integers, Sequences, FiniteSets, SequencesExt

(* The bytes of the characters the texts and patterns use: control           *)
(* characters, those from the space (32) on and those from 'a' (97) on.     *)
Control == "\t\r\n"
Upper == " !\"#$%&'()*+,-./0123456789:;<=>?@ABCDEFGHIJKLMNOPQRSTUVWXYZ[\\]^_"
Lower == "abcdefghijklmnopqrstuvwxyz{|}~"
At(s) == [ch \in {SubSeq(s, k, k) : k \in 1 .. Len(s)} |->
            CHOOSE k \in 1 .. Len(s) : SubSeq(s, k, k) = ch]
Ord == [ch \in DOMAIN At(Control \o Upper \o Lower) |->
          CASE ch \in DOMAIN At(Control) -> <<9, 13, 10>>[At(Control)[ch]]
            [] ch \in DOMAIN At(Upper)   -> 31 + At(Upper)[ch]
            [] ch \in DOMAIN At(Lower)   -> 96 + At(Lower)[ch]]
Bytes(s) == [k \in 1 .. Len(s) |-> Ord[SubSeq(s, k, k)]]

(* PatCharDefs: a range, one character, a word of terms.                    *)
Of(flags, from, to) == [flags |-> flags, from |-> Ord[from], to |-> Ord[to]]
Ch(flags, ch) == Of(flags, ch, ch)
Each(flags, s) == [k \in 1 .. Len(s) |-> Ch(flags, SubSeq(s, k, k))]
Word(s) == Each({"X"}, s)
NotControl(flags) == [flags |-> flags, from |-> 0, to |-> 31]
PatText == Each({"P", "M"}, "\t\r\n") \o <<NotControl({"I", "M", "X"})>>

Pat(def, key, jump) == [def |-> def, key |-> key, jump |-> jump]

(* http_roebling.c.  The step functions that follow the patterns are named   *)
(* for the step they belong to.                                             *)
gap == <<Ch({"X", "M", "G", "U"}, " ")>>
getDef == Word("GET") \o gap
postDef == Word("POST") \o gap
codeDef == [k \in 1 .. 3 |-> Of({"X"}, "0", "9")] \o gap
explainDef == <<Ch({"K", "O", "G"}, "\r")>> \o PatText
uriDef == <<Ch({"K", "G"}, "?"), Ch({"K", "O"}, " ")>> \o PatText
queryStartDef == Word("?")
queryNextDef == Word("&")
queryNextValueDef == Word("=")
escaped == <<Ch({"S", "X"}, "%")>>
           \o <<Of({"S"}, "A", "F"), Of({"S"}, "a", "f"), Of({"S", "X"}, "0", "9")>>
           \o <<Of({"S"}, "A", "F"), Of({"S"}, "a", "f"), Of({"S", "X"}, "0", "9")>>
queryKeySeg == Each({"K", "G"}, " %=") \o <<Ch({"K", "O", "G"}, "&")>> \o PatText
queryValueSeg == Each({"K", "G"}, " =&") \o <<Ch({"K", "O", "G"}, "%")>> \o PatText
queryEndDef == <<Ch({"M", "X"}, " ")>>
versionDef == Word("HTTP/1.") \o <<Of({"X"}, "1", "2")>>
versionUndefinedDef == Word("undefined")
respVersionDef == versionDef \o gap
endl == Word("\r\n")
headerNameDef ==
  <<Of({"S"}, "A", "Z"), Of({"S", "X"}, "a", "z"), Ch({"K", "O"}, ":"),
    Of({"M"}, "A", "Z"), Of({"M"}, "a", "z"), Of({"M"}, "0", "9"), Ch({"M", "X"}, "-")>>
headerValueDef == Each({"K", "O"}, "\r\n") \o <<Ch({"M", "G", "X"}, " ")>>
                  \o Each({"K", "O"}, "\r\n") \o PatText
headerIntValueDef == Each({"K", "O"}, "\r\n") \o <<Ch({"M", "G"}, " "), Of({"M", "X", "R"}, "0", "9")>>
headerContinueDef == Each({"M", "G"}, "\t ") \o Each({"K", "O"}, "\r\n") \o PatText

HttpMethod == <<Pat(getDef, "GET", "PATH"), Pat(postDef, "POST", "PATH")>>
HttpUri == <<Pat(uriDef, "PATH", "VERSION")>>
HttpVersion ==
  <<Pat(queryStartDef, "QUERY_START", "QUERY"), Pat(versionDef, "VERSION", "PROTO_END"),
    Pat(versionUndefinedDef, "VERSION", "PROTO_END")>>
HttpVersionResp == <<Pat(respVersionDef, "VERSION", "CODE")>>
HttpCode == <<Pat(codeDef, "CODE", "EXPLAIN")>>
HttpExplain == <<Pat(explainDef, "EXPLAIN", "PROTO_END")>>
HttpQueryEnd == <<Pat(queryEndDef, "QUERY_END", "VERSION")>>
HttpQuery ==
  <<Pat(queryNextDef, "QUERY_NEXT", "QUERY"), Pat(queryNextValueDef, "QUERY_NEXT_VALUE", "QUERY"),
    Pat(escaped, "QUERY_SEG_ESCAPED", "QUERY"), Pat(queryKeySeg, "QUERY_SEG_KEY", "QUERY"),
    Pat(queryValueSeg, "QUERY_SEG_VALUE", "QUERY")>>
HttpProtoNl == <<Pat(endl, "PROTO_END", "HEADER_NAME")>>
HttpHeaderName ==
  <<Pat(headerNameDef, "HEADER_NAME", "HEADER_VALUE"),
    Pat(headerContinueDef, "HEADER_CONTINUED", "HEADER_VALUE"), Pat(endl, "END", "END")>>
HttpHeaderValue ==
  <<Pat(headerIntValueDef, "HEADER_INT_VALUE", "HEADER_NAME"),
    Pat(headerValueDef, "HEADER_VALUE", "HEADER_NAME")>>

HttpRbl == [
  kind |-> "http",
  steps |-> <<"METHOD", "PATH", "QUERY", "VERSION", "PROTO_END", "HEADER_NAME",
              "HEADER_VALUE", "END">>,
  patterns |->
    [METHOD |-> HttpMethod, PATH |-> HttpUri, QUERY |-> HttpQueryEnd \o HttpQuery,
     VERSION |-> HttpVersion, PROTO_END |-> HttpProtoNl,
     HEADER_NAME |-> HttpHeaderName, HEADER_VALUE |-> HttpHeaderValue]]

(* The answer of a server, for the requests a program makes.                *)
HttpRespRbl == [
  kind |-> "http",
  steps |-> <<"VERSION", "CODE", "EXPLAIN", "PROTO_END", "HEADER_NAME", "HEADER_VALUE", "END">>,
  patterns |->
    [VERSION |-> HttpVersionResp, CODE |-> HttpCode, EXPLAIN |-> HttpExplain,
     PROTO_END |-> HttpProtoNl, HEADER_NAME |-> HttpHeaderName, HEADER_VALUE |-> HttpHeaderValue]]

(* url_roebling.c, whose patterns of a query are those of http_roebling.c.  *)
protoDef == Each({"K", "O"}, "://") \o <<Of({"M"}, "a", "z"), Of({"M", "X"}, "A", "Z")>>
domainSegDef == <<Of({"M"}, "0", "9"), Of({"M"}, "a", "z"), Of({"M"}, "A", "Z")>>
                \o <<Ch({"M"}, "-"), Ch({"M", "X"}, "_")>>
slashDef == <<Ch({"X", "G"}, "/")>>
pathDef == <<Ch({"K", "O", "G"}, "?")>> \o PatText

UriProto == <<Pat(protoDef, "PROTO", "URI_DOMAIN")>>
UriDomain ==
  <<Pat(slashDef, "PATH_BEGIN", "PATH"), Pat(queryStartDef, "QUERY_START", "QUERY"),
    Pat(Word("."), "DOMAIN_SEP", "URI_DOMAIN"), Pat(domainSegDef, "DOMAIN_SEG", "URI_DOMAIN")>>
UriPath == <<Pat(queryStartDef, "QUERY_START", "QUERY"), Pat(pathDef, "PATH", "PATH")>>
UriRbl == [
  kind |-> "uri",
  steps |-> <<"PROTO", "URI_DOMAIN", "PATH", "QUERY", "END">>,
  patterns |-> [PROTO |-> UriProto, URI_DOMAIN |-> UriDomain, PATH |-> UriPath, QUERY |-> HttpQuery]]

(* cash_roebling.c                                                          *)
textDef == <<Ch({"K", "O", "G"}, "$")>> \o PatText
keyDef == Each({"K", "G"}, "}.") \o <<Ch({"K", "G", "O"}, "?")>> \o PatText
CashParser == [
  kind |-> "cash",
  steps |-> <<"TEXT", "VAR", "END">>,
  patterns |->
    [TEXT |-> <<Pat(Word("${"), "VAR", "VAR"), Pat(textDef, "TEXT", "TEXT")>>,
     VAR |-> <<Pat(Word("}"), "CLOSE", "TEXT"), Pat(keyDef, "KEY", "VAR"),
               Pat(Word("."), "SEP", "VAR"), Pat(Word("?"), "IF", "VAR")>>]]

(* json_roebling.c.  (PAT_KO|PAT_KO with only a from) has no to: its range is empty.    *)
Padded(flags, ch) == <<Ch({"N", "G", "X"}, " "), Ch(flags, ch), Ch({"N", "X", "U"}, " ")>>
NoRange(s) == [k \in 1 .. Len(s) |-> [flags |-> {"K"}, from |-> Bytes(s)[k], to |-> 0]]
jsonString == <<Ch({"X", "G"}, "\""), Ch({"M", "K", "I"}, "\\"), Ch({"M", "K"}, "\"")>> \o PatText
JsonNumber == <<Ch({"N", "G", "X"}, " "), Of({"M", "X"}, "0", "9")>>
JsonParser == [
  kind |-> "json",
  steps |-> <<"START", "END">>,
  patterns |->
    [START |->
       <<Pat(Each({"M"}, "\t\r\n") \o <<Ch({"M", "X"}, " ")>>, "LEAD", "START"),
         Pat(Padded({"X"}, "{"), "INDENT", "START"), Pat(Padded({"X"}, "["), "ARR_INDENT", "START"),
         Pat(jsonString \o <<Ch({"M", "X", "G", "U"}, " "), Ch({"X", "G", "U"}, ":")>>, "KEY", "START"),
         Pat(jsonString \o NoRange(",{[\r\n\t") \o <<Ch({"M", "X", "G"}, " ")>>, "STRING", "START"),
         Pat(JsonNumber, "NUMBER", "START"), Pat(Word(","), "COMMA_SEP", "START"),
         Pat(Padded({"X"}, "}"), "OUTDENT", "START"),
         Pat(Padded({"X"}, "]"), "ARR_OUTDENT", "START")>>]]

(* config_roebling.c.  A value ends with its line, a key with a colon.     *)
ConfigToken ==
  <<Of({"M"}, "a", "z")>> \o Each({"M"}, "Z-_")
  \o <<Of({"M", "X"}, "0", "9"), Ch({"N", "X", "G", "U"}, " "), Ch({"X", "G"}, "{")>>
ConfigLine ==
  <<Ch({"K", "O"}, "\n"), Ch({"N", "G", "X"}, " ")>> \o Each({"K", "G"}, "{}") \o <<Ch({"K", "O"}, "\n")>>
  \o <<Ch({"N", "S", "G"}, " ")>> \o Each({"P", "M"}, "\t\r") \o <<NotControl({"I", "M", "X"})>>
ConfigBullet == <<Ch({"X", "G"}, "-"), Ch({"N", "G", "X"}, " "), Ch({"K"}, "\n")>> \o PatText
ConfigNl == Pat(Word("\n"), "NL", "START")
ConfigWords == <<Pat(JsonNumber, "NUMBER", "START"), Pat(ConfigToken, "TOKEN", "START"),
                 Pat(Padded({"X"}, "{"), "INDENT", "START")>>
FormatConfig == [
  kind |-> "config",
  steps |-> <<"START", "LINE", "END">>,
  patterns |->
    [START |->
       <<Pat(<<Ch({"M", "X"}, " ")>>, "LEAD", "START"), Pat(Padded({"X"}, "{"), "INDENT", "START"),
         Pat(ConfigBullet, "ITEM", "START")>> \o ConfigWords
       \o <<Pat(Padded({"X"}, "}"), "OUTDENT", "START"), Pat(ConfigLine, "LINE", "START"), ConfigNl,
            Pat(<<Ch({"K"}, ":")>> \o PatText, "KEY", "LINE")>>,
     LINE |-> <<ConfigNl>> \o ConfigWords \o <<Pat(ConfigLine, "LINE", "START")>>]]

(* nl_roebling.c: the lines of the command file.                            *)
NlParser == [
  kind |-> "nl",
  steps |-> <<"LINE_CONTENT">>,
  patterns |->
    [LINE_CONTENT |-> <<Pat(<<Ch({"M", "K", "I"}, "\\"), Ch({"M", "K"}, "\n")>> \o PatText,
                            "LINE_CONTENT", "LINE_CONTENT")>>]]

(* html_escape_roebling.c                                                   *)
HtmlEntRbl == [
  kind |-> "html",
  steps |-> <<"CONTENT", "END">>,
  patterns |->
    [CONTENT |-> [k \in 1 .. 5 |-> Pat(Word(SubSeq("&><\"'", k, k)),
                                       <<"AMPER", "GT", "LT", "QUOTE", "SQUOTE">>[k], "CONTENT")]
                 \o <<Pat(Each({"K", "O", "G"}, "<>&\"'") \o PatText, "CONTENT", "CONTENT")>>]]
=============================================================================
