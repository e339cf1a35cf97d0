---------------------------- MODULE MCGeneration ----------------------------
(***************************************************************************)
(* The builders of five kinds of api over fourteen months from Christmas   *)
(* 2023: a daily one, one of instruments with two columns to a query, one  *)
(* whose later entry takes a key over from an earlier one, one with no key *)
(* but NOW, and one with no key at all; and a builder without its api's    *)
(* key.                                                                    *)
(***************************************************************************)
EXTENDS Generation

MCFirstDay == On(2023, 12, 25)

Db(keys, query)    == [keys |-> keys, from |-> "db", query |-> query]
Word(key, word)    == [keys |-> <<key>>, from |-> "date", word |-> word]
Literal(key, v)    == [keys |-> <<key>>, from |-> "literal", value |-> v]
KeyParam(key, col) == [key |-> key, column |-> col]

MCBuilders == [
  daily  |-> [api |-> "trades", axes |-> <<Word("BASDD", "last_bday"), Db(<<"MKT">>, "markets")>>],
  chart  |-> [api |-> "chart", axes |-> <<Db(<<"CODE", "NAME">>, "codes"), Literal("GRP", Code("g"))>>],
  old    |-> [api |-> "history", axes |-> <<Db(<<"CODE", "DAY">>, "listed"), Word("DAY", "yesterday")>>],
  ticker |-> [api |-> "ticker", axes |-> <<Literal("GRP", Code("g"))>>],
  notes  |-> [api |-> "notes", axes |-> <<Db(<<"CODE">>, "markets")>>],
  wrong  |-> [api |-> "chart", axes |-> <<Literal("GRP", Code("g"))>>]]

MCKeyParams == [
  trades  |-> <<KeyParam("BASDD", "std_dt"), KeyParam("MKT", NoColumn)>>,
  chart   |-> <<KeyParam("CODE", "code"), KeyParam(Now, "trade_at")>>,
  history |-> <<KeyParam("CODE", NoColumn), KeyParam("DAY", "std_dt")>>,
  ticker  |-> <<KeyParam(Now, NoColumn)>>,
  notes   |-> <<>>]

c1 == Code("c1")
c2 == Code("c2")
n1 == Code("n1")
n2 == Code("n2")
D1 == On(2023, 12, 22)
D2 == On(2023, 12, 21)

MCAnswers == [
  markets |-> {<<>>, <<<<c1>>>>, <<<<c1>>, <<c2>>>>},
  codes   |-> {<<<<c1, n1>>, <<c2, n1>>>>, <<<<c1, n1>>, <<c1, n2>>>>, <<<<c1, n2>>>>, <<<<c1>>>>},
  listed  |-> {<<<<c1, n1, n2>>, <<c1, n2, n2>>>>, <<<<c2, n1, n1>>>>}]

MCCycles == {Cycle(1, "m", "-"), Cycle(3, "m", "call"), Cycle(3, "m", "put"), Cycle(7, "m", "-"),
             Cycle(1, "h", "-"), Cycle(2, "h", "-"), Cycle(1, "d", "-"), Cycle(3, "d", "-"),
             Cycle(1, "w", "-"), Cycle(2, "w", "-")}

(* A source's tables, and the ways they are sent. *)
TableRows == {[code |-> c1], [code |-> c2, std_dt |-> Blank],
              [code |-> c1, std_dt |-> Day(D1, "iso")], [code |-> c2, std_dt |-> Day(D2, "short")]}
Tables == UNION {[1..k -> TableRows] : k \in 0..2}

Cells(row) == IF "std_dt" \in DOMAIN row THEN <<row.code, row.std_dt>> ELSE <<row.code>>
Grid(t) == [i \in DOMAIN t |-> Cells(t[i])]
Names == <<Caps("code"), Caps("std_dt")>>
Prose == <<Code("name"), Code("date")>>
GridSpec(part, skip, header, fields) ==
  [part |-> part, skip |-> skip, header |-> header, fields |-> fields]

Pairs(row, key(_)) ==
  LET code == <<key("code"), row.code>> IN
  IF "std_dt" \in DOMAIN row THEN <<code, <<key("std_dt"), row.std_dt>>>> ELSE <<code>>
Obj(d) == [obj |-> d]
Arr(s) == [arr |-> s]
Objs(t, key(_)) == Arr([i \in DOMAIN t |-> Obj(Pairs(t[i], key))])
JsonSpec(path, merge) == [path |-> path, merge |-> merge]

\* The places 1 and 2 are the root's and the list's; a row's elements are its
\* result and, unless the values are attributes of it, one for each value.
El(tag, attrs, text, up) == [tag |-> tag, attrs |-> attrs, text |-> text, up |-> up]
Leaf(p, how, up) ==
  CASE how = "value" -> El(p[1], <<<<Key("id"), n1>>, <<Key("value"), p[2]>>>>, Blank, up)
    [] how = "one"   -> El(p[1], <<<<Key("val"), p[2]>>>>, Blank, up)
    [] how = "named" -> El(p[1], <<<<Key("id"), n1>>, <<Key("v"), p[2]>>>>, Blank, up)
    [] how = "text"  -> El(p[1], <<>>, p[2], up)
Element(row, how, at) ==
  LET pairs == Pairs(row, Caps) IN
  IF how = "attrs" THEN <<El(Key("result"), pairs, Blank, 2)>>
  ELSE <<El(Key("result"), <<>>, Blank, 2)>> \o [i \in DOMAIN pairs |-> Leaf(pairs[i], how, at)]
Xml(t, how) ==
  FoldLeft(LAMBDA doc, row : doc \o Element(row, how, Len(doc) + 1),
           <<El(Key("root"), <<>>, Blank, 0), El(Key("data"), <<>>, Blank, 1)>>, t)

Reply(t, doc, spec, model) == [table |-> t, doc |-> doc, spec |-> spec, model |-> model]

InGrids(t) == {
  Reply(t, [type |-> "delimited", grids |-> <<<<<<>>>> \o Grid(t)>>],
        GridSpec(1, 0, FALSE, <<Key("code"), Key("std_dt")>>), "etf_pdf"),
  Reply(t, [type |-> "zip_delimited", grids |-> <<<<>>, <<Names>> \o Grid(t)>>],
        GridSpec(2, 0, TRUE, <<>>), "etf_pdf"),
  Reply(t, [type |-> "html_table", grids |-> <<<<<<n1>>>>, <<<<n1>>, Prose, <<Blank, Blank>>>> \o Grid(t)>>],
        GridSpec(2, 1, TRUE, Names), "etf_pdf"),
  Reply(t, [type |-> "xlsx", grids |-> <<<<<<Blank>>, <<n1, Blank>>, Names>> \o Grid(t)>>],
        GridSpec(1, 1, TRUE, <<>>), "etf_pdf")}

InJson(t) == {
  Reply(t, [json |-> Obj(<<<<"data", Obj(<<<<"items", Objs(t, Caps)>>>>)>>>>)],
        JsonSpec(<<"data", "items">>, <<>>), "etf_pdf"),
  Reply(t, [json |-> Objs(t, Key)], JsonSpec(<<>>, <<>>), "etf_pdf"),
  Reply(t, [json |-> Obj(<<<<"one", IF t = <<>> THEN Nothing ELSE Obj(Pairs(t[1], Caps))>>>>)],
        JsonSpec(<<"one">>, <<>>), "etf_pdf")}

InXml(t) == {Reply(t, [xml |-> Xml(t, how)],
                   [path |-> <<Key("data"), Key("result")>>,
                    attr |-> IF how = "named" THEN Key("v") ELSE Key("-")], "etf_pdf") :
             how \in {"value", "one", "named", "text", "attrs"}}

\* The reply's own date beside the rows, and a screen's dashes.
Dated == [i \in 1..2 |-> [code |-> IF i = 1 THEN c1 ELSE c2, std_dt |-> Day(D1, "dots")]]
Dashed == <<[code |-> c1, std_dt |-> Dash]>>
Odd == {
  Reply(Dated, [json |-> Obj(<<<<"asof", Day(D1, "dots")>>,
                               <<"rows", Objs(<<[code |-> c1], [code |-> c2]>>, Caps)>>>>)],
        JsonSpec(<<"rows">>, <<[target |-> Key("std_dt"), from |-> <<"asof">>]>>), "etf_pdf"),
  Reply(Dashed, [json |-> Objs(Dashed, Caps)], JsonSpec(<<>>, <<>>), "mdc")}

MCReplies ==
  Odd \cup UNION {InGrids(t) \cup InXml(t) \cup {r \in InJson(t) : r.spec.path # <<"one">> \/ Len(t) < 2} :
                  t \in Tables}

MCValidators == [etf_pdf |-> {<<"mixin", "vendor">>, <<"vendor", "mixin">>},
                 mdc     |-> {<<"mdc", "vendor">>, <<"vendor", "mdc">>}]
=============================================================================
