------------------------------ MODULE Records -------------------------------
(***************************************************************************)
(* From a reply to the rows that are saved: the readers of dynamic.py by   *)
(* response_type, rows_to_records, the selectors into XML and JSON, the    *)
(* stamp of the job's key parameters, and the validators of models.py.     *)
(*                                                                         *)
(* A record is a dict, a sequence of pairs <<key, value>> in insertion     *)
(* order; a key is a column's name and whether the source spells it in     *)
(* capitals.  A value is a code, a day in some spelling, a blank, a dash   *)
(* or nothing at all.                                                      *)
(***************************************************************************)
EXTENDS Integers, Sequences, SequencesExt, FiniteSets

Nothing   == [is |-> "none"]     \* None, null
Blank     == [is |-> "blank"]    \* "", " ", an ideographic space
Dash      == [is |-> "dash"]     \* the "-" of the screens of data.krx.co.kr
Code(c)   == [code |-> c]
Day(t, s) == [day |-> t, style |-> s]   \* "plain" YYYYMMDD, "iso", "dots", "short"

Key(name)   == [name |-> name, caps |-> FALSE]
Caps(name)  == [name |-> name, caps |-> TRUE]
Lower(k)    == [k EXCEPT !.caps = FALSE]

(* Dicts. *)
Keys(r)     == {r[i][1] : i \in DOMAIN r}
Get(r, k)   == IF k \in Keys(r) THEN (CHOOSE p \in ToSet(r) : p[1] = k)[2] ELSE Nothing
Put(r, p)   == IF p[1] \in Keys(r)
               THEN [i \in DOMAIN r |-> IF r[i][1] = p[1] THEN p ELSE r[i]]
               ELSE Append(r, p)
Update(r, s) == FoldLeft(Put, r, s)

-----------------------------------------------------------------------------
(* Tables: delimited text, plain or zipped, HTML, spreadsheets.  A reply of *)
(* this kind is a sequence of grids (the entries of a zip, the tables of a  *)
(* page, the sheets of a book), a grid a sequence of rows of cells.         *)

IsBlank(cell) == cell = Blank

\* A spec names its fields or has a header: one with neither is refused with a
\* ValueError (base.py:91-92), and no such spec is a value of Specs.
RowsToRecords(rows, spec) ==
  LET body   == SubSeq(rows, spec.skip + 1, Len(rows))
      header == spec.header /\ body # <<>>
      fields == IF header /\ spec.fields = <<>> THEN Head(body) ELSE spec.fields
      data   == IF header THEN Tail(body) ELSE body IN
  [i \in DOMAIN data |->
    [j \in 1..Min({Len(fields), Len(data[i])}) |->
      <<fields[j], IF IsBlank(data[i][j]) THEN Nothing ELSE data[i][j]>>]]

\* csv.reader gives no cells for an empty line; a table's or a sheet's row
\* counts when some cell of it is not blank.
Worth(type, row) ==
  IF type \in {"delimited", "zip_delimited"} THEN row # <<>>
  ELSE \E j \in DOMAIN row : ~IsBlank(row[j])

\* What has no grids at all gives no rows here; an archive without entries, a
\* book without sheets or a part beyond the last raises in the code, before
\* there is anything to save.
ParseTable(reply, spec) ==
  IF reply.grids = <<>> THEN <<>>
  ELSE RowsToRecords(SelectSeq(reply.grids[spec.part], LAMBDA r : Worth(reply.type, r)), spec)

-----------------------------------------------------------------------------
(* XML.  A document is the sequence of its elements in document order, the *)
(* root first; an element has a tag, attributes (a dict), text, and up, the *)
(* place of its parent (0: none).  Elements are named by their places.      *)

Places(doc)  == [i \in DOMAIN doc |-> i]
Kids(doc, i) == SelectSeq(Places(doc), LAMBDA k : doc[k].up = i)

\* The path <<>> is ".", the root; 'a.b' is './/a/b': the elements a below the
\* root at any depth, and of each the children b.  A selector with a '/' of its
\* own is ElementTree's to read, and is left to it.
FindAll(doc, path) ==
  LET children(els, tag) ==
        FlattenSeq([i \in DOMAIN els |-> SelectSeq(Kids(doc, els[i]), LAMBDA k : doc[k].tag = tag)])
  IN IF path = <<>> THEN <<1>>
     ELSE FoldLeft(children,
                   SelectSeq(Places(doc), LAMBDA k : k > 1 /\ doc[k].tag = Head(path)), Tail(path))

\* One child of a tag gives its value, several the list of theirs.
Grouped(doc, kids, value(_)) ==
  LET values(tag) == LET of == SelectSeq(kids, LAMBDA k : doc[k].tag = tag) IN
                     [i \in DOMAIN of |-> value(of[i])]
      one(vs) == IF Len(vs) = 1 THEN vs[1] ELSE [list |-> vs] IN
  Update(<<>>, [i \in DOMAIN kids |-> <<doc[kids[i]].tag, one(values(doc[kids[i]].tag))>>])

ScalarValue(child, attr) ==
  IF attr \in Keys(child.attrs) THEN Get(child.attrs, attr)
  ELSE IF Key("value") \in Keys(child.attrs) THEN Get(child.attrs, Key("value"))
  ELSE IF Len(child.attrs) = 1 THEN child.attrs[1][2]
  ELSE IF child.attrs # <<>> THEN [dict |-> child.attrs]
  ELSE IF IsBlank(child.text) THEN Nothing ELSE child.text

\* element -> the dict of its children, which may have children of their own.
GroupChildren(doc, attr) ==
  LET group[i \in DOMAIN doc] ==
        Grouped(doc, Kids(doc, i),
                LAMBDA k : IF Kids(doc, k) # <<>> THEN [dict |-> group[k]]
                           ELSE ScalarValue(doc[k], attr))
  IN group

XmlRecords(doc, sel) ==
  LET els == FindAll(doc, sel.path) IN
  [i \in DOMAIN els |-> IF Kids(doc, els[i]) # <<>> THEN GroupChildren(doc, sel.attr)[els[i]]
                        ELSE doc[els[i]].attrs]

-----------------------------------------------------------------------------
(* JSON: [obj |-> dict], [arr |-> sequence], or a value. *)

Member(data, part) == IF "obj" \in DOMAIN data THEN Get(data.obj, part) ELSE Nothing

JsonScalar(data, path) == FoldLeft(Member, data, path)

\* The path <<>> is ".": the document is the list.  A path that leads to nothing
\* gives no records; one that leads to a scalar, which the code would take
\* apart or fail on, is a configuration no row has.
JsonRecords(data, path) ==
  LET found == FoldLeft(Member, data, path)
      items == IF "arr" \in DOMAIN found THEN found.arr
               ELSE IF "obj" \in DOMAIN found THEN <<found>> ELSE <<>> IN
  [i \in DOMAIN items |-> items[i].obj]

\* merge_fields_json: a value of the whole reply onto every record.
MergeFields(data, records, fields) ==
  LET injected == [i \in DOMAIN fields |-> <<fields[i].target, JsonScalar(data, fields[i].from)>>] IN
  [i \in DOMAIN records |-> Update(records[i], injected)]

-----------------------------------------------------------------------------
(* parse, and run_and_save for a typed table. *)

Parse(reply, spec) ==
  IF "grids" \in DOMAIN reply THEN ParseTable(reply, spec)
  ELSE IF "xml" \in DOMAIN reply THEN XmlRecords(reply.xml, spec)
  ELSE MergeFields(reply.json, JsonRecords(reply.json, spec.path), spec.merge)

\* Faulty variant: only the first spelling of the column is put right.
FixOneStdDt(r) ==
  LET is == {i \in DOMAIN r : Lower(r[i][1]) = Key("std_dt") /\ "day" \in DOMAIN r[i][2]}
      at == Min(is) IN
  IF is = {} THEN r ELSE [r EXCEPT ![at][2].style = "plain"]

\* EtfPdfDateMixin: eight digits and nothing else, under every spelling.
FixStdDt(r) ==
  [i \in DOMAIN r |->
    IF /\ Lower(r[i][1]) = Key("std_dt") /\ "day" \in DOMAIN r[i][2]
       /\ r[i][2].style # "short"
    THEN <<r[i][1], [r[i][2] EXCEPT !.style = "plain"]>> ELSE r[i]]

\* VendorRecordBase: keys folded to lower case, blanks to None.  Of two keys
\* that fold together the later one's value stays.
FoldVendor(r) ==
  Update(<<>>, [i \in DOMAIN r |->
    <<Lower(r[i][1]), IF IsBlank(r[i][2]) THEN Nothing ELSE r[i][2]>>])

\* MdcRecordBase: a dash is None.
FoldMdc(r) ==
  [i \in DOMAIN r |-> IF r[i][2] = Dash THEN <<r[i][1], Nothing>> ELSE r[i]]

Validator(v, r) ==
  CASE v = "mixin" -> FixStdDt(r) [] v = "vendor" -> FoldVendor(r) [] v = "mdc" -> FoldMdc(r)

Validated(r, validators) == FoldLeft(LAMBDA s, v : Validator(v, s), r, validators)

\* The job's key columns first, the record last: the source's own data wins.
Row(r, stamp, validators) == Validated(Update(stamp, r), validators)

\* What reaches the table: the model's columns.
Columns(row, names) == [c \in names |-> Get(row, Key(c))]
=============================================================================
