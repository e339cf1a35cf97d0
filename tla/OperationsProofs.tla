-------------------------- MODULE OperationsProofs --------------------------
(***************************************************************************)
(* Theorems about the machine's processes.  The API server: what it        *)
(* promises of its rows and of its lists, for any table, filter, page size *)
(* and number of requests; the spacing of requests to a host, for any      *)
(* number of threads, processes, restarts, hosts and intervals.  The       *)
(* timers' units: what one that ended well has done, for any units, lines, *)
(* procedures and days; and the tokens in .env, as long as one unit        *)
(* refreshes them.                                                         *)
(***************************************************************************)
EXTENDS Operations, AdminApi, FiniteSetTheorems, SequenceTheorems, TLAPS

-----------------------------------------------------------------------------
(* Types. *)

Row  == [at : Nat, field : Field]
Part == UNION {[s -> Values] : s \in SUBSET Fields}
AdminRequest ==
  {Idle}
  \cup [op : {"create"}, id : Ids, field : Field, loaded : Field]
  \cup [op : {"update"}, id : Ids, field : Part, loaded : Field]
  \cup [op : {"delete"}, id : Ids, field : {<<>>}, loaded : Field]

TableOK ==
  /\ clock \in Nat
  /\ DOMAIN rows \subseteq Ids /\ IsFiniteSet(DOMAIN rows)
  /\ rows \in [DOMAIN rows -> Row]
  /\ \A i \in DOMAIN rows : rows[i].at <= clock

AdminTypeOK ==
  /\ TableOK
  /\ written \in [DOMAIN rows -> Field]
  /\ req \in [Requests -> AdminRequest]
  /\ offset \in Nat \cup {NoReading} /\ total \in Nat
  /\ seen \in Seq(Ids)
  /\ {counted, stirred, left} \subseteq BOOLEAN
  /\ still \subseteq Ids

-----------------------------------------------------------------------------
(* The place of a row in the list: how many come before it. *)

Ahead(x) == {y \in Listed : Before(y, x)}
Rank(x)  == Cardinality(Ahead(x))

\* The caller's pages.  Both counts of a finished reading are the list's.
PageInv ==
  /\ offset = NoReading => seen = <<>> /\ ~counted
  /\ counted => offset # NoReading /\ ~LastPage
  /\ offset # NoReading => Len(seen) <= offset

\* Rows nobody has touched do not move back: one whose place is before the
\* offset has been on a page.
StillInv ==
  offset # NoReading /\ ~left =>
    /\ still \subseteq Listed
    /\ IF LastPage THEN still \subseteq ToSet(seen)
       ELSE \A x \in still : Rank(x) < offset => x \in ToSet(seen)

\* While nothing changes, the pages so far are the head of the list.
HeadInv ==
  offset # NoReading /\ ~stirred =>
    /\ ~left
    /\ \A m \in DOMAIN seen : seen[m] \in Listed /\ Rank(seen[m]) = m - 1
    /\ counted \/ offset > 0 => total = Cardinality(Listed)
    /\ LastPage => Len(seen) = Cardinality(Listed)

ReadingInv == PageInv /\ StillInv /\ HeadInv

-----------------------------------------------------------------------------
(* Sequences that arrange a set, and the minimum Page takes. *)

LEMMA MinOfTwo ==
  ASSUME NEW a \in Int, NEW b \in Int
  PROVE  Min({a, b}) = IF a <= b THEN a ELSE b
<1> DEFINE c == IF a <= b THEN a ELSE b
<1>1. c \in {a, b} /\ \A y \in {a, b} : c <= y
  OBVIOUS
<1>2. Min({a, b}) \in {a, b} /\ \A y \in {a, b} : Min({a, b}) <= y
  BY <1>1 DEF Min
<1> QED BY <1>1, <1>2

LEMMA Arrangement ==
  ASSUME NEW S, IsFiniteSet(S), NEW s \in SetToSeqs(S)
  PROVE  /\ s \in Seq(S) /\ Len(s) = Cardinality(S) /\ Cardinality(S) \in Nat
         /\ \A i, j \in 1..Len(s) : s[i] = s[j] => i = j
         /\ \A x \in S : \E m \in 1..Len(s) : s[m] = x
<1> DEFINE n == Cardinality(S)
<1>1. n \in Nat
  BY FS_CardinalityType
<1>2. s \in [1..n -> S] /\ \A i, j \in 1..n : s[i] = s[j] => i = j
  BY DEF SetToSeqs
<1> HIDE DEF n
<1>3. s \in Seq(S) /\ Len(s) = n
  BY <1>1, <1>2
<1>4. s \in Injection(1..n, S)
  BY <1>2 DEF Injection, IsInjective
<1>5. Cardinality(1..n) = n
  BY <1>1, FS_Interval
<1>6. s \in Surjection(1..n, S)
  BY <1>4, <1>5, FS_Injection DEF n
<1>7. \A x \in S : \E m \in 1..n : s[m] = x
  BY <1>6 DEF Surjection
<1> QED BY <1>1, <1>2, <1>3, <1>7 DEF n

-----------------------------------------------------------------------------
(* The order of the list. *)

LEMMA ListFinite ==
  ASSUME TableOK
  PROVE  /\ IsFiniteSet(Listed) /\ Cardinality(Listed) \in Nat
         /\ \A x : IsFiniteSet(Ahead(x)) /\ Rank(x) \in Nat
<1>1. Listed \in SUBSET DOMAIN rows
  BY DEF Listed
<1>2. IsFiniteSet(Listed)
  BY <1>1, FS_Subset DEF TableOK
<1>3. \A x : Ahead(x) \in SUBSET Listed
  BY DEF Ahead
<1>4. \A x : IsFiniteSet(Ahead(x))
  BY <1>2, <1>3, FS_Subset
<1> QED BY <1>2, <1>4, FS_CardinalityType DEF Rank

LEMMA RowType ==
  ASSUME TableOK, NEW i \in DOMAIN rows
  PROVE  i \in Nat /\ rows[i] \in Row /\ rows[i].at \in Nat /\ rows[i].field \in Field
<1>1. rows[i] \in Row
  BY DEF TableOK
<1>2. rows[i].at \in Nat /\ rows[i].field \in Field
  BY <1>1 DEF Row
<1>3. i \in Nat
  BY AdminAssumption DEF TableOK
<1> QED BY <1>1, <1>2, <1>3

\* Of two rows one comes first: the key breaks every tie of updated_at.
LEMMA BeforeTotal ==
  ASSUME TableOK, NEW i \in DOMAIN rows, NEW j \in DOMAIN rows, i # j
  PROVE  Before(i, j) \/ Before(j, i)
<1> DEFINE a == rows[i].at
           b == rows[j].at
<1>1. i \in Nat /\ j \in Nat /\ a \in Nat /\ b \in Nat
  BY RowType
<1> HIDE DEF a, b
<1>2. (a > b \/ (a = b /\ i < j)) \/ (b > a \/ (b = a /\ j < i))
  BY <1>1
<1> QED BY <1>2 DEF Before, a, b

\* In any arrangement the ORDER BY allows, every row is at its place.
LEMMA Places ==
  ASSUME TableOK, NEW s \in SetToSeqs(Listed), Arranged(s), NEW m \in 1..Len(s)
  PROVE  Rank(s[m]) = m - 1
<1>1. /\ s \in Seq(Listed) /\ Len(s) \in Nat
      /\ \A i, j \in 1..Len(s) : s[i] = s[j] => i = j
      /\ \A x \in Listed : \E k \in 1..Len(s) : s[k] = x
  BY ListFinite, Arrangement
<1>2. \A k \in 1..Len(s) : s[k] \in Listed /\ s[k] \in DOMAIN rows
  BY <1>1 DEF Listed
<1>3. \A k, l \in 1..Len(s) : Before(s[k], s[l]) => k < l
  <2>1. DOMAIN s = 1..Len(s)
    BY <1>1
  <2> QED BY <2>1 DEF Arranged
<1>4. ASSUME NEW k \in 1..Len(s) PROVE Before(s[k], s[m]) <=> k < m
  <2>1. CASE k = m
    BY <1>3, <2>1
  <2>2. CASE k # m
    <3>1. s[k] # s[m]
      BY <1>1, <2>2
    <3>2. Before(s[k], s[m]) \/ Before(s[m], s[k])
      BY <1>2, <3>1, BeforeTotal
    <3> QED BY <1>3, <3>2
  <2> QED BY <2>1, <2>2
<1> DEFINE D == 1..(m - 1)
           f == [k \in D |-> s[k]]
<1>5. D \subseteq 1..Len(s) /\ \A k \in 1..Len(s) : k \in D <=> k < m
  BY <1>1
<1>6. \A k \in D : f[k] \in Ahead(s[m])
  BY <1>2, <1>4, <1>5 DEF Ahead
<1>7. \A y \in Ahead(s[m]) : \E k \in D : f[k] = y
  BY <1>1, <1>4, <1>5 DEF Ahead
<1>8. \A k, l \in D : f[k] = f[l] => k = l
  BY <1>1, <1>5
<1>9. f \in Bijection(D, Ahead(s[m]))
  BY <1>6, <1>7, <1>8 DEF Bijection, Injection, Surjection, IsInjective
<1>10. IsFiniteSet(D) /\ Cardinality(D) = m - 1
  BY FS_Interval
<1> QED BY <1>9, <1>10, FS_Bijection DEF ExistsBijection, Rank

-----------------------------------------------------------------------------
(* Requests and the rows they write. *)

LEMMA RequestType ==
  ASSUME AdminTypeOK, NEW q \in Requests
  PROVE  /\ req[q].op = "create" => req[q].id \in Ids /\ req[q].field \in Field
         /\ req[q].op = "update" =>
              /\ req[q].id \in Ids /\ req[q].loaded \in Field
              /\ DOMAIN req[q].field \subseteq Fields
              /\ \A f \in DOMAIN req[q].field : req[q].field[f] \in Values
         /\ req[q].op = "delete" => req[q].id \in Ids
<1>1. req[q] \in AdminRequest
  BY DEF AdminTypeOK
<1>2. \A p \in Part : DOMAIN p \subseteq Fields /\ \A f \in DOMAIN p : p[f] \in Values
  BY DEF Part
<1> QED BY <1>1, <1>2 DEF AdminRequest, Idle

\* The columns an UPDATE writes make a row of the table.
LEMMA ColumnsType ==
  ASSUME AdminTypeOK, NEW q \in Requests, req[q].op = "update", NEW w \in Field
  PROVE  SetColumns(req[q], w) \in Field
<1> DEFINE b == req[q].field
           l == req[q].loaded
<1>1. \A f \in DOMAIN b : b[f] \in Values
  BY RequestType
<1>2. \A f \in Fields : w[f] \in Values
  BY DEF Field
<1>3. SetColumns(req[q], w) = [f \in Fields |-> IF f \in DOMAIN b /\ b[f] # l[f] THEN b[f] ELSE w[f]]
  BY DEF SetColumns
<1> HIDE DEF b, l
<1> QED BY <1>1, <1>2, <1>3 DEF Field

\* The table and the history of one row, written at the instant now'.
Wrote(i) ==
  /\ clock' \in {clock, clock + 1}
  /\ \A x : x # i => (x \in DOMAIN rows' <=> x \in DOMAIN rows)
  /\ \A x \in DOMAIN rows : x # i => rows'[x] = rows[x]
  /\ i \in DOMAIN rows' => rows'[i].at = clock'

LEMMA CreateWrites ==
  ASSUME AdminTypeOK, FieldsSurvive, NEW q \in Requests, Create(q)
  PROVE  /\ TableOK' /\ written' \in [DOMAIN rows' -> Field] /\ FieldsSurvive'
         /\ \/ UNCHANGED <<table, still, stirred, left>>
            \/ \E i \in Ids : Wrote(i) /\ Touch(i)
<1> DEFINE i == req[q].id
           f == req[q].field
<1>1. req[q].op = "create" /\ i \in Ids /\ f \in Field
  BY RequestType DEF Create
<1>2. \/ UNCHANGED <<table, still, stirred, left, written>>
      \/ /\ i \notin DOMAIN rows /\ Instant /\ Touch(i)
         /\ rows' = [x \in DOMAIN rows \cup {i} |->
                      IF x = i THEN [at |-> clock', field |-> f] ELSE rows[x]]
         /\ written' = [x \in DOMAIN written \cup {i} |-> IF x = i THEN f ELSE written[x]]
  BY DEF Create
<1> HIDE DEF i, f
<1>3. CASE UNCHANGED <<table, still, stirred, left, written>>
  BY <1>3 DEF table, AdminTypeOK, TableOK, FieldsSurvive
<1>4. CASE /\ i \notin DOMAIN rows /\ Instant /\ Touch(i)
           /\ rows' = [x \in DOMAIN rows \cup {i} |->
                        IF x = i THEN [at |-> clock', field |-> f] ELSE rows[x]]
           /\ written' = [x \in DOMAIN written \cup {i} |-> IF x = i THEN f ELSE written[x]]
  <2>1. clock \in Nat /\ clock' \in {clock, clock + 1}
    BY <1>4 DEF Instant, AdminTypeOK, TableOK
  <2>2. clock' \in Nat /\ clock <= clock'
    BY <2>1
  <2>3. DOMAIN rows' = DOMAIN rows \cup {i} /\ IsFiniteSet(DOMAIN rows')
    BY <1>4, FS_AddElement DEF AdminTypeOK, TableOK
  <2>4. rows'[i] = [at |-> clock', field |-> f] /\ \A x \in DOMAIN rows : x # i => rows'[x] = rows[x]
    BY <1>4
  <2>5. ASSUME NEW x \in DOMAIN rows' PROVE rows'[x] \in Row /\ rows'[x].at <= clock'
    <3>1. CASE x = i
      BY <2>2, <2>4, <1>1, <3>1 DEF Row
    <3>2. CASE x # i
      <4>1. x \in DOMAIN rows /\ rows'[x] = rows[x]
        BY <2>3, <2>4, <3>2
      <4>2. rows[x] \in Row /\ rows[x].at \in Nat /\ rows[x].at <= clock
        BY <4>1, RowType DEF AdminTypeOK, TableOK
      <4> QED BY <4>1, <4>2, <2>1, <2>2
    <3> QED BY <3>1, <3>2
  <2>6. TableOK'
    <3>1. rows' \in [DOMAIN rows' -> Row]
      BY <1>4, <2>5
    <3>2. DOMAIN rows' \subseteq Ids
      BY <1>1, <2>3 DEF AdminTypeOK, TableOK
    <3> QED BY <2>2, <2>3, <2>5, <3>1, <3>2 DEF TableOK
  <2>7. written' \in [DOMAIN rows' -> Field]
    BY <1>1, <1>4, <2>3 DEF AdminTypeOK, FieldsSurvive
  <2>8. FieldsSurvive'
    <3>1. DOMAIN rows' = DOMAIN written'
      BY <1>4, <2>3 DEF FieldsSurvive
    <3>2. ASSUME NEW x \in DOMAIN rows' PROVE rows'[x].field = written'[x]
      <4>1. CASE x = i
        BY <1>4, <2>4, <4>1
      <4>2. CASE x # i
        BY <1>4, <2>3, <2>4, <4>2 DEF FieldsSurvive
      <4> QED BY <4>1, <4>2
    <3> QED BY <3>1, <3>2 DEF FieldsSurvive
  <2>9. Wrote(i)
    BY <2>1, <2>3, <2>4 DEF Wrote
  <2> QED BY <1>1, <1>4, <2>6, <2>7, <2>8, <2>9
<1> QED BY <1>2, <1>3, <1>4

LEMMA UpdateWrites ==
  ASSUME AdminTypeOK, FieldsSurvive, NEW q \in Requests, Update(q)
  PROVE  /\ TableOK' /\ written' \in [DOMAIN rows' -> Field] /\ FieldsSurvive'
         /\ \/ UNCHANGED <<table, still, stirred, left>>
            \/ \E i \in Ids : Wrote(i) /\ Touch(i)
<1> DEFINE i == req[q].id
           b == req[q].field
           l == req[q].loaded
           dirty == {f \in DOMAIN b : b[f] # l[f]}
           new == SetColumns(req[q], rows[i].field)
<1>1. req[q].op = "update" /\ i \in Ids
  BY RequestType DEF Update
<1>2. \/ UNCHANGED <<table, still, stirred, left, written>>
      \/ /\ i \in DOMAIN rows /\ Instant /\ Touch(i)
         /\ rows' = [rows EXCEPT ![i] = [at |-> clock', field |-> SetColumns(req[q], @.field)]]
         /\ written' = [written EXCEPT ![i] = [f \in Fields |-> IF f \in dirty THEN b[f] ELSE @[f]]]
  BY DEF Update
<1>3. CASE UNCHANGED <<table, still, stirred, left, written>>
  BY <1>3 DEF table, AdminTypeOK, TableOK, FieldsSurvive
<1>4. CASE /\ i \in DOMAIN rows /\ Instant /\ Touch(i)
           /\ rows' = [rows EXCEPT ![i] = [at |-> clock', field |-> SetColumns(req[q], @.field)]]
           /\ written' = [written EXCEPT ![i] = [f \in Fields |-> IF f \in dirty THEN b[f] ELSE @[f]]]
  <2>1. clock \in Nat /\ clock' \in {clock, clock + 1}
    BY <1>4 DEF Instant, AdminTypeOK, TableOK
  <2>2. clock' \in Nat /\ clock <= clock'
    BY <2>1
  <2>3. new \in Field /\ new = [f \in Fields |-> IF f \in dirty THEN b[f] ELSE rows[i].field[f]]
    <3>1. rows[i].field \in Field
      BY <1>4, RowType DEF AdminTypeOK
    <3> QED BY <1>1, <3>1, ColumnsType DEF SetColumns
  <2>4. rows' = [rows EXCEPT ![i] = [at |-> clock', field |-> new]]
    BY <1>4
  <2>5. written[i] = rows[i].field /\ DOMAIN written = DOMAIN rows
    BY <1>4 DEF FieldsSurvive
  <2>6. written' = [written EXCEPT ![i] = new]
    BY <1>4, <2>3, <2>5
  <2> HIDE DEF new, dirty, b, l, i
  <2>7. DOMAIN rows' = DOMAIN rows
    BY <2>4
  <2>8. rows'[i] = [at |-> clock', field |-> new] /\ \A x \in DOMAIN rows : x # i => rows'[x] = rows[x]
    BY <1>4, <2>4
  <2>9. ASSUME NEW x \in DOMAIN rows' PROVE rows'[x] \in Row /\ rows'[x].at <= clock'
    <3>1. CASE x = i
      BY <2>2, <2>3, <2>8, <3>1 DEF Row
    <3>2. CASE x # i
      <4>1. x \in DOMAIN rows /\ rows'[x] = rows[x]
        BY <2>7, <2>8, <3>2
      <4>2. rows[x] \in Row /\ rows[x].at \in Nat /\ rows[x].at <= clock
        BY <4>1, RowType DEF AdminTypeOK, TableOK
      <4> QED BY <4>1, <4>2, <2>1, <2>2
    <3> QED BY <3>1, <3>2
  <2>10. TableOK'
    <3>1. rows' \in [DOMAIN rows' -> Row]
      <4>1. rows' = [x \in DOMAIN rows' |-> rows'[x]]
        BY <2>4, <2>7
      <4> QED BY <2>9, <4>1
    <3> QED BY <2>2, <2>7, <2>9, <3>1 DEF AdminTypeOK, TableOK
  <2>11. written' \in [DOMAIN rows' -> Field]
    BY <2>3, <2>6, <2>7 DEF AdminTypeOK
  <2>12. FieldsSurvive'
    <3>1. DOMAIN rows' = DOMAIN written'
      BY <2>5, <2>6, <2>7
    <3>2. ASSUME NEW x \in DOMAIN rows' PROVE rows'[x].field = written'[x]
      <4>1. CASE x = i
        BY <2>5, <2>6, <2>7, <2>8, <4>1
      <4>2. CASE x # i
        BY <2>5, <2>6, <2>7, <2>8, <4>2 DEF FieldsSurvive
      <4> QED BY <4>1, <4>2
    <3> QED BY <3>1, <3>2 DEF FieldsSurvive
  <2>13. Wrote(i)
    BY <2>1, <2>7, <2>8 DEF Wrote
  <2> QED BY <1>1, <1>4, <2>10, <2>11, <2>12, <2>13
<1> QED BY <1>2, <1>3, <1>4

LEMMA DeleteWrites ==
  ASSUME AdminTypeOK, FieldsSurvive, NEW q \in Requests, Delete(q)
  PROVE  /\ TableOK' /\ written' \in [DOMAIN rows' -> Field] /\ FieldsSurvive'
         /\ \/ UNCHANGED <<table, still, stirred, left>>
            \/ \E i \in Ids : Wrote(i) /\ Touch(i)
<1> DEFINE i == req[q].id
           D == DOMAIN rows \ {i}
<1>1. req[q].op = "delete" /\ i \in Ids
  BY RequestType DEF Delete
<1>2. /\ rows' = [x \in D |-> rows[x]] /\ written' = [x \in D |-> written[x]]
      /\ clock' = clock
      /\ IF i \in DOMAIN rows THEN Touch(i) ELSE UNCHANGED <<still, stirred, left>>
  BY DEF Delete, FieldsSurvive
<1> HIDE DEF i
<1>3. DOMAIN rows' = D /\ \A x \in D : x \in DOMAIN rows /\ rows'[x] = rows[x]
  BY <1>2
<1>4. TableOK'
  <2>1. IsFiniteSet(D)
    BY FS_RemoveElement DEF AdminTypeOK, TableOK
  <2>2. rows' \in [D -> Row]
    BY <1>2 DEF AdminTypeOK, TableOK
  <2> QED BY <1>2, <1>3, <2>1, <2>2 DEF AdminTypeOK, TableOK
<1>5. written' \in [DOMAIN rows' -> Field]
  BY <1>2, <1>3 DEF AdminTypeOK
<1>6. FieldsSurvive'
  BY <1>2, <1>3 DEF FieldsSurvive
<1>7. CASE i \in DOMAIN rows
  <2>1. Wrote(i)
    BY <1>2, <1>3 DEF Wrote
  <2> QED BY <1>1, <1>2, <1>4, <1>5, <1>6, <1>7, <2>1
<1>8. CASE i \notin DOMAIN rows
  <2>1. rows' = rows
    BY <1>2, <1>8 DEF AdminTypeOK, TableOK
  <2> QED BY <1>2, <1>4, <1>5, <1>6, <1>8, <2>1 DEF table
<1> QED BY <1>7, <1>8

-----------------------------------------------------------------------------
(* The type invariant, and what a row holds. *)

LEMMA AdminTypeInit == AdminInit => AdminTypeOK /\ FieldsSurvive
<1> SUFFICES ASSUME AdminInit PROVE AdminTypeOK /\ FieldsSurvive
  OBVIOUS
<1>1. PICK f \in [Initial -> Field] :
        rows = [i \in Initial |-> [at |-> 0, field |-> f[i]]] /\ written = f
  BY DEF AdminInit
<1>2. TableOK
  BY <1>1, AdminAssumption DEF AdminInit, TableOK, Row
<1>3. req \in [Requests -> AdminRequest]
  BY DEF AdminInit, AdminRequest
<1>4. seen \in Seq(Ids) /\ still \subseteq Ids
  BY DEF AdminInit
<1>5. /\ offset \in Nat \cup {NoReading} /\ total \in Nat
      /\ {counted, stirred, left} \subseteq BOOLEAN
  BY DEF AdminInit, NoReading
<1>6. written \in [DOMAIN rows -> Field] /\ FieldsSurvive
  BY <1>1 DEF FieldsSurvive
<1> QED BY <1>2, <1>3, <1>4, <1>5, <1>6 DEF AdminTypeOK

\* What a page appends.
Taken(s) == SubSeq(s, offset + 1, Min({offset + Limit, Len(s)}))

LEMMA TakenType ==
  ASSUME AdminTypeOK, offset # NoReading, NEW s \in SetToSeqs(Listed)
  PROVE  /\ Taken(s) \in Seq(Ids)
         /\ LET e == IF offset + Limit <= Len(s) THEN offset + Limit ELSE Len(s) IN
            /\ Len(Taken(s)) = IF offset + 1 <= e THEN e - offset ELSE 0
            /\ \A k \in 1..(e - offset) : Taken(s)[k] = s[offset + k]
<1>1. /\ s \in Seq(Listed) /\ Len(s) \in Nat
  BY ListFinite, Arrangement DEF AdminTypeOK
<1>2. offset \in Nat /\ Limit \in Nat \ {0}
  BY AdminAssumption DEF AdminTypeOK
<1> DEFINE e == IF offset + Limit <= Len(s) THEN offset + Limit ELSE Len(s)
           a == offset + 1
<1>3. Min({offset + Limit, Len(s)}) = e
  BY <1>1, <1>2, MinOfTwo
<1>4. e \in Int /\ a \in Int /\ e <= Len(s) /\ 1 <= a
  BY <1>1, <1>2
<1>5. Taken(s) = SubSeq(s, a, e)
  BY <1>3 DEF Taken
<1>6. e - a + 1 = e - offset
  BY <1>2, <1>4
<1>7. a + 0 = offset + 1
  BY <1>2
<1> HIDE DEF e, a
<1>8. \A k \in a..e : k \in 1..Len(s)
  BY <1>1, <1>4
<1>9. \A k \in a..e : s[k] \in Ids
  <2>1. Listed \subseteq Ids
    BY DEF Listed, AdminTypeOK, TableOK
  <2> QED BY <1>1, <1>8, <2>1
<1>10. /\ SubSeq(s, a, e) \in Seq(Ids)
       /\ Len(SubSeq(s, a, e)) = IF a <= e THEN e - a + 1 ELSE 0
       /\ \A k \in 1..(e - a + 1) : SubSeq(s, a, e)[k] = s[a + k - 1]
  BY <1>4, <1>9, SubSeqProperties
<1>11. \A k \in 1..(e - offset) : a + k - 1 = offset + k
  BY <1>2, <1>4 DEF a
<1>12. \A k \in 1..(e - offset) : Taken(s)[k] = s[offset + k]
  BY <1>5, <1>6, <1>10, <1>11
<1>13. Len(Taken(s)) = IF offset + 1 <= e THEN e - offset ELSE 0
  BY <1>5, <1>6, <1>10 DEF a
<1> QED BY <1>5, <1>10, <1>12, <1>13 DEF e

LEMMA AdminTypeNext == AdminTypeOK /\ FieldsSurvive /\ PageInv /\ [AdminNext]_adminVars => AdminTypeOK' /\ FieldsSurvive'
<1> SUFFICES ASSUME AdminTypeOK, FieldsSurvive, PageInv, [AdminNext]_adminVars PROVE AdminTypeOK' /\ FieldsSurvive'
  OBVIOUS
<1>1. ASSUME NEW q \in Requests, req' = [req EXCEPT ![q] = Idle] PROVE req' \in [Requests -> AdminRequest]
  BY <1>1 DEF AdminTypeOK, AdminRequest
<1>2. ASSUME UNCHANGED <<rows, written, clock>>
      PROVE  TableOK' /\ written' \in [DOMAIN rows' -> Field] /\ FieldsSurvive'
  BY <1>2 DEF AdminTypeOK, TableOK, FieldsSurvive
<1>3. ASSUME NEW i \in Ids, Touch(i)
      PROVE  {stirred', left'} \subseteq BOOLEAN /\ still' \subseteq Ids
  BY <1>3 DEF Touch, AdminTypeOK
<1>4. ASSUME UNCHANGED reading PROVE /\ offset' \in Nat \cup {NoReading} /\ total' \in Nat
                                     /\ seen' \in Seq(Ids) /\ counted' \in BOOLEAN
  BY <1>4 DEF reading, AdminTypeOK
<1>5. ASSUME NEW q \in Requests, NEW i \in Ids, NEW op, NEW f, Load(q, op, i, f),
             \/ op = "create" /\ f \in Field
             \/ op = "update" /\ f \in Part
             \/ op = "delete" /\ f = <<>>
      PROVE  AdminTypeOK' /\ FieldsSurvive'
  <2> DEFINE r == [op |-> op, id |-> i, field |-> f,
                   loaded |-> IF op = "create" THEN f ELSE rows[i].field]
  <2>1. req' = [req EXCEPT ![q] = r]
    BY <1>5 DEF Load
  <2>2. op # "create" => rows[i].field \in Field
    BY <1>5, RowType DEF Load, AdminTypeOK
  <2>3. r \in AdminRequest
    BY <1>5, <2>2 DEF AdminRequest
  <2> HIDE DEF r
  <2>4. req' \in [Requests -> AdminRequest]
    BY <2>1, <2>3 DEF AdminTypeOK
  <2>5. UNCHANGED <<rows, written, clock, still, stirred, left>> /\ UNCHANGED reading
    BY <1>5 DEF Load, table
  <2> QED BY <1>2, <1>4, <2>4, <2>5 DEF AdminTypeOK
<1>6. ASSUME NEW q \in Requests, Create(q) \/ Update(q) \/ Delete(q)
      PROVE  AdminTypeOK' /\ FieldsSurvive'
  <2>1. /\ TableOK' /\ written' \in [DOMAIN rows' -> Field] /\ FieldsSurvive'
        /\ \/ UNCHANGED <<table, still, stirred, left>>
           \/ \E i \in Ids : Wrote(i) /\ Touch(i)
    BY <1>6, CreateWrites, UpdateWrites, DeleteWrites
  <2>2. UNCHANGED reading /\ req' \in [Requests -> AdminRequest]
    BY <1>1, <1>6 DEF Create, Update, Delete, Answer
  <2>3. {stirred', left'} \subseteq BOOLEAN /\ still' \subseteq Ids
    BY <1>3, <2>1 DEF AdminTypeOK
  <2> QED BY <1>4, <2>1, <2>2, <2>3 DEF AdminTypeOK
<1>7. CASE OpenList
  <2>1. still' \subseteq Ids
    BY <1>7 DEF OpenList, Listed, AdminTypeOK, TableOK
  <2>2. offset' \in Nat \cup {NoReading} /\ {stirred', left'} \subseteq BOOLEAN
    BY <1>7 DEF OpenList
  <2> QED BY <1>2, <1>7, <2>1, <2>2 DEF OpenList, table, AdminTypeOK
<1>8. CASE Count
  <2>1. total' \in Nat
    BY <1>8, ListFinite DEF Count, AdminTypeOK
  <2> QED BY <1>2, <1>8, <2>1 DEF Count, table, history, AdminTypeOK
<1>9. CASE Page
  <2> offset # NoReading
    BY <1>9 DEF Page, PageInv
  <2>1. PICK s \in SetToSeqs(Listed) : seen' = seen \o Taken(s)
    BY <1>9 DEF Page, Taken
  <2>2. seen' \in Seq(Ids)
    BY <1>9, <2>1, TakenType, ConcatProperties DEF AdminTypeOK
  <2>3. offset' \in Nat
    BY <1>9, AdminAssumption DEF Page, AdminTypeOK
  <2> QED BY <1>2, <1>9, <2>2, <2>3 DEF Page, table, history, AdminTypeOK
<1>10. CASE CloseList
  <2>1. still' \subseteq Ids /\ seen' \in Seq(Ids)
    BY <1>10 DEF CloseList
  <2>2. /\ offset' \in Nat \cup {NoReading} /\ {stirred', left'} \subseteq BOOLEAN
        /\ total' \in Nat
    BY <1>10 DEF CloseList
  <2> QED BY <1>2, <1>10, <2>1, <2>2 DEF CloseList, table, AdminTypeOK
<1>11. CASE UNCHANGED adminVars
  BY <1>2, <1>11 DEF adminVars, AdminTypeOK
<1>12. ASSUME NEW q \in Requests, NEW i \in Ids,
              NEW s \in SUBSET Fields \ {{}}, NEW f \in [s -> Values]
       PROVE  f \in Part
  BY DEF Part
<1> QED BY <1>5, <1>6, <1>7, <1>8, <1>9, <1>10, <1>11, <1>12 DEF AdminNext

LEMMA PageInit == AdminInit => PageInv
BY DEF AdminInit, PageInv

LEMMA PageNext == AdminTypeOK /\ PageInv /\ [AdminNext]_adminVars => PageInv'
<1> SUFFICES ASSUME AdminTypeOK, PageInv, [AdminNext]_adminVars PROVE PageInv'
  OBVIOUS
<1>1. ASSUME UNCHANGED reading PROVE PageInv'
  BY <1>1 DEF reading, PageInv, LastPage
<1>2. ASSUME NEW q \in Requests, NEW i, NEW op, NEW f, Load(q, op, i, f) PROVE PageInv'
  BY <1>1, <1>2 DEF Load
<1>3. ASSUME NEW q \in Requests, Create(q) \/ Update(q) \/ Delete(q) PROVE PageInv'
  BY <1>1, <1>3 DEF Create, Update, Delete
<1>4. CASE OpenList
  BY <1>4 DEF OpenList, PageInv, LastPage, NoReading
<1>5. CASE Count
  BY <1>5 DEF Count, PageInv, LastPage
<1>6. CASE Page
  <2>1. PICK s \in SetToSeqs(Listed) : seen' = seen \o Taken(s)
    BY <1>6 DEF Page, Taken
  <2>2. /\ offset \in Nat /\ offset' = offset + Limit /\ Limit \in Nat \ {0}
        /\ counted' = FALSE /\ Len(seen) <= offset
    BY <1>6, AdminAssumption DEF Page, PageInv, AdminTypeOK
  <2>3. Taken(s) \in Seq(Ids) /\ Len(Taken(s)) <= Limit /\ Len(s) \in Nat
    <3>1. Len(s) \in Nat
      BY ListFinite, Arrangement DEF AdminTypeOK
    <3>2. offset # NoReading
      BY <2>2 DEF NoReading
    <3> HIDE DEF Taken
    <3> QED BY <2>2, <3>1, <3>2, TakenType
  <2>4. Len(seen') = Len(seen) + Len(Taken(s))
    BY <2>1, <2>3, ConcatProperties DEF AdminTypeOK
  <2>5. Len(seen) \in Nat /\ Len(Taken(s)) \in Nat
    BY <2>3 DEF AdminTypeOK
  <2>6. Len(seen') <= offset' /\ offset' \in Nat
    BY <2>2, <2>3, <2>4, <2>5
  <2> QED BY <2>2, <2>6 DEF PageInv, NoReading
<1>7. CASE CloseList
  BY <1>7 DEF CloseList, PageInv, LastPage, NoReading
<1>8. CASE UNCHANGED adminVars
  BY <1>1, <1>8 DEF adminVars, reading
<1> QED BY <1>2, <1>3, <1>4, <1>5, <1>6, <1>7, <1>8 DEF AdminNext

\* The tables, the requests and the pages have their types in every state, for
\* any number of requests and of writes (crud.py:77-218).
THEOREM AdminTypeCorrect == AdminSpec => []AdminTypeOK
<1>1. AdminInit => AdminTypeOK /\ FieldsSurvive /\ PageInv
  BY AdminTypeInit, PageInit
<1>2. AdminTypeOK /\ FieldsSurvive /\ PageInv /\ [AdminNext]_adminVars => (AdminTypeOK /\ FieldsSurvive /\ PageInv)'
  BY AdminTypeNext, PageNext
<1> QED BY <1>1, <1>2, PTL DEF AdminSpec

\* No update is lost, for any number of requests at once: a column keeps what
\* the last request that changed it sent, whatever the others loaded before and
\* write after (crud.py:150-165).
THEOREM NoUpdateLost == AdminSpec => []FieldsSurvive
<1>1. AdminInit => AdminTypeOK /\ FieldsSurvive /\ PageInv
  BY AdminTypeInit, PageInit
<1>2. AdminTypeOK /\ FieldsSurvive /\ PageInv /\ [AdminNext]_adminVars => (AdminTypeOK /\ FieldsSurvive /\ PageInv)'
  BY AdminTypeNext, PageNext
<1> QED BY <1>1, <1>2, PTL DEF AdminSpec

-----------------------------------------------------------------------------
(* The pages. *)

\* A write puts its row at the head of the list or leaves it where it was, so
\* as long as no row leaves the list, no other row comes nearer to the head.
LEMMA WriteKeepsOrder ==
  ASSUME TableOK, TableOK', NEW i, Wrote(i), Touch(i), ~left'
  PROVE  /\ ~left
         /\ \A x \in Listed : x # i => x \in Listed' /\ Rank(x) <= Rank(x)'
<1>1. ~left /\ (i \in Listed => i \in Listed')
  BY DEF Touch, Listed
<1>2. \A x : x # i => (x \in Listed <=> x \in Listed')
  BY DEF Wrote, Listed
<1>3. ASSUME NEW x \in Listed, x # i PROVE Rank(x) <= Rank(x)'
  <2>1. x \in DOMAIN rows /\ rows'[x] = rows[x] /\ rows[x].at \in Nat
    BY <1>3, RowType DEF Wrote, Listed
  <2>2. ASSUME NEW y \in Ahead(x) PROVE y \in Ahead(x)'
    <3>1. y \in Listed /\ y \in DOMAIN rows /\ Before(y, x)
      BY DEF Ahead, Listed
    <3>2. CASE y # i
      <4>1. y \in Listed' /\ rows'[y] = rows[y]
        BY <1>2, <3>1, <3>2 DEF Wrote
      <4> QED BY <2>1, <3>1, <4>1 DEF Ahead, Before
    <3>3. CASE y = i
      <4>1. i \in Listed' /\ i \in DOMAIN rows'
        BY <1>1, <3>1, <3>3 DEF Listed
      <4>2. rows[i].at <= clock /\ rows[i].at \in Nat /\ clock \in Nat
        BY <3>1, <3>3, RowType DEF TableOK
      <4>3. rows'[i].at = clock' /\ clock' \in {clock, clock + 1}
        BY <4>1 DEF Wrote
      <4>4. rows[i].at > rows[x].at \/ (rows[i].at = rows[x].at /\ i < x)
        BY <3>1, <3>3 DEF Before
      <4>5. rows'[i].at >= rows[i].at /\ rows'[i].at \in Nat
        BY <4>2, <4>3
      <4>6. rows'[i].at > rows'[x].at \/ (rows'[i].at = rows'[x].at /\ i < x)
        BY <2>1, <4>2, <4>4, <4>5
      <4> QED BY <3>3, <4>1, <4>6 DEF Ahead, Before
    <3> QED BY <3>2, <3>3
  <2>3. Ahead(x) \subseteq Ahead(x)' /\ IsFiniteSet(Ahead(x)')
    <3>1. IsFiniteSet(Ahead(x)')
      <4>1. IsFiniteSet(DOMAIN rows')
        BY DEF TableOK
      <4>2. Ahead(x)' \in SUBSET DOMAIN rows'
        BY DEF Ahead, Listed
      <4> QED BY <4>1, <4>2, FS_Subset
    <3> QED BY <2>2, <3>1
  <2> QED BY <2>3, FS_Subset DEF Rank
<1> QED BY <1>1, <1>2, <1>3

\* The list and the places in it depend on the rows alone.
LEMMA SameRows ==
  ASSUME rows' = rows
  PROVE  Listed' = Listed /\ \A x : Rank(x)' = Rank(x)
BY DEF Listed, Rank, Ahead, Before

LEMMA ReadingInit == AdminInit => StillInv /\ HeadInv
BY DEF AdminInit, StillInv, HeadInv, NoReading

\* A step that leaves the rows and the pages alone.
LEMMA ReadingSame ==
  ASSUME ReadingInv, UNCHANGED <<rows, reading, still, stirred, left>>
  PROVE  StillInv' /\ HeadInv'
<1>1. Listed' = Listed /\ \A x : Rank(x)' = Rank(x)
  BY SameRows
<1>2. /\ offset' = offset /\ seen' = seen /\ total' = total /\ counted' = counted
      /\ still' = still /\ stirred' = stirred /\ left' = left /\ LastPage' = LastPage
  BY DEF reading, LastPage
<1>3. StillInv'
  BY <1>1, <1>2 DEF ReadingInv, StillInv
<1>4. HeadInv'
  BY <1>1, <1>2 DEF ReadingInv, HeadInv
<1> QED BY <1>3, <1>4

LEMMA ReadingWrite ==
  ASSUME AdminTypeOK, ReadingInv, AdminTypeOK', NEW i \in Ids, Wrote(i), Touch(i), UNCHANGED reading
  PROVE  StillInv' /\ HeadInv'
<1>1. HeadInv'
  BY DEF Touch, HeadInv
<1>2. /\ offset' = offset /\ seen' = seen /\ still' = still \ {i} /\ LastPage' = LastPage
  BY DEF reading, LastPage, Touch
<1>3. ASSUME offset # NoReading, ~left' PROVE StillInv'
  <2>1. ~left /\ \A x \in Listed : x # i => x \in Listed' /\ Rank(x) <= Rank(x)'
    BY <1>3, WriteKeepsOrder DEF AdminTypeOK
  <2>2. still \subseteq Listed
    BY <1>3, <2>1 DEF ReadingInv, StillInv
  <2>3. still' \subseteq Listed'
    BY <1>2, <2>1, <2>2
  <2>4. CASE LastPage
    <3>1. still \subseteq ToSet(seen)
      BY <1>3, <2>1, <2>4 DEF ReadingInv, StillInv
    <3> QED BY <1>2, <2>3, <2>4, <3>1 DEF StillInv
  <2>5. CASE ~LastPage
    <3>1. \A x \in still : Rank(x) < offset => x \in ToSet(seen)
      BY <1>3, <2>1, <2>5 DEF ReadingInv, StillInv
    <3>2. ASSUME NEW x \in still', Rank(x)' < offset PROVE x \in ToSet(seen)
      <4>1. x \in still /\ Rank(x) <= Rank(x)'
        BY <1>2, <2>1, <2>2
      <4>2. Rank(x) \in Nat /\ Rank(x)' \in Nat /\ offset \in Nat
        <5>1. IsFiniteSet(DOMAIN rows')
          BY DEF AdminTypeOK, TableOK
        <5>2. Ahead(x)' \in SUBSET DOMAIN rows'
          BY DEF Ahead, Listed
        <5>3. Rank(x)' \in Nat
          BY <5>1, <5>2, FS_Subset, FS_CardinalityType DEF Rank
        <5> QED BY <1>3, <5>3, ListFinite DEF AdminTypeOK
      <4>3. Rank(x) < offset
        BY <3>2, <4>1, <4>2
      <4> QED BY <3>1, <4>1, <4>3
    <3> QED BY <1>2, <2>3, <2>5, <3>2 DEF StillInv
  <2> QED BY <2>4, <2>5
<1> QED BY <1>1, <1>2, <1>3 DEF StillInv

\* A page continues the ones before it where they end.
LEMMA ReadingPage ==
  ASSUME AdminTypeOK, ReadingInv, Page
  PROVE  StillInv' /\ HeadInv'
<1>1. PICK s \in SetToSeqs(Listed) : Arranged(s) /\ seen' = seen \o Taken(s)
  BY DEF Page, Taken
<1>2. /\ offset' = offset + Limit /\ counted /\ ~counted' /\ total' = total /\ rows' = rows
      /\ still' = still /\ stirred' = stirred /\ left' = left
  BY DEF Page, table, history
<1>3. Listed' = Listed /\ \A x : Rank(x)' = Rank(x)
  BY <1>2, SameRows
<1>4. offset # NoReading /\ ~LastPage
  BY <1>2 DEF ReadingInv, PageInv
<1>5. offset \in Nat /\ Limit \in Nat \ {0} /\ offset' # NoReading
  BY <1>2, <1>4, AdminAssumption DEF AdminTypeOK, NoReading
<1>6. seen \in Seq(Ids) /\ Len(seen) = offset
  <2>1. seen \in Seq(Ids) /\ Len(seen) \in Nat /\ Len(seen) <= offset /\ ~(Len(seen) < offset)
    BY <1>4 DEF ReadingInv, PageInv, LastPage, AdminTypeOK
  <2> QED BY <1>5, <2>1
<1> DEFINE n == Len(s)
           e == IF offset + Limit <= n THEN offset + Limit ELSE n
           T == Taken(s)
           t == Len(T)
<1>7. /\ n \in Nat /\ n = Cardinality(Listed)
      /\ \A x \in Listed : \E m \in 1..n : s[m] = x
      /\ \A m \in 1..n : s[m] \in Listed
  <2>1. s \in Seq(Listed)
    BY ListFinite, Arrangement DEF AdminTypeOK
  <2> QED BY <2>1, ListFinite, Arrangement DEF AdminTypeOK
<1>8. \A m \in 1..n : Rank(s[m]) = m - 1
  BY <1>1, Places DEF AdminTypeOK
<1>9. /\ T \in Seq(Ids) /\ t \in Nat
      /\ t = (IF offset + 1 <= e THEN e - offset ELSE 0)
      /\ \A k \in 1..(e - offset) : T[k] = s[offset + k]
  <2>1. T \in Seq(Ids) /\ t \in Nat
    BY <1>4, TakenType
  <2> QED BY <1>4, <2>1, TakenType
<1> HIDE DEF T
<1>10. /\ seen' \in Seq(Ids) /\ Len(seen') = offset + t
       /\ \A m \in 1..(offset + t) : seen'[m] = IF m <= offset THEN seen[m] ELSE T[m - offset]
  BY <1>1, <1>6, <1>9, ConcatProperties DEF T
<1> HIDE DEF n, e, t
<1>11. e \in Int /\ e <= n /\ e <= offset + Limit
  BY <1>5, <1>7 DEF e
<1>12. ASSUME NEW m \in 1..(offset + t), ~(m <= offset)
       PROVE  m \in 1..n /\ seen'[m] = s[m]
  <2>1. t = e - offset /\ offset + 1 <= e
    BY <1>5, <1>9, <1>11, <1>12
  <2>2. m - offset \in 1..(e - offset) /\ offset + (m - offset) = m /\ m \in 1..n
    BY <1>5, <1>7, <1>11, <1>12, <2>1
  <2> QED BY <1>9, <1>10, <1>12, <2>2
<1>13. DOMAIN seen = 1..offset /\ DOMAIN seen' = 1..(offset + t)
  BY <1>6, <1>10
<1>14. \A m \in DOMAIN seen : m \in DOMAIN seen' /\ seen'[m] = seen[m]
  BY <1>5, <1>9, <1>10, <1>13
<1>15. LastPage' => n < offset + Limit
  <2>1. SUFFICES ASSUME LastPage', offset + Limit <= n PROVE FALSE
    BY <1>5, <1>7
  <2>2. offset + t < offset + Limit
    BY <1>2, <1>10, <2>1 DEF LastPage
  <2>3. e = offset + Limit
    BY <2>1 DEF e
  <2> QED BY <1>5, <1>9, <2>2, <2>3
<1>16. ASSUME ~left PROVE StillInv'
  <2>1. still \subseteq Listed /\ \A x \in still : Rank(x) < offset => x \in ToSet(seen)
    BY <1>4, <1>16 DEF ReadingInv, StillInv
  <2>2. ASSUME NEW x \in still, Rank(x) < offset + Limit PROVE x \in ToSet(seen')
    <3>1. PICK m \in 1..n : s[m] = x
      BY <1>7, <2>1
    <3>2. Rank(x) = m - 1
      BY <1>8, <3>1
    <3>3. CASE m - 1 < offset
      BY <1>14, <2>1, <3>2, <3>3 DEF ToSet
    <3>4. CASE ~(m - 1 < offset)
      <4>1. m <= offset + Limit /\ m <= n /\ offset + 1 <= m
        BY <1>5, <1>7, <2>2, <3>2, <3>4
      <4>2. m <= e
        BY <4>1 DEF e
      <4>3. offset + 1 <= e
        BY <1>5, <1>11, <4>1, <4>2
      <4>4. m \in 1..(offset + t) /\ ~(m <= offset)
        BY <1>5, <1>9, <1>11, <4>1, <4>2, <4>3
      <4> QED BY <1>12, <1>13, <3>1, <4>4 DEF ToSet
    <3> QED BY <3>3, <3>4
  <2>3. ASSUME NEW x \in still, LastPage' PROVE Rank(x) < offset + Limit
    <3>1. PICK m \in 1..n : s[m] = x
      BY <1>7, <2>1
    <3>2. Rank(x) = m - 1 /\ n < offset + Limit
      BY <1>8, <1>15, <2>3, <3>1
    <3> QED BY <1>5, <1>7, <3>2
  <2> QED BY <1>2, <1>3, <2>1, <2>2, <2>3 DEF StillInv
<1>17. ASSUME ~stirred PROVE HeadInv'
  <2>1. /\ ~left /\ total = Cardinality(Listed)
        /\ \A m \in DOMAIN seen : seen[m] \in Listed /\ Rank(seen[m]) = m - 1
    BY <1>2, <1>4, <1>17 DEF ReadingInv, HeadInv
  <2>2. ASSUME NEW m \in DOMAIN seen' PROVE seen'[m] \in Listed /\ Rank(seen'[m]) = m - 1
    <3>1. CASE m <= offset
      <4>1. m \in DOMAIN seen
        BY <1>5, <1>9, <1>13, <3>1
      <4> QED BY <1>14, <2>1, <4>1
    <3>2. CASE ~(m <= offset)
      BY <1>7, <1>8, <1>12, <1>13, <3>2
    <3> QED BY <3>1, <3>2
  <2>3. offset <= n
    <3>1. CASE offset = 0
      BY <1>7, <3>1
    <3>2. CASE offset # 0
      <4>1. offset \in DOMAIN seen
        BY <1>5, <1>13, <3>2
      <4>2. PICK m \in 1..n : s[m] = seen[offset]
        BY <1>7, <2>1, <4>1
      <4>3. m - 1 = offset - 1
        BY <1>8, <2>1, <4>1, <4>2
      <4> QED BY <1>5, <1>7, <4>3
    <3> QED BY <3>1, <3>2
  <2>4. LastPage' => Len(seen') = n
    <3>1. SUFFICES ASSUME LastPage' PROVE Len(seen') = n
      OBVIOUS
    <3>2. n < offset + Limit
      BY <1>15, <3>1
    <3>3. e = n
      BY <1>5, <1>7, <3>2 DEF e
    <3> QED BY <1>5, <1>7, <1>9, <1>10, <2>3, <3>3
  <2> QED BY <1>2, <1>3, <1>7, <2>1, <2>2, <2>4 DEF HeadInv
<1> QED BY <1>2, <1>16, <1>17 DEF StillInv, HeadInv

LEMMA ReadingNext == AdminTypeOK /\ AdminTypeOK' /\ FieldsSurvive /\ ReadingInv /\ [AdminNext]_adminVars => ReadingInv'
<1> SUFFICES ASSUME AdminTypeOK, AdminTypeOK', FieldsSurvive, ReadingInv, [AdminNext]_adminVars
             PROVE  StillInv' /\ HeadInv'
  BY PageNext DEF ReadingInv
<1>1. ASSUME NEW q \in Requests, NEW i, NEW op, NEW f, Load(q, op, i, f)
      PROVE  StillInv' /\ HeadInv'
  BY <1>1, ReadingSame DEF Load, table
<1>2. ASSUME NEW q \in Requests, Create(q) \/ Update(q) \/ Delete(q)
      PROVE  StillInv' /\ HeadInv'
  <2>1. \/ UNCHANGED <<table, still, stirred, left>>
        \/ \E i \in Ids : Wrote(i) /\ Touch(i)
    BY <1>2, CreateWrites, UpdateWrites, DeleteWrites
  <2>2. UNCHANGED reading
    BY <1>2 DEF Create, Update, Delete
  <2>3. CASE UNCHANGED <<table, still, stirred, left>>
    BY <2>2, <2>3, ReadingSame DEF table
  <2>4. CASE \E i \in Ids : Wrote(i) /\ Touch(i)
    BY <2>2, <2>4, ReadingWrite
  <2> QED BY <2>1, <2>3, <2>4
<1>3. CASE OpenList
  <2>1. /\ offset' = 0 /\ seen' = <<>> /\ ~counted' /\ rows' = rows
        /\ still' = Listed /\ stirred' = FALSE /\ left' = FALSE
    BY <1>3 DEF OpenList, table, ReadingInv, PageInv
  <2>2. ~LastPage'
    BY <2>1 DEF LastPage
  <2>3. StillInv'
    <3>1. \A x : x \in Listed' => Rank(x)' \in Nat
      BY <2>1, SameRows, ListFinite DEF AdminTypeOK
    <3>2. Listed' = Listed
      BY <2>1, SameRows
    <3>3. \A x \in Listed' : ~(Rank(x)' < 0)
      BY <3>1
    <3> QED BY <2>1, <2>2, <3>2, <3>3 DEF StillInv
  <2>4. HeadInv'
    BY <2>1, <2>2 DEF HeadInv
  <2> QED BY <2>3, <2>4
<1>4. CASE Count
  <2>1. /\ offset' = offset /\ seen' = seen /\ total' = Cardinality(Listed) /\ rows' = rows
        /\ still' = still /\ stirred' = stirred /\ left' = left /\ offset # NoReading /\ ~LastPage
    BY <1>4 DEF Count, table, history
  <2>2. Listed' = Listed /\ (\A x : Rank(x)' = Rank(x)) /\ LastPage' = LastPage
    BY <2>1, SameRows DEF LastPage
  <2>3. StillInv'
    BY <2>1, <2>2 DEF ReadingInv, StillInv
  <2>4. HeadInv'
    BY <2>1, <2>2 DEF ReadingInv, HeadInv
  <2> QED BY <2>3, <2>4
<1>5. CASE Page
  BY <1>5, ReadingPage
<1>6. CASE CloseList
  BY <1>6 DEF CloseList, StillInv, HeadInv
<1>7. CASE UNCHANGED adminVars
  BY <1>7, ReadingSame DEF adminVars, reading
<1> QED BY <1>1, <1>2, <1>3, <1>4, <1>5, <1>6, <1>7 DEF AdminNext

\* Ranks tell the pages' rows apart, and there are as many as rows in the list.
LEMMA ReadingCovers == AdminTypeOK /\ ReadingInv => PagesCoverTheList
<1> SUFFICES ASSUME AdminTypeOK, ReadingInv, LastPage
             PROVE  /\ left \/ still \subseteq ToSet(seen)
                    /\ stirred \/ (IsInjective(seen) /\ ToSet(seen) = Listed /\ total = Len(seen))
  BY DEF PagesCoverTheList
<1>1. offset # NoReading /\ seen \in Seq(Ids) /\ Len(seen) \in Nat
  BY DEF ReadingInv, PageInv, LastPage, NoReading, AdminTypeOK
<1>2. left \/ still \subseteq ToSet(seen)
  BY <1>1 DEF ReadingInv, StillInv
<1>3. ASSUME ~stirred
      PROVE  IsInjective(seen) /\ ToSet(seen) = Listed /\ total = Len(seen)
  <2>1. /\ \A m \in DOMAIN seen : seen[m] \in Listed /\ Rank(seen[m]) = m - 1
        /\ Len(seen) = Cardinality(Listed)
    BY <1>1, <1>3 DEF ReadingInv, HeadInv
  <2>2. DOMAIN seen = 1..Len(seen) /\ seen \in [1..Len(seen) -> Listed]
    BY <1>1, <2>1
  <2>3. IsInjective(seen)
    <3>1. ASSUME NEW m \in DOMAIN seen, NEW k \in DOMAIN seen, seen[m] = seen[k] PROVE m = k
      <4>1. m \in Int /\ k \in Int /\ m - 1 = k - 1
        BY <2>1, <2>2, <3>1
      <4> QED BY <4>1
    <3> QED BY <3>1 DEF IsInjective
  <2>4. Cardinality(1..Len(seen)) = Len(seen)
    <3> DEFINE k == Len(seen)
    <3>1. k \in Nat
      BY <1>1
    <3> HIDE DEF k
    <3>2. Cardinality(1..k) = k
      BY <3>1, FS_Interval
    <3> QED BY <3>2 DEF k
  <2>5. seen \in Surjection(1..Len(seen), Listed)
    <3>1. seen \in Injection(1..Len(seen), Listed)
      BY <2>2, <2>3 DEF Injection
    <3> QED BY <2>1, <2>4, <3>1, ListFinite, FS_Injection DEF AdminTypeOK
  <2>6. ToSet(seen) = Listed
    BY <2>2, <2>5 DEF ToSet, Surjection
  <2>7. total = Cardinality(Listed)
    <3>1. offset > 0
      <4>1. offset \in Nat /\ Len(seen) < offset
        BY <1>1 DEF AdminTypeOK, LastPage
      <4> QED BY <1>1, <4>1
    <3> QED BY <1>1, <1>3, <3>1 DEF ReadingInv, HeadInv
  <2> QED BY <2>1, <2>3, <2>6, <2>7
<1> QED BY <1>2, <1>3

\* Turning the pages misses no row and repeats none while the table is still,
\* and misses no untouched row while others are created and changed, for any
\* table, filter and page size: the key breaks every tie of updated_at, and a
\* write only ever moves its own row towards the pages already read
\* (paging.py:77-95).
THEOREM PagesCover == AdminSpec => []PagesCoverTheList
<1>1. AdminInit => AdminTypeOK /\ FieldsSurvive /\ ReadingInv
  BY AdminTypeInit, PageInit, ReadingInit DEF ReadingInv
<1>2. AdminTypeOK /\ FieldsSurvive /\ ReadingInv /\ [AdminNext]_adminVars
      => (AdminTypeOK /\ FieldsSurvive /\ ReadingInv)'
  BY AdminTypeNext, ReadingNext DEF ReadingInv
<1> QED BY <1>1, <1>2, ReadingCovers, PTL DEF AdminSpec

-----------------------------------------------------------------------------
(* The pace of requests.  Spaced says nothing of the slot that comes next,  *)
(* so it is not inductive by itself: Booked adds that every slot given out  *)
(* in this life of a process ends before the one its table offers.          *)

Booked ==
  \A r \in reserved :
    LET p == ProcessOf[r.by] IN
    /\ r.life <= life[p]
    /\ r.life = life[p] => r.slot + IntervalOf(r.to) <= slotAt[p][r.to]

PaceInv == PaceTypeOK /\ Booked /\ Spaced

USE PacingAssumption

\* A step of a thread or of a process keeps the types.
LEMMA PaceTypeInductive == PaceTypeOK /\ [PaceNext]_paceVars => PaceTypeOK'
<1> SUFFICES ASSUME PaceTypeOK, [PaceNext]_paceVars PROVE PaceTypeOK'
  OBVIOUS
<1>1. ASSUME NEW t \in Threads, Reserve(t) PROVE PaceTypeOK'
  <2>1. PICK h \in Hosts :
          LET p == ProcessOf[t]  slot == Later(now, slotAt[p][h]) IN
          /\ slotAt' = [slotAt EXCEPT ![p][h] = slot + IntervalOf(h)]
          /\ reserved' = reserved \cup
               {[by |-> t, life |-> life[p], no |-> made[t], to |-> h, slot |-> slot]}
          /\ made' = [made EXCEPT ![t] = @ + 1]
          /\ UNCHANGED <<now, life, sent>>
    BY <1>1 DEF Reserve
  <2> DEFINE p == ProcessOf[t]
             slot == Later(now, slotAt[p][h])
  <2>2. p \in Processes /\ slotAt[p][h] \in Nat /\ slot \in Nat /\ IntervalOf(h) \in Nat
    BY DEF PaceTypeOK, Later, PacingAssumption
  <2>3. slotAt' \in [Processes -> [Hosts -> Nat]]
    <3>1. slotAt' = [slotAt EXCEPT ![p] = [slotAt[p] EXCEPT ![h] = slot + IntervalOf(h)]]
      BY <2>1, <2>2 DEF PaceTypeOK
    <3>2. slot + IntervalOf(h) \in Nat
      BY <2>2
    <3> QED BY <3>1, <3>2, <2>2 DEF PaceTypeOK
  <2>4. reserved' \subseteq Request
    BY <2>1, <2>2 DEF PaceTypeOK, Request
  <2> QED BY <2>1, <2>3, <2>4 DEF PaceTypeOK
<1>2. ASSUME NEW t \in Threads, Send(t) PROVE PaceTypeOK'
  BY <1>2 DEF Send, Made, PaceTypeOK
<1>3. ASSUME NEW p \in Processes, Restart(p) PROVE PaceTypeOK'
  BY <1>3 DEF Restart, PaceTypeOK, NoSlots
<1>4. CASE Tick
  BY <1>4 DEF Tick, PaceTypeOK
<1>5. CASE UNCHANGED paceVars
  BY <1>5 DEF paceVars, PaceTypeOK
<1> QED BY <1>1, <1>2, <1>3, <1>4, <1>5 DEF PaceNext

\* A new slot begins where the last one of its host ends, or now.
LEMMA ReserveSpaces ==
  ASSUME PaceInv, PaceTypeOK', NEW t \in Threads, Reserve(t)
  PROVE  Booked' /\ Spaced'
<1>1. PICK h \in Hosts :
        LET p == ProcessOf[t]  slot == Later(now, slotAt[p][h]) IN
        /\ slotAt' = [slotAt EXCEPT ![p][h] = slot + IntervalOf(h)]
        /\ reserved' = reserved \cup
             {[by |-> t, life |-> life[p], no |-> made[t], to |-> h, slot |-> slot]}
        /\ made' = [made EXCEPT ![t] = @ + 1]
        /\ UNCHANGED <<now, life, sent>>
  BY DEF Reserve
<1> DEFINE p == ProcessOf[t]
           slot == Later(now, slotAt[p][h])
           new == [by |-> t, life |-> life[p], no |-> made[t], to |-> h, slot |-> slot]
<1>2. p \in Processes /\ slotAt[p][h] \in Nat /\ slot \in Nat /\ IntervalOf(h) \in Nat
  BY DEF PaceInv, PaceTypeOK, Later, PacingAssumption
<1>3. slotAt[p][h] <= slot
  BY <1>2 DEF Later, PaceInv, PaceTypeOK
<1>4. /\ slotAt'[p][h] = slot + IntervalOf(h)
      /\ \A q \in Processes, g \in Hosts : slotAt[q][g] <= slotAt'[q][g]
  <2>1. slotAt'[p][h] = slot + IntervalOf(h)
    BY <1>1, <1>2 DEF PaceInv, PaceTypeOK
  <2>2. ASSUME NEW q \in Processes, NEW g \in Hosts, <<q, g>> # <<p, h>>
        PROVE  slotAt'[q][g] = slotAt[q][g]
    BY <1>1, <1>2, <2>2 DEF PaceInv, PaceTypeOK
  <2>3. \A q \in Processes, g \in Hosts : slotAt[q][g] \in Nat
    BY DEF PaceInv, PaceTypeOK
  <2>4. slotAt[p][h] <= slot + IntervalOf(h)
    BY <1>2, <1>3
  <2>5. ASSUME NEW q \in Processes, NEW g \in Hosts PROVE slotAt[q][g] <= slotAt'[q][g]
    <3>1. CASE q = p /\ g = h
      BY <3>1, <2>1, <2>4
    <3>2. CASE <<q, g>> # <<p, h>>
      BY <3>2, <2>2, <2>3
    <3> QED BY <3>1, <3>2
  <2> QED BY <2>1, <2>5
<1>5. Booked'
  <2> SUFFICES ASSUME NEW r \in reserved'
               PROVE  /\ r.life <= life[ProcessOf[r.by]]
                      /\ r.life = life[ProcessOf[r.by]] =>
                           r.slot + IntervalOf(r.to) <= slotAt'[ProcessOf[r.by]][r.to]
    BY <1>1 DEF Booked
  <2>1. CASE r = new
    BY <2>1, <1>2, <1>4 DEF PaceInv, PaceTypeOK
  <2>2. CASE r \in reserved
    <3>1. /\ r.life <= life[ProcessOf[r.by]]
          /\ r.life = life[ProcessOf[r.by]] =>
               r.slot + IntervalOf(r.to) <= slotAt[ProcessOf[r.by]][r.to]
      BY <2>2 DEF PaceInv, Booked
    <3>2. /\ r.by \in Threads /\ r.to \in Hosts /\ r.slot \in Nat
          /\ ProcessOf[r.by] \in Processes /\ IntervalOf(r.to) \in Nat
      BY <2>2 DEF PaceInv, PaceTypeOK, Request, PacingAssumption
    <3>3. /\ slotAt[ProcessOf[r.by]][r.to] \in Nat
          /\ slotAt'[ProcessOf[r.by]][r.to] \in Nat
      BY <3>2 DEF PaceInv, PaceTypeOK
    <3>4. slotAt[ProcessOf[r.by]][r.to] <= slotAt'[ProcessOf[r.by]][r.to]
      BY <3>2, <1>4
    <3> QED BY <3>1, <3>2, <3>3, <3>4
  <2> QED BY <1>1, <2>1, <2>2
<1>6. Spaced'
  <2> DEFINE Same(r, q) == r.to = q.to /\ r.life = q.life /\ ProcessOf[r.by] = ProcessOf[q.by]
             Apart(r, q) == \/ r.slot + IntervalOf(r.to) <= q.slot
                            \/ q.slot + IntervalOf(r.to) <= r.slot
  <2>1. ASSUME NEW r \in reserved, Same(r, new) PROVE r.slot + IntervalOf(h) <= slot
    <3>1. r.to = h /\ r.life = life[p] /\ ProcessOf[r.by] = p
      BY <2>1
    <3>2. r.slot + IntervalOf(h) <= slotAt[p][h]
      BY <3>1 DEF PaceInv, Booked
    <3>3. r.slot \in Nat
      BY DEF PaceInv, PaceTypeOK, Request
    <3> QED BY <3>2, <3>3, <1>2, <1>3
  <2>2. ASSUME NEW r \in reserved', NEW q \in reserved', r # q, Same(r, q) PROVE Apart(r, q)
    <3>1. CASE r \in reserved /\ q \in reserved
      BY <2>2, <3>1 DEF PaceInv, Spaced
    <3>2. CASE r \in reserved /\ q = new
      BY <2>1, <2>2, <3>2
    <3>3. CASE r = new /\ q \in reserved
      BY <2>1, <2>2, <3>3
    <3> QED BY <1>1, <2>2, <3>1, <3>2, <3>3
  <2>3. \A r \in sent' : r.slot <= now'
    BY <1>1 DEF PaceInv, Spaced
  <2> QED BY <2>2, <2>3 DEF Spaced
<1> QED BY <1>5, <1>6

\* The other steps give out no slot; a restart begins a life of its own.
LEMMA PaceInductive == PaceInv /\ [PaceNext]_paceVars => PaceInv'
<1> SUFFICES ASSUME PaceInv, [PaceNext]_paceVars PROVE PaceInv'
  OBVIOUS
<1>0. PaceTypeOK'
  BY PaceTypeInductive DEF PaceInv
<1>1. ASSUME NEW t \in Threads, Reserve(t) PROVE Booked' /\ Spaced'
  BY <1>0, <1>1, ReserveSpaces
<1>2. ASSUME NEW t \in Threads, Send(t) PROVE Booked' /\ Spaced'
  <2>1. reserved' = reserved /\ life' = life /\ slotAt' = slotAt /\ now' = now
    BY <1>2 DEF Send
  <2>2. \A r \in sent' : r.slot <= now'
    BY <1>2, <2>1 DEF Send, Made, PaceInv, PaceTypeOK, Request, Spaced
  <2> QED BY <2>1, <2>2 DEF PaceInv, Booked, Spaced
<1>3. ASSUME NEW p \in Processes, Restart(p) PROVE Booked' /\ Spaced'
  <2>1. Spaced'
    BY <1>3 DEF Restart, PaceInv, Spaced
  <2>2. ASSUME NEW r \in reserved, ProcessOf[r.by] = p PROVE r.life < life'[p]
    BY <1>3, <2>2 DEF Restart, PaceInv, PaceTypeOK, Booked, Request
  <2>3. ASSUME NEW q \in Processes, q # p
        PROVE  life'[q] = life[q] /\ slotAt'[q] = slotAt[q]
    BY <1>3, <2>3 DEF Restart, PaceInv, PaceTypeOK
  <2>4. ASSUME NEW r \in reserved'
        PROVE  /\ r.life <= life'[ProcessOf[r.by]]
               /\ r.life = life'[ProcessOf[r.by]] =>
                    r.slot + IntervalOf(r.to) <= slotAt'[ProcessOf[r.by]][r.to]
    <3>1. r \in reserved /\ r.life \in Nat /\ ProcessOf[r.by] \in Processes
      BY <1>3 DEF Restart, PaceInv, PaceTypeOK, Request, PacingAssumption
    <3>2. life'[p] \in Nat
      BY <1>0 DEF PaceTypeOK
    <3>3. CASE ProcessOf[r.by] = p
      BY <3>1, <3>2, <3>3, <2>2
    <3>4. CASE ProcessOf[r.by] # p
      BY <3>1, <3>4, <2>3 DEF PaceInv, Booked
    <3> QED BY <3>3, <3>4
  <2> QED BY <2>1, <2>4 DEF Booked
<1>4. CASE Tick
  <2>1. \A r \in sent : r.slot <= now + 1
    BY DEF PaceInv, PaceTypeOK, Request, Spaced
  <2> QED BY <1>0, <1>4, <2>1 DEF Tick, PaceInv, Booked, Spaced
<1>5. CASE UNCHANGED paceVars
  BY <1>0, <1>5 DEF paceVars, PaceInv, Booked, Spaced
<1> QED BY <1>0, <1>1, <1>2, <1>3, <1>4, <1>5 DEF PaceNext, PaceInv

LEMMA PaceInvInit == PaceInit => PaceInv
BY DEF PaceInit, PaceInv, PaceTypeOK, Booked, Spaced, NoSlots

-----------------------------------------------------------------------------
(* The units of the timers. *)

Point == {"off", "line", "generate", "start", "run", "persist", "call", "read", "commit", "exit"}

Stamps == [Facts -> Nat]

UnitState ==
  [at : Point, line : Nat, gen : {0, 1}, run : {0, 1}, step : Nat, buffer : Nat, logged : Nat,
   token : Tokens \cup {""}, copy : [Tokens -> Nat] \cup {<<>>}, due : BOOLEAN, day : Nat,
   basis : Stamps, missed : SUBSET Listings]

BatchTypeOK ==
  /\ day \in Nat
  /\ unit \in [Units -> UnitState]
  /\ \A u \in Units : unit[u].line \in DOMAIN Lines[u]
  /\ fetched \in [Listings -> Nat]
  /\ folded \in Stamps
  /\ built \in [Cycles -> Stamps]
  /\ dotenv \in [Tokens -> Nat]
  /\ environ \in [Units -> [Tokens -> Nat]]
  /\ newest \in [Tokens -> Nat]
  /\ since \in [Units -> [Tokens -> Nat]]
  /\ green \in [Units -> [day : Nat, missed : SUBSET Listings]]

\* A unit in state r works at what its line names.
Working(u, r) ==
  LET l == Lines[u][r.line] IN
  /\ r.at \in {"generate", "start", "run", "persist"} => l.procedure = "" /\ r.run = 0
  /\ r.at = "generate" => r.gen = 0
  /\ r.at \in {"call", "read", "commit"} => l.procedure # ""
  /\ r.at = "persist" =>
       l.cycle \in DOMAIN Refreshes /\ r.token \in Refreshes[l.cycle] /\ r.copy \in [Tokens -> Nat]

\* What is known of a line of a unit that began on day d and missed the listings
\* x, with the masters folded as of f and the jobs built from masters as of b:
\* the line's masters are folded, and the cycles generated below it have seen
\* them.
AllFolded(f, u, i, d, x) ==
  Lines[u][i].procedure # "" =>
    \A n \in DOMAIN Steps[Lines[u][i].procedure], m \in Awaited(u, i) \ x :
      f[Steps[Lines[u][i].procedure][n], m] >= d

AllBuilt(b, u, i, j, d, x) ==
  (Lines[u][i].procedure # "" /\ Lines[u][j].cycle # "" /\ Lines[u][j].mode # "run-only") =>
    \A n \in DOMAIN Steps[Lines[u][i].procedure], m \in Awaited(u, i) \ x :
      b[Lines[u][j].cycle][Steps[Lines[u][i].procedure][n], m] >= d

\* The first last lines of the unit have done their work on the masters ...
Fresh(f, b, u, last, d, x) ==
  /\ \A i \in DOMAIN Lines[u] : i <= last => AllFolded(f, u, i, d, x)
  /\ \A i, j \in DOMAIN Lines[u] : (i < j /\ j <= last) => AllBuilt(b, u, i, j, d, x)

\* ... and have brought the listings h that they collect.
Brought(h, u, last, d, x) ==
  \A i \in DOMAIN Lines[u] : i <= last => \A m \in Collected(Lines[u][i]) \ x : h[m] >= d

\* The steps that the procedure of the unit's line has taken read what is there
\* since the unit began.
Based(u, r, n) ==
  \A m \in Awaited(u, r.line) \ r.missed :
    r.basis[Steps[Lines[u][r.line].procedure][n], m] >= r.day

Called(u, r) ==
  r.at \in {"call", "read", "commit"} =>
    \A n \in DOMAIN Steps[Lines[u][r.line].procedure] :
      (r.at = "call" => n < r.step) => Based(u, r, n)

\* How far a unit in state r has come: the lines above the present one have
\* done their work, and so has the present one when nothing of it has failed.
Progress(u, r, today, f, b, h) ==
  r.at # "off" =>
    /\ r.day <= today
    /\ Fresh(f, b, u, r.line - 1, r.day, r.missed)
    /\ Brought(h, u, r.line - 1, r.day, r.missed)
    /\ Called(u, r)
    /\ (r.at \in {"start", "run", "persist"} /\ r.gen = 0) =>
         Fresh(f, b, u, r.line, r.day, r.missed)
    /\ (r.at = "exit" /\ ExitCode(r) = 0) =>
         Fresh(f, b, u, r.line, r.day, r.missed) /\ Brought(h, u, r.line, r.day, r.missed)

\* Nothing is collected or generated ahead of the calendar and of the masters.
InTime ==
  /\ \A m \in Listings : fetched[m] <= day
  /\ \A c \in Cycles, x \in Facts : built[c][x] <= folded[x]

BatchInv ==
  /\ BatchTypeOK
  /\ InTime
  /\ \A u \in Units :
       Working(u, unit[u]) /\ Progress(u, unit[u], day, folded, built, fetched)
  /\ \A u \in Units : green[u].day # 0 =>
       Fresh(folded, built, u, Len(Lines[u]), green[u].day, green[u].missed)

USE DEF Point

LEMMA LineFacts ==
  ASSUME NEW u \in Units, NEW i \in DOMAIN Lines[u]
  PROVE  /\ i \in Nat /\ i >= 1 /\ i <= Len(Lines[u])
         /\ ProperLine(Lines[u][i])
         /\ Lines[u][i].cycle # "" => Lines[u][i].cycle \in Cycles
         /\ Lines[u][i].procedure # "" =>
              /\ Lines[u][i].procedure \in Procedures
              /\ \A n \in DOMAIN Steps[Lines[u][i].procedure] :
                   Steps[Lines[u][i].procedure][n] \in AllSteps
<1>1. i \in Nat /\ i >= 1 /\ i <= Len(Lines[u]) /\ ProperLine(Lines[u][i])
  BY BatchAssumption DEF BatchAssumption
<1>2. Lines[u][i].cycle # "" => Lines[u][i].cycle \in Cycles
  <2> DEFINE Named(v) == {Lines[v][k].cycle : k \in DOMAIN Lines[v]}
  <2>1. Lines[u][i].cycle \in Named(u) /\ Named(u) \in {Named(v) : v \in Units}
    OBVIOUS
  <2>2. Lines[u][i].cycle \in UNION {Named(v) : v \in Units}
    BY <2>1
  <2> QED BY <2>2 DEF Cycles
<1>3. Lines[u][i].procedure # "" => Lines[u][i].procedure \in Procedures
  BY <1>1 DEF ProperLine
<1>4. \A p \in Procedures : \A n \in DOMAIN Steps[p] : Steps[p][n] \in AllSteps
  BY DEF AllSteps
<1> QED BY <1>1, <1>2, <1>3, <1>4

LEMMA LineNumbers == \A u \in Units : \A i \in DOMAIN Lines[u] : i \in Nat /\ i >= 1
  BY LineFacts

LEMMA StepNumbers == \A p \in Procedures : \A n \in DOMAIN Steps[p] : n \in Nat /\ n >= 1
  BY BatchAssumption DEF BatchAssumption

LEMMA UnitFields ==
  ASSUME NEW r \in UnitState
  PROVE  /\ r.line \in Int /\ r.line - 1 \in Int /\ r.day \in Nat
         /\ r.at \in Point /\ r.gen \in {0, 1} /\ r.run \in {0, 1}
<1>1. r.line \in Nat /\ r.day \in Nat /\ r.at \in Point /\ r.gen \in {0, 1} /\ r.run \in {0, 1}
  BY DEF UnitState
<1> QED BY <1>1

\* What a line awaits is a source, and what it collects a listing.
LEMMA AwaitedFacts ==
  ASSUME NEW u \in Units, NEW i \in DOMAIN Lines[u]
  PROVE  /\ Collected(Lines[u][i]) \subseteq Listings
         /\ Awaited(u, i) \subseteq Sources
         /\ \A n, m : (/\ Lines[u][i].procedure # ""
                       /\ n \in DOMAIN Steps[Lines[u][i].procedure] /\ m \in Awaited(u, i))
                      => <<Steps[Lines[u][i].procedure][n], m>> \in Facts
<1>1. ASSUME NEW k \in DOMAIN Lines[u] PROVE Collected(Lines[u][k]) \subseteq Listings
  <2>1. CASE Lines[u][k].procedure = "" /\ Lines[u][k].mode # "generate-only"
    <3>1. Lines[u][k].cycle \in Cycles
      BY <2>1, LineFacts DEF ProperLine
    <3> QED BY <2>1, <3>1, BatchAssumption DEF BatchAssumption, Collected
  <2>2. CASE ~(Lines[u][k].procedure = "" /\ Lines[u][k].mode # "generate-only")
    BY <2>2 DEF Collected
  <2> QED BY <2>1, <2>2
<1>2. Awaited(u, i) \subseteq Sources
  BY <1>1 DEF Awaited, Sources
<1>3. ASSUME Lines[u][i].procedure # "", NEW n \in DOMAIN Steps[Lines[u][i].procedure],
             NEW m \in Awaited(u, i)
      PROVE  <<Steps[Lines[u][i].procedure][n], m>> \in Facts
  <2>1. Steps[Lines[u][i].procedure][n] \in AllSteps /\ m \in Sources
    BY <1>2, <1>3, LineFacts
  <2> QED BY <2>1 DEF Facts
<1> QED BY <1>1, <1>2, <1>3

\* Folding and generating only ever make things fresher, and a unit that missed
\* more has less to show.
LEMMA FreshGrows ==
  ASSUME NEW f \in Stamps, NEW g \in Stamps,
         NEW b \in [Cycles -> Stamps], NEW c \in [Cycles -> Stamps],
         \A s \in Facts : f[s] <= g[s],
         \A k \in Cycles, s \in Facts : b[k][s] <= c[k][s],
         NEW u \in Units, NEW last \in Int, NEW d \in Nat, NEW x, NEW y, x \subseteq y,
         Fresh(f, b, u, last, d, x)
  PROVE  Fresh(g, c, u, last, d, y)
<1>1. ASSUME NEW i \in DOMAIN Lines[u], i <= last PROVE AllFolded(g, u, i, d, y)
  <2>1. AllFolded(f, u, i, d, x)
    BY <1>1 DEF Fresh
  <2>2. ASSUME Lines[u][i].procedure # "", NEW n \in DOMAIN Steps[Lines[u][i].procedure],
               NEW m \in Awaited(u, i) \ y
        PROVE  g[Steps[Lines[u][i].procedure][n], m] >= d
    <3> DEFINE s == <<Steps[Lines[u][i].procedure][n], m>>
    <3>1. s \in Facts
      BY <2>2, AwaitedFacts
    <3>2. f[s] >= d
      BY <2>1, <2>2 DEF AllFolded
    <3>3. f[s] \in Nat /\ g[s] \in Nat
      BY <3>1 DEF Stamps
    <3> HIDE DEF s
    <3>4. g[s] >= d
      BY <3>1, <3>2, <3>3
    <3> QED BY <3>4 DEF s
  <2> QED BY <2>2 DEF AllFolded
<1>2. ASSUME NEW i \in DOMAIN Lines[u], NEW j \in DOMAIN Lines[u], i < j, j <= last
      PROVE  AllBuilt(c, u, i, j, d, y)
  <2>1. AllBuilt(b, u, i, j, d, x)
    BY <1>2 DEF Fresh
  <2>2. ASSUME Lines[u][i].procedure # "", Lines[u][j].cycle # "",
               Lines[u][j].mode # "run-only", NEW n \in DOMAIN Steps[Lines[u][i].procedure],
               NEW m \in Awaited(u, i) \ y
        PROVE  c[Lines[u][j].cycle][Steps[Lines[u][i].procedure][n], m] >= d
    <3> DEFINE s == <<Steps[Lines[u][i].procedure][n], m>>
               k == Lines[u][j].cycle
    <3>1. s \in Facts /\ k \in Cycles
      BY <2>2, LineFacts, AwaitedFacts
    <3>2. b[k][s] >= d
      BY <2>1, <2>2 DEF AllBuilt
    <3>3. b[k] \in Stamps /\ c[k] \in Stamps
      BY <3>1
    <3>4. b[k][s] \in Nat /\ c[k][s] \in Nat
      BY <3>1, <3>3 DEF Stamps
    <3> HIDE DEF s, k
    <3>5. c[k][s] >= d
      BY <3>1, <3>2, <3>4
    <3> QED BY <3>5 DEF s, k
  <2> QED BY <2>2 DEF AllBuilt
<1> QED BY <1>1, <1>2 DEF Fresh

LEMMA BroughtGrows ==
  ASSUME NEW h \in [Listings -> Nat], NEW e \in [Listings -> Nat],
         \A m \in Listings : h[m] <= e[m],
         NEW u \in Units, NEW last \in Int, NEW d \in Nat, NEW x, NEW y, x \subseteq y,
         Brought(h, u, last, d, x)
  PROVE  Brought(e, u, last, d, y)
<1> SUFFICES ASSUME NEW i \in DOMAIN Lines[u], i <= last, NEW m \in Collected(Lines[u][i]) \ y
             PROVE  e[m] >= d
  BY DEF Brought
<1>1. m \in Listings
  BY AwaitedFacts
<1>2. h[m] >= d
  BY DEF Brought
<1>3. h[m] \in Nat /\ e[m] \in Nat /\ h[m] <= e[m]
  BY <1>1
<1> QED BY <1>2, <1>3

\* What a step of unit u keeps, if it leaves u in a state r that agrees with
\* the invariant and takes nothing back from the listings, the masters and the
\* jobs.
LEMMA UnitStep ==
  ASSUME BatchInv, BatchTypeOK', NEW u \in Units, NEW r \in UnitState,
         unit' = [unit EXCEPT ![u] = r], day' = day, InTime',
         \A m \in Listings : fetched[m] <= fetched'[m],
         \A x \in Facts : folded[x] <= folded'[x],
         \A c \in Cycles, x \in Facts : built[c][x] <= built'[c][x],
         Working(u, r), Progress(u, r, day, folded', built', fetched'),
         \A v \in Units : green'[v].day # 0 =>
           \/ green'[v] = green[v]
           \/ v = u /\ Fresh(folded', built', u, Len(Lines[u]), green'[u].day, green'[u].missed)
  PROVE  BatchInv'
<1>1. ASSUME NEW v \in Units, NEW m \in Int, NEW d \in Nat, NEW x
      PROVE  /\ Fresh(folded, built, v, m, d, x) => Fresh(folded', built', v, m, d, x)
             /\ Brought(fetched, v, m, d, x) => Brought(fetched', v, m, d, x)
  <2>1. /\ folded \in Stamps /\ folded' \in Stamps /\ built \in [Cycles -> Stamps]
        /\ built' \in [Cycles -> Stamps]
        /\ fetched \in [Listings -> Nat] /\ fetched' \in [Listings -> Nat] /\ x \subseteq x
    BY DEF BatchInv, BatchTypeOK
  <2>2. Fresh(folded, built, v, m, d, x) => Fresh(folded', built', v, m, d, x)
    BY <2>1, FreshGrows
  <2>3. Brought(fetched, v, m, d, x) => Brought(fetched', v, m, d, x)
    BY <2>1, BroughtGrows
  <2> QED BY <2>2, <2>3
<1>2. ASSUME NEW v \in Units
      PROVE  Working(v, unit'[v]) /\ Progress(v, unit'[v], day', folded', built', fetched')
  <2>1. CASE v = u
    BY <2>1 DEF BatchInv, BatchTypeOK
  <2>2. CASE v # u
    <3>0. unit \in [Units -> UnitState]
      BY DEF BatchInv, BatchTypeOK
    <3>1. unit'[v] = unit[v] /\ unit[v] \in UnitState
      BY <2>2, <3>0
    <3>2. unit[v].line \in Int /\ unit[v].line - 1 \in Int /\ unit[v].day \in Nat
      BY <3>1, UnitFields
    <3>3. Progress(v, unit[v], day, folded, built, fetched) /\ Working(v, unit[v])
      BY DEF BatchInv
    <3>4. Progress(v, unit[v], day, folded', built', fetched')
      BY <1>1, <3>2, <3>3 DEF Progress
    <3> QED BY <3>1, <3>3, <3>4
  <2> QED BY <2>1, <2>2
<1>3. ASSUME NEW v \in Units, green'[v].day # 0
      PROVE  Fresh(folded', built', v, Len(Lines[v]), green'[v].day, green'[v].missed)
  <2>1. CASE green'[v] = green[v]
    <3>1. Len(Lines[v]) \in Int /\ green[v].day \in Nat
      BY BatchAssumption DEF BatchInv, BatchTypeOK, BatchAssumption
    <3>2. Fresh(folded, built, v, Len(Lines[v]), green[v].day, green[v].missed)
      BY <1>3, <2>1 DEF BatchInv
    <3> QED BY <1>1, <2>1, <3>1, <3>2
  <2> QED BY <1>3, <2>1
<1> QED BY <1>2, <1>3 DEF BatchInv

LEMMA KeptGrows ==
  ASSUME BatchInv
  PROVE  /\ \A m \in Listings : fetched[m] <= fetched[m]
         /\ \A x \in Facts : folded[x] <= folded[x]
         /\ \A c \in Cycles, x \in Facts : built[c][x] <= built[c][x]
<1>1. /\ \A m \in Listings : fetched[m] \in Nat
      /\ \A x \in Facts : folded[x] \in Nat
      /\ \A c \in Cycles, x \in Facts : built[c][x] \in Nat
  BY DEF BatchInv, BatchTypeOK, Stamps
<1> QED BY <1>1

\* A step that only touches the tokens besides its unit.
LEMMA SecretStep ==
  ASSUME BatchInv, NEW u \in Units, NEW r \in UnitState, r.line \in DOMAIN Lines[u],
         unit' = [unit EXCEPT ![u] = r], UNCHANGED <<day, Database, green>>,
         dotenv' \in [Tokens -> Nat], environ' \in [Units -> [Tokens -> Nat]],
         newest' \in [Tokens -> Nat], since' \in [Units -> [Tokens -> Nat]],
         Working(u, r), Progress(u, r, day, folded, built, fetched)
  PROVE  BatchInv'
<1>1. day' = day /\ fetched' = fetched /\ folded' = folded /\ built' = built /\ green' = green
  BY DEF Database
<1>2. unit \in [Units -> UnitState] /\ \A v \in Units : unit[v].line \in DOMAIN Lines[v]
  BY DEF BatchInv, BatchTypeOK
<1>3. unit' \in [Units -> UnitState] /\ \A v \in Units : unit'[v].line \in DOMAIN Lines[v]
  BY <1>2
<1>4. BatchTypeOK' /\ InTime'
  BY <1>1, <1>3 DEF BatchInv, BatchTypeOK, InTime
<1>5. /\ \A m \in Listings : fetched[m] <= fetched'[m]
      /\ \A x \in Facts : folded[x] <= folded'[x]
      /\ \A c \in Cycles, x \in Facts : built[c][x] <= built'[c][x]
  BY <1>1, KeptGrows
<1>6. Progress(u, r, day, folded', built', fetched')
  BY <1>1
<1>7. \A v \in Units : green'[v] = green[v]
  BY <1>1
<1> QED BY <1>1, <1>4, <1>5, <1>6, <1>7, UnitStep

LEMMA SecretsTyped ==
  ASSUME BatchInv
  PROVE  /\ dotenv \in [Tokens -> Nat] /\ environ \in [Units -> [Tokens -> Nat]]
         /\ newest \in [Tokens -> Nat] /\ since \in [Units -> [Tokens -> Nat]]
BY DEF BatchInv, BatchTypeOK

\* A step that touches nothing besides its unit.
LEMMA QuietStep ==
  ASSUME BatchInv, NEW u \in Units, NEW r \in UnitState, r.line \in DOMAIN Lines[u],
         unit' = [unit EXCEPT ![u] = r], UNCHANGED <<day, Database, Secrets, green>>,
         Working(u, r), Progress(u, r, day, folded, built, fetched)
  PROVE  BatchInv'
BY SecretsTyped, SecretStep DEF Secrets

LEMMA Present ==
  ASSUME BatchInv, NEW u \in Units
  PROVE  /\ unit[u] \in UnitState /\ unit[u].line \in DOMAIN Lines[u] /\ Line(u) = Lines[u][unit[u].line]
         /\ Working(u, unit[u]) /\ Progress(u, unit[u], day, folded, built, fetched)
BY DEF BatchInv, BatchTypeOK, Line

\* A unit that is off has nothing to show for itself.
LEMMA OffState ==
  ASSUME NEW u \in Units, NEW b \in BOOLEAN
  PROVE  LET r == [Off EXCEPT !.due = b] IN
         r \in UnitState /\ r.line \in DOMAIN Lines[u] /\ r.at = "off"
<1>1. 1 \in DOMAIN Lines[u]
  BY BatchAssumption DEF BatchAssumption
<1>2. Nothing \in Stamps /\ {} \in SUBSET Listings
  BY DEF Nothing, Stamps
<1> QED BY <1>1, <1>2 DEF Off, UnitState

LEMMA TimerKeeps == ASSUME BatchInv, NEW u \in Units, Timer(u) PROVE BatchInv'
<1> DEFINE r == [Off EXCEPT !.at = "line", !.day = day]
<1>1. day \in Nat /\ 1 \in DOMAIN Lines[u] /\ Nothing \in Stamps
  BY BatchAssumption DEF BatchInv, BatchTypeOK, BatchAssumption, Nothing, Stamps
<1>2. r \in UnitState /\ r.line = 1 /\ r.at = "line" /\ r.day = day
  BY <1>1 DEF Off, UnitState
<1>3. Fresh(folded, built, u, 0, day, r.missed) /\ Brought(fetched, u, 0, day, r.missed)
  <2>1. ASSUME NEW i \in DOMAIN Lines[u] PROVE i \in Nat /\ ~(i <= 0)
    <3>1. i \in Nat /\ i >= 1
      BY LineFacts
    <3> QED BY <3>1
  <2> HIDE DEF r
  <2> QED BY <2>1 DEF Fresh, Brought
<1>4. unit' = [unit EXCEPT ![u] = r] /\ UNCHANGED <<day, Database, Secrets, green>>
  BY DEF Timer, Put
<1> HIDE DEF r
<1>5. Working(u, r) /\ Progress(u, r, day, folded, built, fetched)
  BY <1>1, <1>2, <1>3 DEF Working, Progress, Called
<1> QED BY <1>1, <1>2, <1>4, <1>5, QuietStep

\* A step of a process whose lines are not done yet: what it says of the lines
\* above is what was known before.
LEMMA OnTheWay ==
  ASSUME BatchInv, NEW u \in Units, NEW r \in UnitState, unit[u].at # "off",
         r.line = unit[u].line, r.day = unit[u].day, r.missed = unit[u].missed,
         Called(u, r),
         r.at \in {"line", "generate", "call", "read", "commit"} \/ (r.at = "exit" /\ ExitCode(r) # 0)
  PROVE  Progress(u, r, day, folded, built, fetched)
BY Present DEF Progress

\* What a statement of unit u reads of what its line awaits is from the day on
\* which the unit began, or later.
LEMMA ReadFresh ==
  ASSUME BatchInv, NEW u \in Units, unit[u].at # "off"
  PROVE  /\ \A m \in Sources : Read[m] \in Nat
         /\ \A m \in Awaited(u, unit[u].line) \ unit[u].missed : Read[m] >= unit[u].day
<1> DEFINE r == unit[u]
<1>1. /\ r.line \in DOMAIN Lines[u] /\ r.line \in Nat
      /\ r.day <= day /\ Brought(fetched, u, r.line - 1, r.day, r.missed)
  BY Present, LineFacts DEF Progress
<1>2. day \in Nat /\ fetched \in [Listings -> Nat] /\ Calendar \notin Listings
  BY BatchAssumption DEF BatchInv, BatchTypeOK, BatchAssumption
<1>3. /\ Read[Calendar] = day
      /\ \A m \in Listings : Read[m] = fetched[m]
  BY <1>2 DEF Read, Sources
<1>4. \A m \in Sources : Read[m] \in Nat
  BY <1>2, <1>3 DEF Sources
<1>5. ASSUME NEW m \in Awaited(u, r.line) \ r.missed PROVE Read[m] >= r.day
  <2>1. CASE m = Calendar
    <3>1. r.day \in Nat
      BY Present, UnitFields
    <3> QED BY <2>1, <3>1, <1>1, <1>2, <1>3
  <2>2. CASE m # Calendar
    <3>1. PICK k \in DOMAIN Lines[u] : k < r.line /\ m \in Collected(Lines[u][k])
      BY <1>5, <2>2 DEF Awaited
    <3>2. k <= r.line - 1
      <4>1. k \in Nat /\ r.line \in Int
        BY <3>1, Present, UnitFields, LineNumbers
      <4> QED BY <3>1, <4>1
    <3>3. m \in Listings
      BY <3>1, AwaitedFacts
    <3>4. fetched[m] >= r.day
      BY <1>1, <1>5, <3>1, <3>2 DEF Brought
    <3> QED BY <1>3, <3>3, <3>4
  <2> QED BY <2>1, <2>2
<1> QED BY <1>4, <1>5

\* A procedure that is called, has returned, or is read from, is not committed.
LEMMA CallKeeps ==
  ASSUME BatchInv, NEW u \in Units, NEW q \in UnitState, unit[u].at \in {"call", "read"},
         unit' = [unit EXCEPT ![u] = q], UNCHANGED <<day, Database, Secrets, green>>,
         q.at \in {"call", "read", "commit"}, q.line = unit[u].line, q.day = unit[u].day,
         q.missed = unit[u].missed, Called(u, q)
  PROVE  BatchInv'
<1>1. Working(u, q)
  BY Present DEF Working
<1>2. Progress(u, q, day, folded, built, fetched)
  BY OnTheWay
<1> QED BY <1>1, <1>2, Present, QuietStep

LEMMA CallStepKeeps == ASSUME BatchInv, NEW u \in Units, CallStep(u) PROVE BatchInv'
<1> DEFINE r == unit[u]
           p == Line(u).procedure
           b == [x \in Facts |-> IF x[1] = Steps[p][r.step] THEN Read[x[2]] ELSE r.basis[x]]
           q == [r EXCEPT !.step = @ + 1, !.basis = b]
<1>1. /\ unit' = [unit EXCEPT ![u] = q] /\ r.at = "call" /\ r.step <= Len(Steps[p])
      /\ UNCHANGED <<day, Database, Secrets, green>>
  <2>1. /\ Put(u, [r EXCEPT !.step = @ + 1,
              !.basis = [x \in Facts |-> IF x[1] = Steps[p][r.step] THEN Read[x[2]] ELSE @[x]]])
        /\ r.at = "call" /\ r.step <= Len(Steps[p]) /\ UNCHANGED <<day, Database, Secrets, green>>
    BY DEF CallStep
  <2> QED BY <2>1 DEF Put
<1>2. /\ r \in UnitState /\ r.line \in DOMAIN Lines[u] /\ p = Lines[u][r.line].procedure /\ p # ""
      /\ Called(u, r)
  BY <1>1, Present DEF Working, Progress
<1>3. r.step \in Nat /\ r.step + 1 \in Nat /\ r.basis \in Stamps
  <2>1. r.step \in Nat /\ r.basis \in Stamps
    BY <1>2 DEF UnitState
  <2> QED BY <2>1
<1>4. /\ \A m \in Sources : Read[m] \in Nat
      /\ \A m \in Awaited(u, r.line) \ r.missed : Read[m] >= r.day
  BY <1>1, ReadFresh
<1>5. b \in Stamps
  <2>1. \A x \in Facts : x[2] \in Sources /\ r.basis[x] \in Nat
    BY <1>3 DEF Facts, Stamps
  <2> QED BY <2>1, <1>4 DEF Stamps
<1>6. /\ q \in UnitState /\ q.at = r.at /\ q.line = r.line /\ q.day = r.day
      /\ q.missed = r.missed /\ q.basis = b /\ q.step = r.step + 1
  <2> HIDE DEF b
  <2> QED BY <1>2, <1>3, <1>5 DEF UnitState
<1> HIDE DEF q
<1>7. Called(u, q)
  <2> SUFFICES ASSUME NEW n \in DOMAIN Steps[p], n < r.step + 1,
                      NEW m \in Awaited(u, r.line) \ r.missed
               PROVE  b[Steps[p][n], m] >= r.day
    BY <1>1, <1>2, <1>6 DEF Called, Based
  <2>1. <<Steps[p][n], m>> \in Facts
    BY <1>2, AwaitedFacts
  <2>2. CASE Steps[p][n] = Steps[p][r.step]
    BY <2>1, <2>2, <1>4
  <2>3. CASE Steps[p][n] # Steps[p][r.step]
    <3>1. n \in Nat
      BY <1>2, LineFacts, StepNumbers
    <3>2. n < r.step
      BY <2>3, <3>1, <1>3
    <3>3. r.basis[Steps[p][n], m] >= r.day
      BY <3>2, <1>1, <1>2 DEF Called, Based
    <3> QED BY <2>1, <2>3, <3>3
  <2> QED BY <2>2, <2>3
<1> HIDE DEF b
<1> QED BY <1>1, <1>6, <1>7, CallKeeps

LEMMA CallReturnsKeeps == ASSUME BatchInv, NEW u \in Units, CallReturns(u) PROVE BatchInv'
<1> DEFINE r == unit[u]
           p == Line(u).procedure
           k == Written[p]
           q == [r EXCEPT !.at = "read", !.buffer = k]
<1>1. /\ unit' = [unit EXCEPT ![u] = q] /\ r.at = "call" /\ r.step > Len(Steps[p])
      /\ UNCHANGED <<day, Database, Secrets, green>>
  BY DEF CallReturns, Put
<1>2. /\ r \in UnitState /\ p = Lines[u][r.line].procedure /\ p \in Procedures /\ Called(u, r)
  BY <1>1, Present, LineFacts DEF Working, Progress
<1>3. k \in Nat
  BY <1>2, BatchAssumption DEF BatchAssumption
<1> HIDE DEF k
<1>4. /\ q \in UnitState /\ q.at = "read" /\ q.line = r.line /\ q.day = r.day
      /\ q.missed = r.missed /\ q.basis = r.basis
  BY <1>2, <1>3 DEF UnitState
<1> HIDE DEF q
<1>5. Called(u, q)
  <2>1. ASSUME NEW n \in DOMAIN Steps[p] PROVE n < r.step
    <3>1. n \in Nat /\ n <= Len(Steps[p]) /\ Len(Steps[p]) \in Nat
      BY <1>2, BatchAssumption DEF BatchAssumption
    <3>2. r.step \in Nat
      BY <1>2 DEF UnitState
    <3> QED BY <1>1, <3>1, <3>2
  <2> QED BY <2>1, <1>1, <1>2, <1>4 DEF Called, Based
<1> QED BY <1>1, <1>4, <1>5, CallKeeps

LEMMA ReadBatchKeeps == ASSUME BatchInv, NEW u \in Units, ReadBatch(u) PROVE BatchInv'
<1> DEFINE r == unit[u]
           n == IF r.buffer < BatchLines THEN r.buffer ELSE BatchLines
           q == [r EXCEPT !.buffer = @ - n, !.logged = @ + n,
                          !.at = IF n < BatchLines THEN "commit" ELSE "read"]
<1>1. unit' = [unit EXCEPT ![u] = q] /\ r.at = "read" /\ UNCHANGED <<day, Database, Secrets, green>>
  BY DEF ReadBatch, Put
<1>2. r \in UnitState /\ Called(u, r)
  BY <1>1, Present DEF Progress
<1>3. r.buffer \in Nat /\ r.logged \in Nat
  BY <1>2 DEF UnitState
<1>4. BatchLines \in Nat
  BY BatchAssumption DEF BatchAssumption
<1> HIDE DEF r
<1>5. n \in Nat /\ n <= r.buffer
  BY <1>3, <1>4
<1>6. r.buffer - n \in Nat /\ r.logged + n \in Nat
  BY <1>3, <1>5
<1> HIDE DEF n
<1>7. /\ q \in UnitState /\ q.at \in {"read", "commit"} /\ q.line = r.line /\ q.day = r.day
      /\ q.missed = r.missed /\ q.basis = r.basis
  BY <1>2, <1>5, <1>6 DEF UnitState
<1> HIDE DEF q
<1>8. Called(u, q)
  BY <1>1, <1>2, <1>7 DEF Called, Based
<1> USE DEF r
<1> QED BY <1>1, <1>7, <1>8, CallKeeps

\* run_command.sh: a procedure that raises ends its line with a code.
LEMMA CallRaisesKeeps == ASSUME BatchInv, NEW u \in Units, CallRaises(u) PROVE BatchInv'
<1> DEFINE r == unit[u]
           q == [r EXCEPT !.at = "exit", !.run = 1]
<1>1. unit' = [unit EXCEPT ![u] = q] /\ r.at = "call" /\ UNCHANGED <<day, Database, Secrets, green>>
  BY DEF CallRaises, Put
<1>2. r \in UnitState
  BY Present
<1>3. /\ q \in UnitState /\ q.at = "exit" /\ q.run = 1 /\ q.line = r.line /\ q.day = r.day
      /\ q.missed = r.missed
  BY <1>2 DEF UnitState
<1> HIDE DEF q
<1>4. Working(u, q) /\ Progress(u, q, day, folded, built, fetched)
  BY <1>1, <1>3, OnTheWay DEF Working, ExitCode, Called
<1> QED BY <1>1, <1>3, <1>4, Present, QuietStep

\* A line adds itself to those above it.
LEMMA FreshNext ==
  ASSUME NEW u \in Units, NEW n \in DOMAIN Lines[u], NEW d, NEW x, NEW f, NEW b,
         Fresh(f, b, u, n - 1, d, x), AllFolded(f, u, n, d, x),
         \A i \in DOMAIN Lines[u] : i < n => AllBuilt(b, u, i, n, d, x)
  PROVE  Fresh(f, b, u, n, d, x)
<1>1. \A i \in DOMAIN Lines[u] : i \in Nat
  BY LineFacts
<1>2. ASSUME NEW i \in DOMAIN Lines[u], i <= n PROVE AllFolded(f, u, i, d, x)
  <2>1. i = n \/ i <= n - 1
    BY <1>1, <1>2
  <2> QED BY <2>1 DEF Fresh
<1>3. ASSUME NEW i \in DOMAIN Lines[u], NEW j \in DOMAIN Lines[u], i < j, j <= n
      PROVE  AllBuilt(b, u, i, j, d, x)
  <2>1. j = n \/ j <= n - 1
    BY <1>1, <1>3
  <2> QED BY <1>3, <2>1 DEF Fresh
<1> QED BY <1>2, <1>3 DEF Fresh

LEMMA BroughtNext ==
  ASSUME NEW u \in Units, NEW n \in DOMAIN Lines[u], NEW d, NEW x, NEW h,
         Brought(h, u, n - 1, d, x), \A m \in Collected(Lines[u][n]) \ x : h[m] >= d
  PROVE  Brought(h, u, n, d, x)
<1> SUFFICES ASSUME NEW i \in DOMAIN Lines[u], i <= n, NEW m \in Collected(Lines[u][i]) \ x
             PROVE  h[m] >= d
  BY DEF Brought
<1>1. i \in Nat /\ n \in Nat
  BY LineNumbers
<1>2. i = n \/ i <= n - 1
  BY <1>1
<1> QED BY <1>2 DEF Brought

\* The commit of a procedure leaves its steps as fresh as what they read.
LEMMA CommitKeeps == ASSUME BatchInv, NEW u \in Units, Commit(u) PROVE BatchInv'
<1> DEFINE r == unit[u]
           p == Line(u).procedure
           q == [r EXCEPT !.at = "exit", !.basis = Nothing]
<1>1. /\ unit' = [unit EXCEPT ![u] = q] /\ r.at = "commit" /\ folded' = Folded(r.basis)
      /\ day' = day /\ fetched' = fetched /\ built' = built /\ green' = green
      /\ dotenv' = dotenv /\ environ' = environ /\ newest' = newest /\ since' = since
  BY DEF Commit, Put, Secrets
<1>2. /\ r \in UnitState /\ r.line \in DOMAIN Lines[u] /\ r.line \in Nat
      /\ p # "" /\ p = Lines[u][r.line].procedure /\ Lines[u][r.line].cycle = ""
      /\ Called(u, r) /\ r.basis \in Stamps /\ Nothing \in Stamps
  <2>1. r \in UnitState
    BY Present
  <2>2. r.basis \in Stamps /\ Nothing \in Stamps
    BY <2>1 DEF UnitState, Nothing, Stamps
  <2> QED BY <1>1, <2>2, Present, LineFacts DEF Working, ProperLine, Progress
<1>3. /\ q \in UnitState /\ q.at = "exit" /\ q.line = r.line /\ q.day = r.day
      /\ q.missed = r.missed
  BY <1>2 DEF UnitState
<1>4. /\ folded \in Stamps /\ folded' \in Stamps
      /\ \A x \in Facts : folded[x] <= folded'[x] /\ r.basis[x] <= folded'[x]
  <2>1. folded \in Stamps
    BY DEF BatchInv, BatchTypeOK
  <2>2. \A x \in Facts : folded[x] \in Nat /\ r.basis[x] \in Nat
    BY <1>2, <2>1 DEF Stamps
  <2>3. \A x \in Facts : folded'[x] = IF r.basis[x] > folded[x] THEN r.basis[x] ELSE folded[x]
    BY <1>1 DEF Folded
  <2>4. folded' \in Stamps
    BY <1>1, <2>2 DEF Folded, Stamps
  <2> QED BY <2>1, <2>2, <2>3, <2>4
<1>5. BatchTypeOK' /\ InTime'
  <2>1. ASSUME NEW c \in Cycles, NEW x \in Facts PROVE built[c][x] <= folded'[x]
    <3>1. built[c] \in Stamps
      BY DEF BatchInv, BatchTypeOK
    <3>2. built[c][x] \in Nat /\ folded[x] \in Nat /\ folded'[x] \in Nat
      BY <1>4, <3>1 DEF Stamps
    <3>3. built[c][x] <= folded[x] /\ folded[x] <= folded'[x]
      BY <1>4 DEF BatchInv, InTime
    <3> QED BY <3>2, <3>3
  <2>2. unit' \in [Units -> UnitState] /\ \A v \in Units : unit'[v].line \in DOMAIN Lines[v]
    <3>1. unit \in [Units -> UnitState] /\ \A v \in Units : unit[v].line \in DOMAIN Lines[v]
      BY DEF BatchInv, BatchTypeOK
    <3> HIDE DEF q
    <3> QED BY <1>1, <1>2, <1>3, <3>1
  <2> QED BY <1>1, <1>4, <2>1, <2>2 DEF BatchInv, BatchTypeOK, InTime
<1> HIDE DEF q
<1>6. /\ \A m \in Listings : fetched[m] <= fetched'[m]
      /\ \A c \in Cycles, x \in Facts : built[c][x] <= built'[c][x]
  BY <1>1, KeptGrows
<1>7. /\ r.day \in Nat /\ r.day <= day /\ r.line - 1 \in Int
      /\ Fresh(folded, built, u, r.line - 1, r.day, r.missed)
      /\ Brought(fetched, u, r.line - 1, r.day, r.missed)
  BY <1>1, <1>2, Present, UnitFields DEF Progress
<1>8. Fresh(folded', built', u, r.line - 1, r.day, r.missed)
  <2>1. /\ built \in [Cycles -> Stamps] /\ built' \in [Cycles -> Stamps]
        /\ r.missed \subseteq r.missed
    BY <1>1 DEF BatchInv, BatchTypeOK
  <2> QED BY <2>1, <1>4, <1>6, <1>7, FreshGrows
<1>9. AllFolded(folded', u, r.line, r.day, r.missed)
  <2> SUFFICES ASSUME NEW n \in DOMAIN Steps[p], NEW m \in Awaited(u, r.line) \ r.missed
               PROVE  folded'[Steps[p][n], m] >= r.day
    BY <1>2 DEF AllFolded
  <2> DEFINE x == <<Steps[p][n], m>>
  <2>1. x \in Facts
    BY <1>2, AwaitedFacts
  <2>2. r.basis[x] >= r.day
    BY <1>1, <1>2 DEF Called, Based
  <2>3. folded'[x] \in Nat /\ r.basis[x] \in Nat /\ r.basis[x] <= folded'[x]
    BY <2>1, <1>2, <1>4 DEF Stamps
  <2> HIDE DEF x
  <2>4. folded'[x] >= r.day
    BY <2>2, <2>3, <1>7
  <2> QED BY <2>4 DEF x
<1>10. Fresh(folded', built', u, r.line, r.day, r.missed)
  <2>1. \A i \in DOMAIN Lines[u] : AllBuilt(built', u, i, r.line, r.day, r.missed)
    BY <1>2 DEF AllBuilt
  <2> QED BY <2>1, <1>2, <1>8, <1>9, FreshNext
<1>11. Brought(fetched', u, r.line, r.day, r.missed)
  <2>1. Collected(Lines[u][r.line]) = {}
    BY <1>2 DEF Collected
  <2> QED BY <2>1, <1>1, <1>2, <1>7, BroughtNext
<1>12. Working(u, q) /\ Progress(u, q, day, folded', built', fetched')
  BY <1>1, <1>3, <1>7, <1>8, <1>10, <1>11 DEF Working, Progress, Called
<1>13. \A v \in Units : green'[v] = green[v]
  BY <1>1
<1> QED BY <1>1, <1>3, <1>4, <1>5, <1>6, <1>12, <1>13, UnitStep

LEMMA StartProcessKeeps == ASSUME BatchInv, NEW u \in Units, StartProcess(u) PROVE BatchInv'
<1> DEFINE r == unit[u]
           at == IF Line(u).procedure # "" THEN "call"
                 ELSE IF Line(u).mode = "run-only" THEN "run" ELSE "generate"
           q == [r EXCEPT !.gen = 0, !.run = 0, !.step = 1, !.buffer = 0, !.logged = 0, !.at = at]
<1>1. /\ unit' = [unit EXCEPT ![u] = q] /\ r.at = "line" /\ UNCHANGED <<day, Database, green>>
      /\ environ' = [environ EXCEPT ![u] = dotenv] /\ since' = [since EXCEPT ![u] = newest]
      /\ dotenv' = dotenv /\ newest' = newest
  BY DEF StartProcess, Put
<1>2. /\ r \in UnitState /\ r.line \in DOMAIN Lines[u] /\ Line(u) = Lines[u][r.line]
      /\ r.line \in Nat /\ ProperLine(Lines[u][r.line])
  BY Present, LineFacts
<1>3. /\ q \in UnitState /\ q.at = at /\ q.line = r.line /\ q.day = r.day
      /\ q.gen = 0 /\ q.run = 0 /\ q.missed = r.missed /\ q.step = 1
  <2>1. at \in Point
    OBVIOUS
  <2> HIDE DEF at
  <2> QED BY <1>2, <2>1 DEF UnitState
<1> HIDE DEF q
<1>4. Working(u, q)
  BY <1>2, <1>3 DEF Working
<1>5. Called(u, q)
  <2>1. ASSUME at = "call", NEW n \in DOMAIN Steps[Lines[u][r.line].procedure] PROVE ~(n < 1)
    <3>1. n \in Nat /\ n >= 1
      BY <1>2, <2>1, LineFacts, StepNumbers
    <3> QED BY <3>1
  <2>2. at \notin {"read", "commit"}
    OBVIOUS
  <2> HIDE DEF at
  <2> QED BY <2>1, <2>2, <1>3 DEF Called
<1>6. Progress(u, q, day, folded, built, fetched)
  <2>1. CASE at # "run"
    <3>1. at \in {"generate", "call"}
      BY <2>1
    <3> HIDE DEF at
    <3> QED BY <1>1, <1>3, <1>5, <3>1, OnTheWay
  <2>2. CASE at = "run"
    <3>1. Lines[u][r.line].procedure = "" /\ Lines[u][r.line].mode = "run-only"
      BY <1>2, <2>2
    <3>2. /\ r.day <= day /\ Fresh(folded, built, u, r.line - 1, r.day, r.missed)
          /\ Brought(fetched, u, r.line - 1, r.day, r.missed)
      BY <1>1, Present DEF Progress
    <3>3. Fresh(folded, built, u, r.line, r.day, r.missed)
      BY <1>2, <3>1, <3>2, FreshNext DEF AllFolded, AllBuilt
    <3> QED BY <1>3, <1>5, <2>2, <3>2, <3>3 DEF Progress
  <2> QED BY <2>1, <2>2
<1>7. environ' \in [Units -> [Tokens -> Nat]] /\ since' \in [Units -> [Tokens -> Nat]]
  BY <1>1, SecretsTyped
<1> QED BY <1>1, <1>2, <1>3, <1>4, <1>6, <1>7, SecretsTyped, SecretStep

\* The second process of a line finds what the first has left.
LEMMA StartRunKeeps == ASSUME BatchInv, NEW u \in Units, StartRun(u) PROVE BatchInv'
<1> DEFINE r == unit[u]
           q == [r EXCEPT !.at = "run"]
<1>1. /\ unit' = [unit EXCEPT ![u] = q] /\ r.at = "start" /\ UNCHANGED <<day, Database, green>>
      /\ environ' = [environ EXCEPT ![u] = dotenv] /\ since' = [since EXCEPT ![u] = newest]
      /\ dotenv' = dotenv /\ newest' = newest
  BY DEF StartRun, Put
<1>2. /\ r \in UnitState /\ r.line \in DOMAIN Lines[u]
      /\ Working(u, r) /\ Progress(u, r, day, folded, built, fetched)
  BY Present
<1>3. /\ q \in UnitState /\ q.at = "run" /\ q.line = r.line /\ q.day = r.day
      /\ q.gen = r.gen /\ q.run = r.run /\ q.missed = r.missed
  BY <1>2 DEF UnitState
<1> HIDE DEF q
<1>4. Working(u, q) /\ Progress(u, q, day, folded, built, fetched)
  BY <1>1, <1>2, <1>3 DEF Working, Progress, Called
<1>5. environ' \in [Units -> [Tokens -> Nat]] /\ since' \in [Units -> [Tokens -> Nat]]
  BY <1>1, SecretsTyped
<1> QED BY <1>1, <1>2, <1>3, <1>4, <1>5, SecretsTyped, SecretStep

\* Asking for a token and storing it is a part of the run.
LEMMA TokenKeeps ==
  ASSUME BatchInv, NEW u \in Units, Persist(u) \/ \E k \in Tokens : Refresh(u, k)
  PROVE  BatchInv'
<1> DEFINE r == unit[u]
<1>1. /\ r \in UnitState /\ r.line \in DOMAIN Lines[u] /\ Line(u) = Lines[u][r.line]
      /\ Working(u, r) /\ Progress(u, r, day, folded, built, fetched)
  BY Present
<1>2. CASE Persist(u)
  <2> DEFINE q == [r EXCEPT !.at = "run", !.token = "", !.copy = <<>>]
  <2>1. /\ unit' = [unit EXCEPT ![u] = q] /\ r.at = "persist" /\ UNCHANGED <<day, Database, green>>
        /\ dotenv' = [r.copy EXCEPT ![r.token] = environ[u][r.token]]
        /\ newest' = [newest EXCEPT ![r.token] = environ[u][r.token]]
        /\ environ' = environ /\ since' = since
    BY <1>2 DEF Persist, Put
  <2>2. /\ q \in UnitState /\ q.at = "run" /\ q.line = r.line /\ q.day = r.day
        /\ q.gen = r.gen /\ q.run = r.run /\ q.missed = r.missed
    BY <1>1 DEF UnitState
  <2> HIDE DEF q
  <2>3. r.token \in Tokens /\ r.copy \in [Tokens -> Nat]
    BY <1>1, <2>1, LineFacts, BatchAssumption DEF Working, BatchAssumption
  <2>4. environ[u][r.token] \in Nat
    BY <2>3, SecretsTyped
  <2>5. dotenv' \in [Tokens -> Nat] /\ newest' \in [Tokens -> Nat]
    BY <2>1, <2>3, <2>4, SecretsTyped
  <2>6. Working(u, q) /\ Progress(u, q, day, folded, built, fetched)
    BY <1>1, <2>1, <2>2 DEF Working, Progress, Called
  <2> QED BY <1>1, <2>1, <2>2, <2>5, <2>6, SecretsTyped, SecretStep
<1>3. ASSUME NEW k \in Tokens, Refresh(u, k) PROVE BatchInv'
  <2> DEFINE q == [r EXCEPT !.at = "persist", !.token = k, !.copy = dotenv]
  <2>1. /\ unit' = [unit EXCEPT ![u] = q] /\ r.at = "run" /\ UNCHANGED <<day, Database, green>>
        /\ environ' = [environ EXCEPT ![u][k] = newest[k] + 1]
        /\ Line(u).cycle \in DOMAIN Refreshes /\ k \in Refreshes[Line(u).cycle]
        /\ dotenv' = dotenv /\ newest' = newest /\ since' = since
    BY <1>3 DEF Refresh, Put
  <2>2. /\ q \in UnitState /\ q.at = "persist" /\ q.line = r.line /\ q.day = r.day
        /\ q.gen = r.gen /\ q.run = r.run /\ q.token = k /\ q.copy = dotenv /\ q.missed = r.missed
    BY <1>1, SecretsTyped DEF UnitState
  <2> HIDE DEF q
  <2>3. environ' \in [Units -> [Tokens -> Nat]]
    <3>1. newest[k] \in Nat
      BY SecretsTyped
    <3>2. newest[k] + 1 \in Nat
      BY <3>1
    <3> QED BY <2>1, <3>2, SecretsTyped
  <2>4. Working(u, q) /\ Progress(u, q, day, folded, built, fetched)
    BY <1>1, <2>1, <2>2, SecretsTyped DEF Working, Progress, Called
  <2> QED BY <1>1, <2>1, <2>2, <2>3, <2>4, SecretsTyped, SecretStep
<1> QED BY <1>2, <1>3

\* run_cycle.sh: the jobs are built from the masters as they are committed.
LEMMA GenerateKeeps == ASSUME BatchInv, NEW u \in Units, Generate(u) PROVE BatchInv'
<1> DEFINE r == unit[u]
           l == Line(u)
           at == IF l.mode = "generate-only" THEN "exit" ELSE "start"
           q == [r EXCEPT !.at = at]
<1>1. /\ unit' = [unit EXCEPT ![u] = q] /\ r.at = "generate"
      /\ built' = [built EXCEPT ![l.cycle] = folded]
      /\ day' = day /\ fetched' = fetched /\ folded' = folded /\ green' = green
      /\ dotenv' = dotenv /\ environ' = environ /\ newest' = newest /\ since' = since
  BY DEF Generate, Put, Secrets
<1>2. /\ r \in UnitState /\ r.line \in DOMAIN Lines[u] /\ l = Lines[u][r.line]
      /\ l.procedure = "" /\ r.run = 0 /\ r.gen = 0 /\ r.line \in Nat
      /\ l.cycle # "" /\ l.cycle \in Cycles
  BY <1>1, Present, LineFacts DEF Working, ProperLine
<1>3. /\ q \in UnitState /\ q.at = at /\ q.line = r.line /\ q.day = r.day
      /\ q.gen = 0 /\ q.run = 0 /\ q.missed = r.missed
  <2>1. at \in Point
    OBVIOUS
  <2> HIDE DEF at
  <2> QED BY <1>2, <2>1 DEF UnitState
<1> HIDE DEF q
<1>4. BatchTypeOK' /\ InTime' /\ \A c \in Cycles, s \in Facts : built[c][s] <= built'[c][s]
  <2>1. folded \in Stamps /\ built \in [Cycles -> Stamps] /\ \A s \in Facts : folded[s] \in Nat
    BY DEF BatchInv, BatchTypeOK, Stamps
  <2>2. built' \in [Cycles -> Stamps]
    BY <1>1, <2>1
  <2>3. ASSUME NEW c \in Cycles PROVE built'[c] = folded \/ built'[c] = built[c]
    BY <1>1, <2>1
  <2>4. ASSUME NEW c \in Cycles, NEW s \in Facts
        PROVE  built[c][s] <= built'[c][s] /\ built'[c][s] <= folded[s]
    <3>1. built[c] \in Stamps
      BY <2>1
    <3>2. built[c][s] \in Nat /\ folded[s] \in Nat
      BY <2>1, <3>1 DEF Stamps
    <3>3. built[c][s] <= folded[s]
      BY DEF BatchInv, InTime
    <3> QED BY <2>3, <3>2, <3>3
  <2>5. unit' \in [Units -> UnitState] /\ \A v \in Units : unit'[v].line \in DOMAIN Lines[v]
    <3>1. unit \in [Units -> UnitState] /\ \A v \in Units : unit[v].line \in DOMAIN Lines[v]
      BY DEF BatchInv, BatchTypeOK
    <3> QED BY <1>1, <1>2, <1>3, <3>1
  <2> QED BY <1>1, <2>2, <2>4, <2>5 DEF BatchInv, BatchTypeOK, InTime
<1>5. /\ r.day \in Nat /\ r.day <= day /\ r.line - 1 \in Int
      /\ Fresh(folded, built, u, r.line - 1, r.day, r.missed)
      /\ Brought(fetched, u, r.line - 1, r.day, r.missed)
  BY <1>1, <1>2, Present, UnitFields DEF Progress
<1>6. /\ \A x \in Facts : folded[x] <= folded'[x]
      /\ \A m \in Listings : fetched[m] <= fetched'[m]
  BY <1>1, KeptGrows
<1>7. Fresh(folded', built', u, r.line - 1, r.day, r.missed)
  <2>1. /\ folded \in Stamps /\ folded' \in Stamps /\ r.missed \subseteq r.missed
        /\ built \in [Cycles -> Stamps] /\ built' \in [Cycles -> Stamps]
    BY <1>4 DEF BatchInv, BatchTypeOK
  <2> QED BY <2>1, <1>4, <1>5, <1>6, FreshGrows
<1>8. Fresh(folded', built', u, r.line, r.day, r.missed)
  <2>1. AllFolded(folded', u, r.line, r.day, r.missed)
    BY <1>2 DEF AllFolded
  <2>2. ASSUME NEW i \in DOMAIN Lines[u], i < r.line
        PROVE  AllBuilt(built', u, i, r.line, r.day, r.missed)
    <3>1. i <= r.line - 1
      <4>1. i \in Nat /\ r.line \in Nat
        BY <1>2, LineNumbers
      <4> QED BY <2>2, <4>1
    <3>2. AllFolded(folded', u, i, r.day, r.missed)
      BY <1>7, <3>1 DEF Fresh
    <3>3. built'[l.cycle] = folded'
      BY <1>1, <1>2 DEF BatchInv, BatchTypeOK
    <3> QED BY <1>2, <3>2, <3>3 DEF AllFolded, AllBuilt
  <2> QED BY <2>1, <2>2, <1>2, <1>7, FreshNext
<1>9. l.mode = "generate-only" => Brought(fetched', u, r.line, r.day, r.missed)
  BY <1>1, <1>2, <1>5, BroughtNext DEF Collected
<1>10. Working(u, q) /\ Progress(u, q, day, folded', built', fetched')
  BY <1>1, <1>2, <1>3, <1>5, <1>7, <1>8, <1>9 DEF Working, Progress, Called
<1>11. \A v \in Units : green'[v] = green[v]
  BY <1>1
<1> QED BY <1>1, <1>3, <1>4, <1>6, <1>10, <1>11, UnitStep

\* A generation that fails leaves its code, and what was built is as before.
LEMMA GenerateFailsKeeps == ASSUME BatchInv, NEW u \in Units, GenerateFails(u) PROVE BatchInv'
<1> DEFINE r == unit[u]
           at == IF Line(u).mode = "generate-only" THEN "exit" ELSE "start"
           q == [r EXCEPT !.gen = 1, !.at = at]
<1>1. unit' = [unit EXCEPT ![u] = q] /\ r.at = "generate" /\ UNCHANGED <<day, Database, Secrets, green>>
  BY DEF GenerateFails, Put
<1>2. /\ r \in UnitState /\ r.line \in DOMAIN Lines[u]
      /\ Working(u, r) /\ Progress(u, r, day, folded, built, fetched)
  BY Present
<1>3. /\ q \in UnitState /\ q.at = at /\ q.line = r.line /\ q.day = r.day
      /\ q.gen = 1 /\ q.run = r.run /\ q.missed = r.missed
  <2>1. at \in Point
    OBVIOUS
  <2> HIDE DEF at
  <2> QED BY <1>2, <2>1 DEF UnitState
<1> HIDE DEF q
<1>4. Working(u, q)
  BY <1>1, <1>2, <1>3 DEF Working
<1>5. ExitCode(q) # 0
  BY <1>3 DEF ExitCode
<1>6. /\ r.day <= day /\ Fresh(folded, built, u, r.line - 1, r.day, r.missed)
      /\ Brought(fetched, u, r.line - 1, r.day, r.missed)
  BY <1>1, <1>2 DEF Progress
<1>7. Progress(u, q, day, folded, built, fetched)
  BY <1>3, <1>5, <1>6 DEF Progress, Called
<1> QED BY <1>1, <1>2, <1>3, <1>4, <1>7, QuietStep

\* What a run has collected is of today.
LEMMA BringFresh ==
  ASSUME BatchInv, NEW got, Bring(got)
  PROVE  /\ fetched' \in [Listings -> Nat]
         /\ \A m \in Listings : fetched[m] <= fetched'[m] /\ fetched'[m] <= day
         /\ \A m \in Listings : m \in got => fetched'[m] = day
<1>1. day \in Nat /\ \A m \in Listings : fetched[m] \in Nat /\ fetched[m] <= day
  BY DEF BatchInv, BatchTypeOK, InTime
<1>2. fetched' = [m \in Listings |-> IF m \in got THEN day ELSE fetched[m]]
  BY DEF Bring
<1> QED BY <1>1, <1>2

\* The end of a run says nothing of its jobs, and does not hide its own failure
\* or that of the generation.
LEMMA RunKeeps ==
  ASSUME BatchInv, NEW u \in Units, RunCycle(u) \/ RunAborts(u) PROVE BatchInv'
<1> DEFINE r == unit[u]
<1>1. /\ r \in UnitState /\ r.line \in DOMAIN Lines[u] /\ r.line \in Nat /\ r.day \in Nat
      /\ Line(u) = Lines[u][r.line] /\ Collected(Lines[u][r.line]) \subseteq Listings
      /\ Working(u, r) /\ Progress(u, r, day, folded, built, fetched)
  BY Present, LineFacts, UnitFields, AwaitedFacts
<1>2. PICK got \in SUBSET Collected(Lines[u][r.line]) : Bring(got) /\ r.at = "run" /\
        \/ unit' = [unit EXCEPT ![u] = [r EXCEPT !.at = "exit",
                      !.missed = @ \cup (Collected(Lines[u][r.line]) \ got)]]
        \/ unit' = [unit EXCEPT ![u] = [r EXCEPT !.at = "exit", !.run = 1]]
  BY <1>1 DEF RunCycle, RunAborts, Put
<1>3. /\ day' = day /\ folded' = folded /\ built' = built /\ green' = green
      /\ dotenv' = dotenv /\ environ' = environ /\ newest' = newest /\ since' = since
  BY DEF RunCycle, RunAborts, Secrets
<1>4. /\ fetched' \in [Listings -> Nat]
      /\ \A m \in Listings : fetched[m] <= fetched'[m] /\ fetched'[m] <= day
      /\ \A m \in Listings : m \in got => fetched'[m] = day
  BY <1>2, BringFresh
<1>5. fetched \in [Listings -> Nat] /\ r.line - 1 \in Int
  BY <1>1 DEF BatchInv, BatchTypeOK
<1>6. ASSUME NEW q \in UnitState, unit' = [unit EXCEPT ![u] = q], q.line = r.line,
             Working(u, q), Progress(u, q, day, folded, built, fetched')
      PROVE  BatchInv'
  <2>1. unit' \in [Units -> UnitState] /\ \A v \in Units : unit'[v].line \in DOMAIN Lines[v]
    <3>1. unit \in [Units -> UnitState] /\ \A v \in Units : unit[v].line \in DOMAIN Lines[v]
      BY DEF BatchInv, BatchTypeOK
    <3> QED BY <1>1, <1>6, <3>1
  <2>2. BatchTypeOK' /\ InTime'
    BY <1>3, <1>4, <2>1 DEF BatchInv, BatchTypeOK, InTime
  <2>3. /\ \A x \in Facts : folded[x] <= folded'[x]
        /\ \A c \in Cycles, x \in Facts : built[c][x] <= built'[c][x]
    BY <1>3, KeptGrows
  <2>4. Progress(u, q, day, folded', built', fetched')
    BY <1>3, <1>6
  <2>5. \A v \in Units : green'[v] = green[v]
    BY <1>3
  <2> QED BY <1>3, <1>4, <1>6, <2>2, <2>3, <2>4, <2>5, UnitStep
<1>7. /\ r.day <= day /\ Fresh(folded, built, u, r.line - 1, r.day, r.missed)
      /\ Brought(fetched, u, r.line - 1, r.day, r.missed)
      /\ r.gen = 0 => Fresh(folded, built, u, r.line, r.day, r.missed)
      /\ r.run = 0
  BY <1>1, <1>2 DEF Progress, Working
<1>8. CASE unit' = [unit EXCEPT ![u] = [r EXCEPT !.at = "exit",
                      !.missed = @ \cup (Collected(Lines[u][r.line]) \ got)]]
  <2> DEFINE more == r.missed \cup (Collected(Lines[u][r.line]) \ got)
             q == [r EXCEPT !.at = "exit", !.missed = more]
  <2>1. more \in SUBSET Listings /\ r.missed \subseteq more
    <3>1. r.missed \in SUBSET Listings
      BY <1>1 DEF UnitState
    <3> QED BY <1>1, <3>1
  <2>2. unit' = [unit EXCEPT ![u] = q]
    BY <1>8
  <2>3. \A m \in Collected(Lines[u][r.line]) \ more : m \in got /\ m \in Listings
    BY <1>1
  <2> HIDE DEF more
  <2>4. /\ q \in UnitState /\ q.at = "exit" /\ q.line = r.line /\ q.day = r.day
        /\ q.gen = r.gen /\ q.run = r.run /\ q.missed = more
    BY <1>1, <2>1 DEF UnitState
  <2> HIDE DEF q
  <2>5. \A last \in Int : Fresh(folded, built, u, last, r.day, r.missed)
                           => Fresh(folded, built, u, last, r.day, more)
    <3>1. folded \in Stamps /\ built \in [Cycles -> Stamps]
      BY DEF BatchInv, BatchTypeOK
    <3> QED BY <3>1, <1>1, <2>1, KeptGrows, FreshGrows
  <2>6. Brought(fetched', u, r.line - 1, r.day, more)
    BY <1>1, <1>4, <1>5, <1>7, <2>1, BroughtGrows
  <2>7. Brought(fetched', u, r.line, r.day, more)
    <3>1. \A m \in Collected(Lines[u][r.line]) \ more : fetched'[m] >= r.day
      <4>1. day \in Nat
        BY DEF BatchInv, BatchTypeOK
      <4> QED BY <4>1, <1>1, <1>4, <1>7, <2>3
    <3> QED BY <1>1, <2>6, <3>1, BroughtNext
  <2>8. ExitCode(q) = 0 => r.gen = 0
    BY <1>7, <2>4 DEF ExitCode
  <2>9. Working(u, q) /\ Progress(u, q, day, folded, built, fetched')
    <3>1. r.line \in Int
      BY <1>1
    <3> QED BY <1>5, <1>7, <2>4, <2>5, <2>6, <2>7, <2>8, <3>1 DEF Working, Progress, Called
  <2> QED BY <1>6, <2>2, <2>4, <2>9
<1>9. CASE unit' = [unit EXCEPT ![u] = [r EXCEPT !.at = "exit", !.run = 1]]
  <2> DEFINE q == [r EXCEPT !.at = "exit", !.run = 1]
  <2>1. /\ q \in UnitState /\ q.at = "exit" /\ q.line = r.line /\ q.day = r.day
        /\ q.run = 1 /\ q.missed = r.missed
    BY <1>1 DEF UnitState
  <2>2. unit' = [unit EXCEPT ![u] = q]
    BY <1>9
  <2> HIDE DEF q
  <2>3. Brought(fetched', u, r.line - 1, r.day, r.missed)
    <3>1. r.missed \subseteq r.missed
      OBVIOUS
    <3> QED BY <3>1, <1>1, <1>4, <1>5, <1>7, BroughtGrows
  <2>4. Working(u, q) /\ Progress(u, q, day, folded, built, fetched')
    BY <1>7, <2>1, <2>3 DEF Working, Progress, ExitCode, Called
  <2> QED BY <1>6, <2>1, <2>2, <2>4
<1> QED BY <1>2, <1>8, <1>9

\* A line that failed ends the unit without green; the last one that did not
\* ends it with.
LEMMA ExitKeeps == ASSUME BatchInv, NEW u \in Units, Exit(u) PROVE BatchInv'
<1> DEFINE r == unit[u]
           off == [Off EXCEPT !.due = r.due]
           q == [r EXCEPT !.line = @ + 1, !.at = "line"]
<1>1. /\ r \in UnitState /\ r.line \in DOMAIN Lines[u] /\ r.at = "exit"
      /\ Progress(u, r, day, folded, built, fetched) /\ r.due \in BOOLEAN /\ r.line \in Nat /\ r.day \in Nat
      /\ r.missed \in SUBSET Listings
  <2>1. r \in UnitState
    BY Present
  <2> QED BY <2>1, Present DEF Exit, UnitState
<1>2. off \in UnitState /\ off.line \in DOMAIN Lines[u] /\ off.at = "off"
  BY <1>1, OffState
<1>3. UNCHANGED <<day, Database, Secrets>>
  BY DEF Exit
<1>4. CASE ExitCode(r) # 0
  <2>1. unit' = [unit EXCEPT ![u] = off] /\ UNCHANGED green
    BY <1>4 DEF Exit, Put
  <2> HIDE DEF off
  <2>2. Working(u, off) /\ Progress(u, off, day, folded, built, fetched)
    BY <1>2 DEF Working, Progress, Called
  <2> QED BY <1>2, <1>3, <2>1, <2>2, QuietStep
<1>5. CASE ExitCode(r) = 0 /\ r.line < Len(Lines[u])
  <2>1. unit' = [unit EXCEPT ![u] = q] /\ UNCHANGED green
    BY <1>5 DEF Exit, Put
  <2>2. /\ r.line + 1 \in Nat /\ (r.line + 1) - 1 = r.line /\ r.line + 1 \in DOMAIN Lines[u]
    <3>1. r.line \in Nat /\ r.line < Len(Lines[u]) /\ Len(Lines[u]) \in Nat
      BY <1>1, <1>5, BatchAssumption DEF BatchAssumption
    <3>2. r.line + 1 \in 1..Len(Lines[u]) /\ (r.line + 1) - 1 = r.line
      BY <3>1
    <3> QED BY <3>1, <3>2, BatchAssumption DEF BatchAssumption
  <2>3. /\ q \in UnitState /\ q.at = "line" /\ q.line = r.line + 1 /\ q.day = r.day
        /\ q.missed = r.missed
    BY <1>1, <2>2 DEF UnitState
  <2> HIDE DEF q
  <2>4. Working(u, q) /\ Progress(u, q, day, folded, built, fetched)
    BY <1>1, <1>5, <2>2, <2>3 DEF Working, Progress, Called
  <2> QED BY <1>3, <2>1, <2>2, <2>3, <2>4, QuietStep
<1>6. CASE ExitCode(r) = 0 /\ ~(r.line < Len(Lines[u]))
  <2>1. unit' = [unit EXCEPT ![u] = off] /\ green' = [green EXCEPT ![u] = [day |-> r.day, missed |-> r.missed]]
    BY <1>6 DEF Exit, Put
  <2> HIDE DEF off
  <2>2. /\ day' = day /\ fetched' = fetched /\ folded' = folded /\ built' = built
        /\ dotenv' = dotenv /\ environ' = environ /\ newest' = newest /\ since' = since
    BY <1>3 DEF Database, Secrets
  <2> DEFINE good == [day |-> r.day, missed |-> r.missed]
  <2>3. /\ green \in [Units -> [day : Nat, missed : SUBSET Listings]]
        /\ good \in [day : Nat, missed : SUBSET Listings]
        /\ good.day = r.day /\ good.missed = r.missed
    BY <1>1 DEF BatchInv, BatchTypeOK
  <2>4. /\ green' \in [Units -> [day : Nat, missed : SUBSET Listings]]
        /\ green'[u] = good /\ \A v \in Units : v # u => green'[v] = green[v]
    <3> HIDE DEF good
    <3>1. green' = [green EXCEPT ![u] = good]
      BY <2>1 DEF good
    <3> QED BY <2>3, <3>1
  <2> HIDE DEF good
  <2>5. unit' \in [Units -> UnitState] /\ \A v \in Units : unit'[v].line \in DOMAIN Lines[v]
    <3>1. unit \in [Units -> UnitState] /\ \A v \in Units : unit[v].line \in DOMAIN Lines[v]
      BY DEF BatchInv, BatchTypeOK
    <3> QED BY <1>2, <2>1, <3>1
  <2>6. BatchTypeOK' /\ InTime'
    BY <2>2, <2>4, <2>5 DEF BatchInv, BatchTypeOK, InTime
  <2>7. /\ \A m \in Listings : fetched[m] <= fetched'[m]
        /\ \A x \in Facts : folded[x] <= folded'[x]
        /\ \A c \in Cycles, x \in Facts : built[c][x] <= built'[c][x]
    BY <2>2, KeptGrows
  <2>8. Fresh(folded', built', u, Len(Lines[u]), green'[u].day, green'[u].missed)
    <3>1. r.line \in Nat /\ Len(Lines[u]) \in Nat
      BY <1>1, BatchAssumption DEF BatchAssumption
    <3>2. r.line <= Len(Lines[u])
      BY <1>1, LineFacts
    <3>3. r.line = Len(Lines[u])
      BY <1>6, <3>1, <3>2
    <3> QED BY <1>1, <1>6, <2>2, <2>3, <2>4, <3>3 DEF Progress
  <2>9. Working(u, off) /\ Progress(u, off, day, folded', built', fetched')
    BY <1>2 DEF Working, Progress, Called
  <2> QED BY <1>2, <2>1, <2>2, <2>4, <2>6, <2>7, <2>8, <2>9, UnitStep
<1> QED BY <1>4, <1>5, <1>6

\* A reboot takes every unit down; nothing that was under way counts.
LEMMA RebootKeeps == ASSUME BatchInv, Reboot PROVE BatchInv'
<1>1. /\ unit' = [u \in Units |-> [Off EXCEPT !.due = unit[u].due]]
      /\ day' = day /\ fetched' = fetched /\ folded' = folded /\ built' = built
      /\ green' = green /\ dotenv' = dotenv /\ environ' = environ /\ newest' = newest /\ since' = since
  BY DEF Reboot, Database, Secrets
<1>2. ASSUME NEW u \in Units
      PROVE  unit'[u] \in UnitState /\ unit'[u].line \in DOMAIN Lines[u] /\ unit'[u].at = "off"
  <2>1. unit[u].due \in BOOLEAN
    BY Present DEF UnitState
  <2> QED BY <1>1, <2>1, OffState
<1>3. unit' \in [Units -> UnitState]
  <2> DEFINE f(u) == [Off EXCEPT !.due = unit[u].due]
  <2>1. unit' = [u \in Units |-> f(u)] /\ \A u \in Units : f(u) \in UnitState
    BY <1>1, <1>2
  <2> HIDE DEF f
  <2> QED BY <2>1
<1>4. BatchTypeOK' /\ InTime'
  BY <1>1, <1>2, <1>3 DEF BatchInv, BatchTypeOK, InTime
<1>5. \A u \in Units : Working(u, unit'[u]) /\ Progress(u, unit'[u], day', folded', built', fetched')
  BY <1>2 DEF Working, Progress
<1> QED BY <1>1, <1>4, <1>5 DEF BatchInv

\* A day later everything is as fresh as it was.
LEMMA NextDayKeeps == ASSUME BatchInv, NextDay PROVE BatchInv'
<1>1. /\ unit' = [u \in Units |-> [unit[u] EXCEPT !.due = TRUE]]
      /\ day' = day + 1 /\ fetched' = fetched /\ folded' = folded /\ built' = built
      /\ green' = green /\ dotenv' = dotenv /\ environ' = environ /\ newest' = newest /\ since' = since
  BY DEF NextDay, Database, Secrets
<1>2. ASSUME NEW u \in Units
      PROVE  /\ [unit[u] EXCEPT !.due = TRUE] \in UnitState
             /\ unit'[u] = [unit[u] EXCEPT !.due = TRUE]
             /\ unit'[u].line = unit[u].line /\ unit'[u].at = unit[u].at /\ unit'[u].day = unit[u].day
             /\ unit'[u].gen = unit[u].gen /\ unit'[u].run = unit[u].run
             /\ unit'[u].token = unit[u].token /\ unit'[u].copy = unit[u].copy
             /\ unit'[u].basis = unit[u].basis /\ unit'[u].missed = unit[u].missed
             /\ unit'[u].step = unit[u].step
  <2>1. unit[u] \in UnitState
    BY Present
  <2> QED BY <1>1, <2>1 DEF UnitState
<1>3. unit' \in [Units -> UnitState] /\ \A u \in Units : unit'[u].line \in DOMAIN Lines[u]
  <2> DEFINE f(u) == [unit[u] EXCEPT !.due = TRUE]
  <2>1. unit' = [u \in Units |-> f(u)] /\ \A u \in Units : f(u) \in UnitState
    BY <1>1, <1>2
  <2>2. unit' \in [Units -> UnitState]
    <3> HIDE DEF f
    <3> QED BY <2>1
  <2> QED BY <1>2, <2>2, Present
<1>4. /\ day \in Nat /\ \A m \in Listings : fetched[m] \in Nat /\ fetched[m] <= day
  BY DEF BatchInv, BatchTypeOK, Stamps, InTime
<1>5. day' \in Nat /\ \A m \in Listings : fetched'[m] <= day'
  BY <1>1, <1>4
<1>6. BatchTypeOK' /\ InTime'
  BY <1>1, <1>3, <1>5 DEF BatchInv, BatchTypeOK, InTime
<1>7. ASSUME NEW u \in Units
      PROVE  Working(u, unit'[u]) /\ Progress(u, unit'[u], day', folded', built', fetched')
  <2>1. unit[u].day \in Nat
    BY Present, UnitFields
  <2>2. unit[u].day <= day => unit[u].day <= day'
    BY <1>1, <1>4, <2>1
  <2>3. ExitCode(unit'[u]) = ExitCode(unit[u])
    BY <1>2 DEF ExitCode
  <2>4. Working(u, unit[u]) /\ Progress(u, unit[u], day, folded, built, fetched)
    BY Present
  <2>5. Working(u, unit'[u])
    <3> DEFINE l == Lines[u][unit[u].line]
    <3>1. Lines[u][unit'[u].line] = l
      BY <1>2
    <3> HIDE DEF l
    <3>2. /\ unit[u].at \in {"generate", "start", "run", "persist"} => l.procedure = "" /\ unit[u].run = 0
          /\ unit[u].at = "generate" => unit[u].gen = 0
          /\ unit[u].at \in {"call", "read", "commit"} => l.procedure # ""
          /\ unit[u].at = "persist" =>
               /\ l.cycle \in DOMAIN Refreshes /\ unit[u].token \in Refreshes[l.cycle]
               /\ unit[u].copy \in [Tokens -> Nat]
      BY <2>4 DEF Working, l
    <3>3. /\ unit'[u].at = unit[u].at /\ unit'[u].gen = unit[u].gen /\ unit'[u].run = unit[u].run
          /\ unit'[u].token = unit[u].token /\ unit'[u].copy = unit[u].copy
      BY <1>2
    <3> QED BY <3>1, <3>2, <3>3 DEF Working
  <2>6. Progress(u, unit'[u], day', folded', built', fetched')
    <3>1. Called(u, unit[u]) => Called(u, unit'[u])
      BY <1>2 DEF Called, Based
    <3> QED BY <1>1, <1>2, <2>2, <2>3, <2>4, <3>1 DEF Progress
  <2> QED BY <2>5, <2>6
<1> QED BY <1>1, <1>6, <1>7 DEF BatchInv

LEMMA BatchInvInit == BatchInit => BatchInv
<1> SUFFICES ASSUME BatchInit PROVE BatchInv
  OBVIOUS
<1> DEFINE off == [Off EXCEPT !.due = TRUE]
<1>1. /\ day = 1 /\ unit = [u \in Units |-> off] /\ folded = Nothing
      /\ fetched = [m \in Listings |-> 0]
      /\ built = [c \in Cycles |-> folded] /\ dotenv = [k \in Tokens |-> 0]
      /\ environ = [u \in Units |-> dotenv] /\ newest = dotenv /\ since = environ
      /\ green = [u \in Units |-> [day |-> 0, missed |-> {}]]
  BY DEF BatchInit
<1>2. \A u \in Units : off \in UnitState /\ off.line \in DOMAIN Lines[u] /\ off.at = "off"
  BY OffState
<1> HIDE DEF off
<1>3. folded \in Stamps /\ built \in [Cycles -> Stamps]
  BY <1>1 DEF Nothing, Stamps
<1>4. unit \in [Units -> UnitState] /\ \A u \in Units : unit[u].line \in DOMAIN Lines[u]
  BY <1>1, <1>2
<1>5. BatchTypeOK
  BY <1>1, <1>3, <1>4 DEF BatchTypeOK
<1>6. InTime
  BY <1>1 DEF InTime, Nothing
<1>7. \A u \in Units : Working(u, unit[u]) /\ Progress(u, unit[u], day, folded, built, fetched)
  BY <1>1, <1>2 DEF Working, Progress
<1> QED BY <1>1, <1>5, <1>6, <1>7 DEF BatchInv

LEMMA BatchInductive == BatchInv /\ [BatchNext]_batchVars => BatchInv'
<1> SUFFICES ASSUME BatchInv, [BatchNext]_batchVars PROVE BatchInv'
  OBVIOUS
<1>1. ASSUME NEW u \in Units, BatchStep(u) PROVE BatchInv'
  BY <1>1, TimerKeeps, StartProcessKeeps, StartRunKeeps, ExitKeeps, GenerateKeeps, GenerateFailsKeeps,
     RunKeeps, TokenKeeps, CallStepKeeps, CallReturnsKeeps, CallRaisesKeeps, ReadBatchKeeps, CommitKeeps
     DEF BatchStep
<1>2. CASE UNCHANGED batchVars
  BY <1>2 DEF batchVars, BatchInv, BatchTypeOK, InTime
<1> QED BY <1>1, <1>2, RebootKeeps, NextDayKeeps DEF BatchNext

LEMMA BatchInvariant == BatchSpec => []BatchInv
BY BatchInvInit, BatchInductive, PTL DEF BatchSpec

-----------------------------------------------------------------------------
(* The tokens. *)

\* One unit at most has cycles that refresh tokens: .env is read and then
\* written as a whole, and a second writer could put an old value back.
OneRefresher ==
  \A u, v \in Units : \A i \in DOMAIN Lines[u], j \in DOMAIN Lines[v] :
    (/\ Lines[u][i].cycle \in DOMAIN Refreshes /\ Refreshes[Lines[u][i].cycle] # {}
     /\ Lines[v][j].cycle \in DOMAIN Refreshes /\ Refreshes[Lines[v][j].cycle] # {}) => u = v

\* .env holds what was written last, and whoever is about to write it has
\* read just that.
TokenInv ==
  /\ dotenv = newest
  /\ \A u \in Units, k \in Tokens : since[u][k] <= newest[k] /\ since[u][k] <= environ[u][k]
  /\ \A u \in Units : unit[u].at = "persist" =>
       unit[u].copy = dotenv /\ newest[unit[u].token] <= environ[u][unit[u].token]

\* With one refresher, whoever is between reading .env and writing it is the
\* only one.
LEMMA SolePersist ==
  ASSUME BatchInv, OneRefresher, NEW u \in Units, NEW v \in Units,
         unit[u].at = "persist", Line(v).cycle \in DOMAIN Refreshes, Refreshes[Line(v).cycle] # {}
  PROVE  u = v
<1>1. /\ Lines[u][unit[u].line].cycle \in DOMAIN Refreshes
      /\ Refreshes[Lines[u][unit[u].line].cycle] # {}
  BY Present DEF Working
<1>2. unit[u].line \in DOMAIN Lines[u] /\ unit[v].line \in DOMAIN Lines[v]
  BY Present
<1> QED BY <1>1, <1>2, Present DEF OneRefresher

LEMMA TokenInvInit == BatchInit => TokenInv
<1> SUFFICES ASSUME BatchInit PROVE TokenInv
  OBVIOUS
<1>1. \A u \in Units : unit[u].at = "off"
  BY DEF BatchInit, Off
<1>2. /\ dotenv = [k \in Tokens |-> 0] /\ newest = dotenv
      /\ environ = [u \in Units |-> dotenv] /\ since = environ
  BY DEF BatchInit
<1> QED BY <1>1, <1>2 DEF TokenInv

\* Steps that leave the tokens alone, and let nobody begin to write them.
LEMMA TokensAlone ==
  ASSUME TokenInv, UNCHANGED Secrets,
         \A u \in Units : unit'[u].at = "persist" =>
           unit[u].at = "persist" /\ unit'[u].copy = unit[u].copy /\ unit'[u].token = unit[u].token
  PROVE  TokenInv'
BY DEF TokenInv, Secrets

LEMMA PersistCurrent ==
  ASSUME BatchInv, OneRefresher, TokenInv, NEW u \in Units, Persist(u) PROVE TokenInv'
<1> DEFINE r == unit[u]
           t == r.token
           q == [r EXCEPT !.at = "run", !.token = "", !.copy = <<>>]
<1>1. /\ unit' = [unit EXCEPT ![u] = q] /\ r.at = "persist"
      /\ dotenv' = [r.copy EXCEPT ![t] = environ[u][t]]
      /\ newest' = [newest EXCEPT ![t] = environ[u][t]]
      /\ environ' = environ /\ since' = since
  BY DEF Persist, Put
<1>2. /\ t \in Tokens /\ r.copy = dotenv /\ newest[t] <= environ[u][t] /\ dotenv = newest
      /\ Line(u).cycle \in DOMAIN Refreshes /\ Refreshes[Line(u).cycle] # {}
  BY <1>1, Present, LineFacts, BatchAssumption DEF Working, TokenInv, BatchAssumption
<1>3. dotenv' = newest'
  BY <1>1, <1>2
<1>4. ASSUME NEW v \in Units, NEW k \in Tokens
      PROVE  since'[v][k] <= newest'[k] /\ since'[v][k] <= environ'[v][k]
  <2>1. since[v][k] <= newest[k] /\ since[v][k] <= environ[v][k]
    BY DEF TokenInv
  <2>2. since[v][k] \in Nat /\ newest[k] \in Nat /\ environ[u][k] \in Nat
    BY SecretsTyped
  <2>3. newest[k] <= newest'[k] /\ newest'[k] \in Nat
    BY <1>1, <1>2, <2>2, SecretsTyped
  <2> QED BY <1>1, <2>1, <2>2, <2>3
<1>5. ASSUME NEW v \in Units PROVE unit'[v].at # "persist"
  <2>1. CASE v = u
    <3>1. unit \in [Units -> UnitState] /\ q.at = "run"
      BY Present DEF UnitState, BatchInv, BatchTypeOK
    <3> HIDE DEF q
    <3> QED BY <1>1, <2>1, <3>1
  <2>2. CASE v # u
    <3>1. unit \in [Units -> UnitState]
      BY DEF BatchInv, BatchTypeOK
    <3>2. unit'[v] = unit[v]
      BY <1>1, <2>2, <3>1
    <3>3. unit[v].at # "persist"
      BY <1>2, <2>2, SolePersist
    <3> QED BY <3>2, <3>3
  <2> QED BY <2>1, <2>2
<1> QED BY <1>3, <1>4, <1>5 DEF TokenInv

LEMMA RefreshCurrent ==
  ASSUME BatchInv, TokenInv, NEW u \in Units, NEW k \in Tokens, Refresh(u, k) PROVE TokenInv'
<1> DEFINE q == [unit[u] EXCEPT !.at = "persist", !.token = k, !.copy = dotenv]
<1>1. /\ unit' = [unit EXCEPT ![u] = q]
      /\ environ' = [environ EXCEPT ![u][k] = newest[k] + 1]
      /\ dotenv' = dotenv /\ newest' = newest /\ since' = since
  BY DEF Refresh, Put
<1>2. newest[k] \in Nat /\ environ' \in [Units -> [Tokens -> Nat]]
  <2>1. newest[k] \in Nat
    BY SecretsTyped
  <2>2. newest[k] + 1 \in Nat
    BY <2>1
  <2> QED BY <1>1, <2>1, <2>2, SecretsTyped
<1>3. /\ environ'[u][k] = newest[k] + 1
      /\ \A v \in Units, t \in Tokens : <<v, t>> # <<u, k>> => environ'[v][t] = environ[v][t]
  BY <1>1, SecretsTyped
<1>4. ASSUME NEW v \in Units, NEW t \in Tokens
      PROVE  since'[v][t] <= newest'[t] /\ since'[v][t] <= environ'[v][t]
  <2>1. since[v][t] <= newest[t] /\ since[v][t] <= environ[v][t] /\ since[v][t] \in Nat
    BY SecretsTyped DEF TokenInv
  <2>2. CASE v = u /\ t = k
    BY <1>1, <1>2, <1>3, <2>1, <2>2
  <2>3. CASE <<v, t>> # <<u, k>>
    BY <1>1, <1>3, <2>1, <2>3
  <2> QED BY <2>2, <2>3
<1>5. ASSUME NEW v \in Units, unit'[v].at = "persist"
      PROVE  unit'[v].copy = dotenv' /\ newest'[unit'[v].token] <= environ'[v][unit'[v].token]
  <2>1. unit \in [Units -> UnitState]
    BY DEF BatchInv, BatchTypeOK
  <2>2. CASE v = u
    <3>1. q.token = k /\ q.copy = dotenv
      BY Present, SecretsTyped DEF UnitState
    <3>2. unit'[v] = q
      BY <1>1, <2>1, <2>2
    <3> HIDE DEF q
    <3>3. newest[k] <= newest[k] + 1
      BY <1>2
    <3> QED BY <1>1, <1>3, <2>2, <3>1, <3>2, <3>3
  <2>3. CASE v # u
    <3>1. unit'[v] = unit[v]
      BY <1>1, <2>1, <2>3
    <3>2. unit[v].copy = dotenv /\ newest[unit[v].token] <= environ[v][unit[v].token]
      BY <1>5, <3>1 DEF TokenInv
    <3>3. unit[v].token \in Tokens
      BY <1>5, <3>1, Present, LineFacts, BatchAssumption DEF Working, BatchAssumption
    <3> QED BY <1>1, <1>3, <2>3, <3>1, <3>2, <3>3
  <2> QED BY <2>2, <2>3
<1> QED BY <1>1, <1>4, <1>5 DEF TokenInv

LEMMA StartCurrent ==
  ASSUME BatchInv, TokenInv, NEW u \in Units, StartProcess(u) \/ StartRun(u) PROVE TokenInv'
<1>1. PICK q : /\ unit' = [unit EXCEPT ![u] = q] /\ q.at # "persist"
               /\ environ' = [environ EXCEPT ![u] = dotenv] /\ since' = [since EXCEPT ![u] = newest]
               /\ dotenv' = dotenv /\ newest' = newest
  <2>1. CASE StartProcess(u)
    <3> DEFINE at == IF Line(u).procedure # "" THEN "call"
                     ELSE IF Line(u).mode = "run-only" THEN "run" ELSE "generate"
               p == [unit[u] EXCEPT !.gen = 0, !.run = 0, !.step = 1, !.buffer = 0, !.logged = 0,
                                    !.at = at]
    <3>1. unit' = [unit EXCEPT ![u] = p]
      BY <2>1 DEF StartProcess, Put
    <3>2. p.at = at /\ at # "persist"
      BY Present DEF UnitState
    <3> HIDE DEF p
    <3> QED BY <2>1, <3>1, <3>2 DEF StartProcess
  <2>2. CASE StartRun(u)
    <3> DEFINE p == [unit[u] EXCEPT !.at = "run"]
    <3>1. unit' = [unit EXCEPT ![u] = p]
      BY <2>2 DEF StartRun, Put
    <3>2. p.at = "run"
      BY Present DEF UnitState
    <3> HIDE DEF p
    <3> QED BY <2>2, <3>1, <3>2 DEF StartRun
  <2> QED BY <2>1, <2>2
<1>2. unit \in [Units -> UnitState]
  BY DEF BatchInv, BatchTypeOK
<1>3. ASSUME NEW v \in Units, NEW k \in Tokens
      PROVE  since'[v][k] <= newest'[k] /\ since'[v][k] <= environ'[v][k]
  <2>1. newest[k] \in Nat /\ dotenv = newest
    BY SecretsTyped DEF TokenInv
  <2>2. CASE v = u
    BY <1>1, <2>1, <2>2, SecretsTyped
  <2>3. CASE v # u
    BY <1>1, <2>3, SecretsTyped DEF TokenInv
  <2> QED BY <2>2, <2>3
<1>4. ASSUME NEW v \in Units, unit'[v].at = "persist"
      PROVE  unit'[v].copy = dotenv' /\ newest'[unit'[v].token] <= environ'[v][unit'[v].token]
  <2>1. v # u /\ unit'[v] = unit[v]
    BY <1>1, <1>2, <1>4
  <2> QED BY <1>1, <1>4, <2>1, SecretsTyped DEF TokenInv
<1> QED BY <1>1, <1>3, <1>4 DEF TokenInv

LEMMA TokenInductive ==
  ASSUME BatchInv, BatchInv', OneRefresher, TokenInv, [BatchNext]_batchVars PROVE TokenInv'
<1> USE DEF Off
<1>0. unit \in [Units -> UnitState]
  BY DEF BatchInv, BatchTypeOK
<1>1. ASSUME NEW u \in Units, NEW q \in UnitState, UNCHANGED Secrets,
             unit' = [unit EXCEPT ![u] = q], q.at # "persist"
      PROVE  TokenInv'
  BY <1>0, <1>1, TokensAlone
<1>2. ASSUME NEW u \in Units,
             \/ Timer(u) \/ Exit(u) \/ Generate(u) \/ GenerateFails(u) \/ RunCycle(u) \/ RunAborts(u)
             \/ CallStep(u) \/ CallReturns(u) \/ CallRaises(u) \/ ReadBatch(u) \/ Commit(u)
      PROVE  TokenInv'
  <2>1. UNCHANGED Secrets
    BY <1>2 DEF Timer, Exit, Generate, GenerateFails, RunCycle, RunAborts, CallStep, CallReturns,
                CallRaises, ReadBatch, Commit
  <2>2. unit' = [unit EXCEPT ![u] = unit'[u]] /\ unit'[u] \in UnitState
    <3>1. unit' \in [Units -> UnitState]
      BY DEF BatchInv, BatchTypeOK
    <3>2. \A v \in Units : v # u => unit'[v] = unit[v]
      BY <1>0, <1>2 DEF Put, Timer, Exit, Generate, GenerateFails, RunCycle, RunAborts, CallStep,
                        CallReturns, CallRaises, ReadBatch, Commit
    <3> QED BY <1>0, <3>1, <3>2
  <2>3. unit'[u].at # "persist"
    <3>1. unit[u] \in UnitState
      BY <1>0
    <3>2. CASE Timer(u)
      BY <1>0, <3>1, <3>2 DEF Put, Timer, UnitState
    <3>3. CASE Exit(u)
      <4>1. PICK q : unit' = [unit EXCEPT ![u] = q] /\ q.at \in {"off", "line"}
        <5>1. \/ Put(u, [Off EXCEPT !.due = unit[u].due])
              \/ Put(u, [unit[u] EXCEPT !.line = @ + 1, !.at = "line"])
          BY <3>3 DEF Exit
        <5>2. [Off EXCEPT !.due = unit[u].due].at = "off"
          OBVIOUS
        <5>3. [unit[u] EXCEPT !.line = @ + 1, !.at = "line"].at = "line"
          BY <3>1 DEF UnitState
        <5> QED BY <5>1, <5>2, <5>3 DEF Put
      <4>2. unit'[u] = q
        BY <1>0, <4>1
      <4> QED BY <4>1, <4>2
    <3>4. CASE Generate(u)
      BY <1>0, <3>1, <3>4 DEF Put, Generate, UnitState
    <3>5. CASE GenerateFails(u)
      BY <1>0, <3>1, <3>5 DEF Put, GenerateFails, UnitState
    <3>6. CASE RunCycle(u)
      BY <1>0, <3>1, <3>6 DEF Put, RunCycle, UnitState
    <3>7. CASE RunAborts(u)
      BY <1>0, <3>1, <3>7 DEF Put, RunAborts, UnitState
    <3>8. CASE CallStep(u)
      BY <1>0, <3>1, <3>8 DEF Put, CallStep, UnitState
    <3>9. CASE CallReturns(u)
      BY <1>0, <3>1, <3>9 DEF Put, CallReturns, UnitState
    <3>10. CASE CallRaises(u)
      BY <1>0, <3>1, <3>10 DEF Put, CallRaises, UnitState
    <3>11. CASE ReadBatch(u)
      BY <1>0, <3>1, <3>11 DEF Put, ReadBatch, UnitState
    <3>12. CASE Commit(u)
      BY <1>0, <3>1, <3>12 DEF Put, Commit, UnitState
    <3> QED BY <1>2, <3>2, <3>3, <3>4, <3>5, <3>6, <3>7, <3>8, <3>9, <3>10, <3>11, <3>12
  <2> QED BY <1>1, <2>1, <2>2, <2>3
<1>3. ASSUME NEW u \in Units, StartProcess(u) \/ StartRun(u) \/ Persist(u) \/ \E k \in Tokens : Refresh(u, k)
      PROVE  TokenInv'
  BY <1>3, StartCurrent, PersistCurrent, RefreshCurrent
<1>4. CASE Reboot
  <2>1. \A u \in Units : unit'[u].at = "off"
    BY <1>4 DEF Reboot
  <2> QED BY <1>4, <2>1, TokensAlone DEF Reboot
<1>5. CASE NextDay
  <2>1. ASSUME NEW u \in Units
        PROVE  unit'[u].at = unit[u].at /\ unit'[u].copy = unit[u].copy /\ unit'[u].token = unit[u].token
    <3>1. unit'[u] = [unit[u] EXCEPT !.due = TRUE] /\ unit[u] \in UnitState
      BY <1>0, <1>5 DEF NextDay
    <3> QED BY <3>1 DEF UnitState
  <2> QED BY <1>5, <2>1, TokensAlone DEF NextDay
<1>6. CASE UNCHANGED batchVars
  BY <1>6 DEF batchVars, TokenInv
<1> QED BY <1>2, <1>3, <1>4, <1>5, <1>6 DEF BatchNext, BatchStep

-----------------------------------------------------------------------------
(* The machine: its units and its server. *)

LEMMA MachineInit == Init => BatchInit /\ PaceInit
BY DEF Init

LEMMA MachineStep == [Next]_vars => [BatchNext]_batchVars /\ [PaceNext]_paceVars
BY DEF Next, vars

LEMMA MachineInvariant == Spec => [](BatchInv /\ PaceInv)
<1>1. Init => BatchInv /\ PaceInv
  BY MachineInit, BatchInvInit, PaceInvInit
<1>2. BatchInv /\ PaceInv /\ [Next]_vars => (BatchInv /\ PaceInv)'
  BY MachineStep, BatchInductive, PaceInductive
<1> QED BY <1>1, <1>2, PTL DEF Spec

\* Slots, lives and requests, units, days and tokens keep their types.
THEOREM OperationsTypeCorrect == Spec => [](PaceTypeOK /\ BatchTypeOK)
<1>1. BatchInv /\ PaceInv => PaceTypeOK /\ BatchTypeOK
  BY DEF BatchInv, PaceInv
<1> QED BY <1>1, MachineInvariant, PTL

\* However many threads of a process ask at once, the slots they are given at
\* one host are an interval apart and no request leaves before its slot
\* (_pace_host).
THEOREM RequestsSpaced == Spec => []Spaced
<1>1. BatchInv /\ PaceInv => Spaced
  BY DEF PaceInv
<1> QED BY <1>1, MachineInvariant, PTL

\* A unit that ended well has folded all its masters since it began, from the
\* listings its cycles had brought above, and each of its cycles has jobs
\* generated from those masters; whatever failed in between, and whatever the
\* other units do.  Listings whose jobs failed are left out: their failure is no
\* failure of the unit (run_cycle.sh, run_command.sh).
THEOREM GreenIsFresh == Spec => []GreenMeansFresh
<1>1. BatchInv => GreenMeansFresh
  <2> SUFFICES ASSUME BatchInv, NEW u \in Units, green[u].day # 0, NEW i \in DOMAIN Lines[u],
                      Lines[u][i].procedure # "", NEW n \in DOMAIN Steps[Lines[u][i].procedure],
                      NEW m \in Awaited(u, i) \ green[u].missed
               PROVE  LET s == Steps[Lines[u][i].procedure][n] IN
                      /\ folded[s, m] >= green[u].day
                      /\ \A j \in DOMAIN Lines[u] :
                           (j > i /\ Lines[u][j].cycle # "" /\ Lines[u][j].mode # "run-only")
                             => built[Lines[u][j].cycle][s, m] >= green[u].day
    BY DEF GreenMeansFresh
  <2>1. Fresh(folded, built, u, Len(Lines[u]), green[u].day, green[u].missed)
    BY DEF BatchInv
  <2>2. \A j \in DOMAIN Lines[u] : j <= Len(Lines[u]) /\ j \in Nat
    BY LineFacts
  <2>3. AllFolded(folded, u, i, green[u].day, green[u].missed)
    BY <2>1, <2>2 DEF Fresh
  <2>4. ASSUME NEW j \in DOMAIN Lines[u], j > i
        PROVE  AllBuilt(built, u, i, j, green[u].day, green[u].missed)
    <3>1. i < j
      BY <2>2, <2>4
    <3> QED BY <2>1, <2>2, <3>1 DEF Fresh
  <2> QED BY <2>3, <2>4 DEF AllFolded, AllBuilt
<1> QED BY <1>1, MachineInvariant, PTL

\* While one unit alone refreshes tokens, no process works with a token older
\* than the one persisted last when it began (persist_env_var, auth_config).
THEOREM TokensStayCurrent == OneRefresher => (Spec => []TokenCurrent)
<1> SUFFICES ASSUME OneRefresher PROVE Spec => []TokenCurrent
  OBVIOUS
<1>1. Init => TokenInv
  BY MachineInit, TokenInvInit
<1>2. BatchInv /\ BatchInv' /\ TokenInv /\ [Next]_vars => TokenInv'
  BY MachineStep, TokenInductive
<1>3. BatchInv /\ TokenInv => TokenCurrent
  <2> SUFFICES ASSUME BatchInv, TokenInv, NEW u \in Units, NEW k \in Tokens
               PROVE  environ[u][k] >= since[u][k]
    BY DEF TokenCurrent
  <2>1. since[u][k] <= environ[u][k] /\ since[u][k] \in Nat /\ environ[u][k] \in Nat
    BY SecretsTyped DEF TokenInv
  <2> QED BY <2>1
<1>4. BatchInv /\ PaceInv => BatchInv
  OBVIOUS
<1> QED BY <1>1, <1>2, <1>3, <1>4, MachineInvariant, PTL DEF Spec
=============================================================================
