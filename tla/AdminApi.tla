------------------------------ MODULE AdminApi ------------------------------
(***************************************************************************)
(* The REST API over one of the configuration tables: the handlers of      *)
(* crud.py as requests that run side by side, each on a session of its     *)
(* own, and a caller who turns the pages of a list (paging.py) while rows  *)
(* are written.  A row has a key, the time of its last change, and fields; *)
(* the list may be narrowed by one of them.                                *)
(***************************************************************************)
EXTENDS Integers, Sequences, SequencesExt, FiniteSets

CONSTANTS
  Ids,        \* primary keys, ordered as numbers
  Initial,    \* those with a row at the start
  Fields, Values,
  Requests,   \* concurrent POST, PATCH and DELETE requests
  Filter,     \* field of the list's filter, or NoField
  Wanted,     \* its value
  NoField,
  Limit,      \* rows per page
  MaxClock,   \* bound: instants at which rows change
  MaxWrites   \* bound: requests that load a row

ASSUME AdminAssumption ==
  /\ Ids \subseteq Nat /\ Initial \subseteq Ids /\ IsFiniteSet(Initial) /\ Limit \in Nat \ {0}
  /\ NoField \notin Fields /\ Filter \in Fields \cup {NoField}

Field == [Fields -> Values]
Idle  == [op |-> "idle"]

VARIABLES
  clock,    \* the database's clock
  rows,     \* the table: key -> [at, field]; at is updated_at
  req,      \* what each request has loaded and is about to write
  \* ---- the caller with the list ----
  offset,   \* of the next page; -1 when no reading is under way
  seen,     \* the keys the pages so far had, in order
  total,    \* X-Total-Count of the last page
  counted,  \* its count has been read, its rows have not
  \* ---- history ----
  still,    \* rows of the list untouched since the reading began
  stirred,  \* whether any row of the table changed since
  left,     \* whether one has left the list
  written,  \* key -> what its row was created with and has been sent since
  loads     \* requests so far

history == <<still, stirred, left, written, loads>>
table   == <<clock, rows>>
reading == <<offset, seen, total, counted>>
adminVars == <<clock, rows, req, offset, seen, total, counted, still, stirred, left, written, loads>>

NoReading == -1

Matches(r) == Filter = NoField \/ r.field[Filter] = Wanted
Listed == {i \in DOMAIN rows : Matches(rows[i])}

AdminInit ==
  /\ clock = 0
  /\ \E f \in [Initial -> Field] :
       /\ rows = [i \in Initial |-> [at |-> 0, field |-> f[i]]]
       /\ written = f
  /\ req = [q \in Requests |-> Idle]
  /\ offset = NoReading /\ seen = <<>> /\ total = 0 /\ counted = FALSE
  /\ still = {} /\ stirred = FALSE /\ left = FALSE
  /\ loads = 0

-----------------------------------------------------------------------------
(* What a write to row i does to the reading (history). *)

Touch(i) ==
  LET lost == i \in Listed /\ ~(i \in DOMAIN rows' /\ Matches(rows'[i])) IN
  /\ still' = still \ {i}
  /\ stirred' = TRUE
  /\ left' = (left \/ lost)

\* Rows written in one transaction, or close together, share an instant.
Instant == /\ clock' \in {clock, clock + 1} /\ clock' <= MaxClock

-----------------------------------------------------------------------------
(* create, update, delete.  session.get finds no row, or the row whose key  *)
(* the request names; a 404, 409 or 400 ends the request there.             *)

Load(q, op, i, f) ==
  /\ req[q] = Idle /\ loads < MaxWrites
  /\ IF op = "create" THEN i \notin DOMAIN rows ELSE i \in DOMAIN rows
  /\ req' = [req EXCEPT ![q] = [op |-> op, id |-> i, field |-> f,
               loaded |-> IF op = "create" THEN f ELSE rows[i].field]]
  /\ loads' = loads + 1
  /\ UNCHANGED <<table, reading, still, stirred, left, written>>

Answer(q) == req' = [req EXCEPT ![q] = Idle]

\* The primary key refuses a second row: the other request gets a 500.
Create(q) ==
  LET r == req[q] IN
  /\ r.op = "create" /\ Answer(q)
  /\ \/ /\ r.id \notin DOMAIN rows
        /\ Instant
        /\ rows' = [i \in DOMAIN rows \cup {r.id} |->
                     IF i = r.id THEN [at |-> clock', field |-> r.field] ELSE rows[i]]
        /\ written' = [i \in DOMAIN written \cup {r.id} |->
                        IF i = r.id THEN r.field ELSE written[i]]
        /\ Touch(r.id)
     \/ /\ r.id \in DOMAIN rows
        /\ UNCHANGED <<table, still, stirred, left, written>>
  /\ UNCHANGED <<reading, loads>>

\* Faulty variant: the row goes back as it was loaded.
SetColumnsAsLoaded(r, row) == [f \in Fields |-> IF f \in DOMAIN r.field THEN r.field[f] ELSE r.loaded[f]]

\* The UPDATE names the columns whose value the body has changed.
SetColumns(r, row) ==
  [f \in Fields |-> IF f \in DOMAIN r.field /\ r.field[f] # r.loaded[f] THEN r.field[f] ELSE row[f]]

\* A row deleted meanwhile: the UPDATE finds none and the request gets a 500.  A
\* body that changes nothing writes nothing.
Update(q) ==
  LET r == req[q]
      dirty == {f \in DOMAIN r.field : r.field[f] # r.loaded[f]} IN
  /\ r.op = "update" /\ Answer(q)
  /\ \/ /\ r.id \in DOMAIN rows /\ dirty # {}
        /\ Instant
        /\ rows' = [rows EXCEPT ![r.id] = [at |-> clock', field |-> SetColumns(r, @.field)]]
        /\ written' = [written EXCEPT ![r.id] =
                        [f \in Fields |-> IF f \in dirty THEN r.field[f] ELSE @[f]]]
        /\ Touch(r.id)
     \/ /\ r.id \notin DOMAIN rows \/ dirty = {}
        /\ UNCHANGED <<table, still, stirred, left, written>>
  /\ UNCHANGED <<reading, loads>>

\* A row deleted by another request meanwhile is no error here.
Delete(q) ==
  LET r == req[q]
      Without(f) == [i \in DOMAIN f \ {r.id} |-> f[i]] IN
  /\ r.op = "delete" /\ Answer(q)
  /\ rows' = Without(rows) /\ written' = Without(written)
  /\ clock' = clock
  /\ IF r.id \in DOMAIN rows THEN Touch(r.id) ELSE UNCHANGED <<still, stirred, left>>
  /\ UNCHANGED <<reading, loads>>

-----------------------------------------------------------------------------
(* list_page, list_children, list_rows: apply_filters and page. *)

\* Faulty variant: rows that changed at the same instant come in any order.
BeforeByTime(i, j) == rows[i].at > rows[j].at

\* updated_at descending, the primary key for those of one instant.
Before(i, j) == rows[i].at > rows[j].at \/ (rows[i].at = rows[j].at /\ i < j)

\* What the database may return: any arrangement the ORDER BY allows.
Arranged(s) == \A m, k \in DOMAIN s : Before(s[m], s[k]) => m < k

OpenList ==
  /\ offset = NoReading
  /\ offset' = 0 /\ UNCHANGED <<seen, total, counted>>
  /\ still' = Listed /\ stirred' = FALSE /\ left' = FALSE
  /\ UNCHANGED <<table, req, written, loads>>

\* The page was short.
LastPage == Len(seen) < offset

\* The count is a statement of its own, before the page's.
Count ==
  /\ offset # NoReading /\ ~LastPage /\ ~counted
  /\ total' = Cardinality(Listed) /\ counted' = TRUE
  /\ UNCHANGED <<table, req, offset, seen, history>>

\* The caller reads on until a page is short.
Page ==
  /\ counted
  /\ \E s \in SetToSeqs(Listed) :
       /\ Arranged(s)
       /\ seen' = seen \o SubSeq(s, offset + 1, Min({offset + Limit, Len(s)}))
  /\ offset' = offset + Limit /\ counted' = FALSE
  /\ UNCHANGED <<table, req, total, history>>

CloseList ==
  /\ offset # NoReading /\ LastPage
  /\ offset' = NoReading /\ seen' = <<>> /\ total' = 0 /\ UNCHANGED counted
  /\ still' = {} /\ stirred' = FALSE /\ left' = FALSE
  /\ UNCHANGED <<table, req, written, loads>>

AdminNext ==
  \/ \E q \in Requests :
       \/ \E i \in Ids :
            \/ \E f \in Field : Load(q, "create", i, f)
            \/ \E s \in SUBSET Fields \ {{}} : \E f \in [s -> Values] : Load(q, "update", i, f)
            \/ Load(q, "delete", i, <<>>)
       \/ Create(q) \/ Update(q) \/ Delete(q)
  \/ OpenList \/ Count \/ Page \/ CloseList

AdminSpec == AdminInit /\ [][AdminNext]_adminVars

-----------------------------------------------------------------------------
(* What the API promises. *)

\* Turning the pages while nothing changes gives every row of the list exactly
\* once, as many as X-Total-Count says, although whole batches share an instant;
\* and while rows are created, changed and moved, a row nobody has touched is
\* still on one of the pages, unless a row has left the list (paging.py:77-95,
\* crud.py:77-129, 201-218).
PagesCoverTheList ==
  LastPage =>
    /\ left \/ still \subseteq ToSet(seen)
    /\ stirred \/ (IsInjective(seen) /\ ToSet(seen) = Listed /\ total = Len(seen))

\* A field holds what the last request that changed it sent: requests, and the
\* engine, that change other fields of the row at the same time take nothing
\* back (crud.py:150-165).
FieldsSurvive ==
  /\ DOMAIN rows = DOMAIN written
  /\ \A i \in DOMAIN rows : rows[i].field = written[i]
=============================================================================
