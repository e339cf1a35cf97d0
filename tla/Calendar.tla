------------------------------ MODULE Calendar ------------------------------
(***************************************************************************)
(* The date arithmetic of job_builder.py: the keywords a builder's         *)
(* parameters may name, resolved on the day of the generation in Korean    *)
(* time, and the floor of an execution's time to its cycle's slot.         *)
(***************************************************************************)
EXTENDS Integers

(* datetime.date: a day as year, month and day. *)

Leap(y) == y % 4 = 0 /\ (y % 100 # 0 \/ y % 400 = 0)

MonthRange(y, m) ==
  IF m = 2 THEN IF Leap(y) THEN 29 ELSE 28
  ELSE IF m \in {4, 6, 9, 11} THEN 30 ELSE 31

On(y, m, d) == [y |-> y, m |-> m, d |-> d]

IsDate(t) == t \in [y : Int, m : 1..12, d : Int] /\ t.d \in 1..MonthRange(t.y, t.m)

Tomorrow(t) ==
  IF t.d < MonthRange(t.y, t.m) THEN [t EXCEPT !.d = @ + 1]
  ELSE IF t.m < 12 THEN On(t.y, t.m + 1, 1) ELSE On(t.y + 1, 1, 1)

\* Days since 1970-01-01, a Thursday.
Ordinal(t) ==
  LET y == t.y - (IF t.m <= 2 THEN 1 ELSE 0)
      m == (t.m + 9) % 12 IN
  365 * y + (y \div 4) - (y \div 100) + (y \div 400) + ((153 * m + 2) \div 5) + t.d - 719469

\* Monday is 0.
Weekday(t) == (Ordinal(t) + 3) % 7

-----------------------------------------------------------------------------
(* The keywords. *)

\* Faulty variant: December is looked for in the same year.
AddMonthsInYear(t, k) ==
  LET i == t.m - 1 + k
      m == (i % 12) + 1 IN
  On(t.y, m, IF t.d < MonthRange(t.y, m) THEN t.d ELSE MonthRange(t.y, m))

AddMonths(t, k) ==
  LET i == t.m - 1 + k
      y == t.y + (i \div 12)
      m == (i % 12) + 1 IN
  On(y, m, IF t.d < MonthRange(y, m) THEN t.d ELSE MonthRange(y, m))

Yesterday(t) ==
  IF t.d > 1 THEN [t EXCEPT !.d = @ - 1]
  ELSE LET p == AddMonths(t, -1) IN [p EXCEPT !.d = MonthRange(p.y, p.m)]

LastEom(t) == Yesterday([t EXCEPT !.d = 1])

\* Saturday and Sunday only: the holidays are not known.
LastBday(t) ==
  LET one == Yesterday(t)
      two == Yesterday(one) IN
  IF Weekday(one) < 5 THEN one
  ELSE IF Weekday(two) < 5 THEN two ELSE Yesterday(two)

Keywords == {"today", "yesterday", "last_month", "last_eom", "last_yymm", "last_bday"}

\* The default format of last_yymm has no day: it stands as day 0.
ResolveDate(word, t) ==
  CASE word = "today"      -> t
    [] word = "yesterday"  -> Yesterday(t)
    [] word = "last_month" -> AddMonths(t, -1)
    [] word = "last_eom"   -> LastEom(t)
    [] word = "last_yymm"  -> [AddMonths(t, -1) EXCEPT !.d = 0]
    [] word = "last_bday"  -> LastBday(t)

-----------------------------------------------------------------------------
(* Time to its slot.  A moment is the day's ordinal and the minute of the   *)
(* day; a cycle is its number, its unit and its shard.  A cycle of another  *)
(* form ("daily_batch1") has unit "-" and leaves the time as it is.         *)

Cycle(n, unit, shard) == [n |-> n, unit |-> unit, shard |-> shard]

Moment(day, minute) == [day |-> day, minute |-> minute]

\* 1970-01-05, the first Monday.
FirstMonday == 4

\* Faulty variant: a cycle with a shard has no slots.
SlottedUnsharded(c) == c.unit \in {"m", "h", "d", "w"} /\ c.shard = "-"

\* _CYCLE_RE: the shard is left out of account.
Slotted(c) == c.unit \in {"m", "h", "d", "w"}

Floor(t, c) ==
  LET hour == t.minute \div 60
      week == (t.day - FirstMonday) \div 7 IN
  IF ~Slotted(c) THEN t ELSE
  CASE c.unit = "m" -> [t EXCEPT !.minute = @ - ((@ % 60) % c.n)]
    [] c.unit = "h" -> [t EXCEPT !.minute = (hour - (hour % c.n)) * 60]
    [] c.unit = "d" -> Moment(t.day - (t.day % c.n), 0)
    [] c.unit = "w" -> Moment(FirstMonday + 7 * (week - (week % c.n)), 0)
=============================================================================
