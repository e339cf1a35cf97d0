-------------------------- MODULE GenerationProofs --------------------------
(***************************************************************************)
(* The keywords and the slots over any walk of days, the jobs of any       *)
(* builders, and the rows of any tables.                                   *)
(***************************************************************************)
EXTENDS Generation, SequenceTheorems, WellFoundedInduction, TLAPS

(* Division by any number of units. *)

LEMMA ProductGrows ==
  ASSUME NEW k \in Nat \ {0}, NEW a \in Int, NEW b \in Int, a < b
  PROVE  k * a + k <= k * b
<1>1. k * (b - a - 1) >= 0
  BY SMTT(20)
<1>2. k * (b - a - 1) = k * b - k * a - k
  BY SMTT(20)
<1>3. k * a \in Int /\ k * b \in Int
  OBVIOUS
<1> QED BY <1>1, <1>2, <1>3

LEMMA Remainder ==
  ASSUME NEW k \in Int, k > 0, NEW x \in Int
  PROVE  x = k * (x \div k) + (x % k)
BY SMTT(20)

LEMMA Division ==
  ASSUME NEW k \in Nat \ {0}, NEW x \in Int
  PROVE  /\ x \div k \in Int /\ x % k \in 0..(k - 1)
         /\ x = k * (x \div k) + (x % k)
<1>1. x \div k \in Int
  BY SMTT(20)
<1>2. x % k \in Int /\ 0 <= x % k
  BY SMTT(20)
<1>3. x % k < k
  BY SMTT(20)
<1>4. x = k * (x \div k) + (x % k)
  BY Remainder
<1>5. x % k \in 0..(k - 1)
  BY <1>2, <1>3
<1> QED BY <1>1, <1>4, <1>5

LEMMA DivisionUnique ==
  ASSUME NEW k \in Nat \ {0}, NEW x \in Int,
         NEW q \in Int, NEW r \in 0..(k - 1), x = k * q + r
  PROVE  x \div k = q /\ x % k = r
<1> DEFINE a == x \div k
           s == x % k
<1>1. a \in Int /\ s \in 0..(k - 1) /\ x = k * a + s
  BY Division
<1> HIDE DEF a, s
<1>2. k * a \in Int /\ k * q \in Int
  BY <1>1
<1>3. ~(a < q)
  BY <1>1, <1>2, ProductGrows
<1>4. ~(q < a)
  BY <1>1, <1>2, ProductGrows
<1>5. a = q
  BY <1>1, <1>3, <1>4
<1>6. s = r
  BY <1>1, <1>2, <1>5
<1> QED BY <1>5, <1>6 DEF a, s

LEMMA ModuloOfNext ==
  ASSUME NEW x \in Int, NEW k \in Nat \ {0}
  PROVE  /\ x % k \in 0..(k - 1)
         /\ (x + 1) % k = IF (x % k) + 1 = k THEN 0 ELSE (x % k) + 1
<1> DEFINE q == x \div k
           r == x % k
<1>1. q \in Int /\ r \in 0..(k - 1) /\ x = k * q + r
  BY Division
<1> HIDE DEF q, r
<1>2. k * q \in Int
  BY <1>1
<1>3. CASE r + 1 = k
  <2>1. k * (q + 1) = k * q + k
    BY <1>1, SMTT(20)
  <2>2. x + 1 = k * (q + 1) + 0
    BY <1>1, <1>2, <1>3, <2>1
  <2>3. (x + 1) % k = 0
    BY <1>1, <2>2, DivisionUnique, 0 \in 0..(k - 1), q + 1 \in Int, x + 1 \in Int
  <2> QED BY <1>1, <1>3, <2>3 DEF r
<1>4. CASE r + 1 # k
  <2>1. x + 1 = k * q + (r + 1) /\ r + 1 \in 0..(k - 1)
    BY <1>1, <1>2, <1>4
  <2>2. (x + 1) % k = r + 1
    BY <1>1, <2>1, DivisionUnique, x + 1 \in Int
  <2> QED BY <1>1, <1>4, <2>2 DEF r
<1> QED BY <1>3, <1>4
-----------------------------------------------------------------------------
(* The calendar: days by year, month and day. *)

LEMMA MonthLength ==
  ASSUME NEW y \in Int, NEW m \in 1..12
  PROVE  MonthRange(y, m) \in 28..31
BY DEF MonthRange

LEMMA DateOn ==
  /\ \A t : IsDate(t) => \E y \in Int, m \in 1..12, d \in Int :
                           t = On(y, m, d) /\ 1 <= d /\ d <= MonthRange(y, m)
  /\ \A y \in Int, m \in 1..12, d \in Int :
       1 <= d /\ d <= MonthRange(y, m) => IsDate(On(y, m, d))
<1>1. ASSUME NEW t, IsDate(t)
      PROVE  t = On(t.y, t.m, t.d) /\ t.y \in Int /\ t.m \in 1..12 /\ t.d \in Int
             /\ 1 <= t.d /\ t.d <= MonthRange(t.y, t.m)
  BY <1>1 DEF IsDate, On
<1>2. ASSUME NEW y \in Int, NEW m \in 1..12, NEW d \in Int, 1 <= d, d <= MonthRange(y, m)
      PROVE  IsDate(On(y, m, d))
  BY <1>2, MonthLength DEF IsDate, On
<1> QED BY <1>1, <1>2

LEMMA FieldsOfOn ==
  ASSUME NEW y, NEW m, NEW d
  PROVE  /\ On(y, m, d).y = y /\ On(y, m, d).m = m /\ On(y, m, d).d = d
         /\ \A e : [On(y, m, d) EXCEPT !.d = e] = On(y, m, e)
BY DEF On

YearBefore(y, m) == IF m = 1 THEN y - 1 ELSE y
MonthBefore(m) == IF m = 1 THEN 12 ELSE m - 1
LengthBefore(y, m) == MonthRange(YearBefore(y, m), MonthBefore(m))

LEMMA BeforeType ==
  ASSUME NEW y \in Int, NEW m \in 1..12
  PROVE  YearBefore(y, m) \in Int /\ MonthBefore(m) \in 1..12 /\ LengthBefore(y, m) \in 28..31
BY MonthLength DEF YearBefore, MonthBefore, LengthBefore

LEMMA MonthGoneBy ==
  ASSUME NEW y \in Int, NEW m \in 1..12, NEW d \in Int
  PROVE  AddMonths(On(y, m, d), -1) =
           On(YearBefore(y, m), MonthBefore(m),
              IF d < LengthBefore(y, m) THEN d ELSE LengthBefore(y, m))
<1>1. (m - 1 + -1) \div 12 = IF m = 1 THEN -1 ELSE 0
  OBVIOUS
<1>2. ((m - 1 + -1) % 12) + 1 = IF m = 1 THEN 12 ELSE m - 1
  OBVIOUS
<1>3. y + ((m - 1 + -1) \div 12) = YearBefore(y, m)
  BY <1>1 DEF YearBefore
<1>4. ((m - 1 + -1) % 12) + 1 = MonthBefore(m)
  BY <1>2 DEF MonthBefore
<1> QED BY <1>3, <1>4, FieldsOfOn DEF AddMonths, LengthBefore

LEMMA TomorrowOn ==
  ASSUME NEW y \in Int, NEW m \in 1..12, NEW d \in Int, d <= MonthRange(y, m)
  PROVE  Tomorrow(On(y, m, d)) =
           IF d < MonthRange(y, m) THEN On(y, m, d + 1)
           ELSE IF m < 12 THEN On(y, m + 1, 1) ELSE On(y + 1, 1, 1)
BY FieldsOfOn DEF Tomorrow

LEMMA YesterdayOn ==
  ASSUME NEW y \in Int, NEW m \in 1..12, NEW d \in Int, 1 <= d
  PROVE  Yesterday(On(y, m, d)) =
           IF d > 1 THEN On(y, m, d - 1)
           ELSE On(YearBefore(y, m), MonthBefore(m), LengthBefore(y, m))
<1>1. CASE d > 1
  BY <1>1, FieldsOfOn DEF Yesterday
<1>2. CASE d = 1
  <2> DEFINE p == AddMonths(On(y, m, 1), -1)
  <2>1. Yesterday(On(y, m, 1)) = [p EXCEPT !.d = MonthRange(p.y, p.m)]
    BY FieldsOfOn DEF Yesterday
  <2>2. PICK e : p = On(YearBefore(y, m), MonthBefore(m), e)
    BY MonthGoneBy
  <2> HIDE DEF p
  <2> QED BY <1>2, <2>1, <2>2, FieldsOfOn DEF LengthBefore
<1> QED BY <1>1, <1>2

LEMMA TomorrowIsDate ==
  ASSUME NEW t, IsDate(t)
  PROVE  IsDate(Tomorrow(t))
<1>1. PICK y \in Int, m \in 1..12, d \in Int :
        t = On(y, m, d) /\ 1 <= d /\ d <= MonthRange(y, m)
  BY DateOn
<1>2. MonthRange(y, m) \in 28..31
  BY MonthLength
<1>3. CASE d < MonthRange(y, m)
  <2>1. Tomorrow(t) = On(y, m, d + 1) /\ d + 1 \in Int /\ 1 <= d + 1 /\ d + 1 <= MonthRange(y, m)
    BY <1>1, <1>2, <1>3, TomorrowOn
  <2> QED BY <2>1, DateOn
<1>4. CASE d = MonthRange(y, m) /\ m < 12
  <2>1. Tomorrow(t) = On(y, m + 1, 1) /\ m + 1 \in 1..12
    BY <1>1, <1>4, TomorrowOn
  <2>2. 1 <= MonthRange(y, m + 1)
    BY <2>1, MonthLength
  <2> QED BY <2>1, <2>2, DateOn
<1>5. CASE d = MonthRange(y, m) /\ m = 12
  <2>1. Tomorrow(t) = On(y + 1, 1, 1) /\ y + 1 \in Int /\ 1 \in 1..12
    BY <1>1, <1>5, TomorrowOn
  <2>2. 1 <= MonthRange(y + 1, 1)
    BY <2>1, MonthLength
  <2> QED BY <2>1, <2>2, DateOn
<1> QED BY <1>1, <1>2, <1>3, <1>4, <1>5

LEMMA YesterdayOfTomorrow ==
  ASSUME NEW t, IsDate(t)
  PROVE  Yesterday(Tomorrow(t)) = t
<1>1. PICK y \in Int, m \in 1..12, d \in Int :
        t = On(y, m, d) /\ 1 <= d /\ d <= MonthRange(y, m)
  BY DateOn
<1>2. MonthRange(y, m) \in 28..31
  BY MonthLength
<1>3. CASE d < MonthRange(y, m)
  <2> DEFINE e == d + 1
  <2>1. Tomorrow(t) = On(y, m, e) /\ e \in Int /\ e > 1 /\ e - 1 = d
    BY <1>1, <1>2, <1>3, TomorrowOn
  <2> HIDE DEF e
  <2>2. Yesterday(On(y, m, e)) = On(y, m, e - 1)
    BY <2>1, YesterdayOn
  <2> QED BY <1>1, <2>1, <2>2
<1>4. CASE d = MonthRange(y, m) /\ m < 12
  <2>1. Tomorrow(t) = On(y, m + 1, 1)
    BY <1>1, <1>4, TomorrowOn
  <2>2. m + 1 \in 1..12 /\ YearBefore(y, m + 1) = y /\ MonthBefore(m + 1) = m
    BY <1>4 DEF YearBefore, MonthBefore
  <2> QED BY <1>1, <1>4, <2>1, <2>2, YesterdayOn DEF LengthBefore
<1>5. CASE d = MonthRange(y, m) /\ m = 12
  <2>1. Tomorrow(t) = On(y + 1, 1, 1)
    BY <1>1, <1>5, TomorrowOn
  <2>2. y + 1 \in Int /\ YearBefore(y + 1, 1) = y /\ MonthBefore(1) = m
    BY <1>5 DEF YearBefore, MonthBefore
  <2> QED BY <1>1, <1>5, <2>1, <2>2, YesterdayOn DEF LengthBefore
<1> QED BY <1>1, <1>2, <1>3, <1>4, <1>5

LEMMA TomorrowOfYesterday ==
  ASSUME NEW t, IsDate(t)
  PROVE  IsDate(Yesterday(t)) /\ Tomorrow(Yesterday(t)) = t
<1>1. PICK y \in Int, m \in 1..12, d \in Int :
        t = On(y, m, d) /\ 1 <= d /\ d <= MonthRange(y, m)
  BY DateOn
<1>2. MonthRange(y, m) \in 28..31
  BY MonthLength
<1>3. CASE d > 1
  <2>1. Yesterday(t) = On(y, m, d - 1) /\ d - 1 \in Int /\ 1 <= d - 1 /\ d - 1 < MonthRange(y, m)
    BY <1>1, <1>2, <1>3, YesterdayOn
  <2>2. Tomorrow(On(y, m, d - 1)) = On(y, m, d - 1 + 1)
    BY <1>2, <2>1, TomorrowOn
  <2>3. IsDate(On(y, m, d - 1))
    BY <1>2, <2>1, DateOn
  <2> QED BY <1>1, <2>1, <2>2, <2>3
<1>4. CASE d = 1
  <2> DEFINE yy == YearBefore(y, m)
             mm == MonthBefore(m)
             ll == LengthBefore(y, m)
  <2>1. Yesterday(t) = On(yy, mm, ll)
    BY <1>1, <1>4, YesterdayOn
  <2>2. yy \in Int /\ mm \in 1..12 /\ ll \in 28..31 /\ ll = MonthRange(yy, mm)
    BY BeforeType DEF LengthBefore
  <2>3. (mm < 12 /\ yy = y /\ mm + 1 = m) \/ (mm = 12 /\ yy + 1 = y /\ m = 1)
    BY DEF YearBefore, MonthBefore
  <2> HIDE DEF yy, mm, ll
  <2>4. ll \in Int /\ 1 <= ll /\ ll <= MonthRange(yy, mm) /\ ~(ll < MonthRange(yy, mm))
    BY <2>2
  <2>5. Tomorrow(On(yy, mm, ll)) = On(y, m, 1)
    BY <2>2, <2>3, <2>4, TomorrowOn
  <2>6. IsDate(On(yy, mm, ll))
    BY <2>2, <2>4, DateOn
  <2> QED BY <1>1, <1>4, <2>1, <2>5, <2>6
<1> QED BY <1>1, <1>3, <1>4

YearDays(y) == 365 * y + (y \div 4) - (y \div 100) + (y \div 400)
MonthDays(m) == (153 * ((m + 9) % 12) + 2) \div 5
DayCount(y, m, d) == YearDays(IF m <= 2 THEN y - 1 ELSE y) + MonthDays(m) + d - 719469

LEMMA DaysAreInt ==
  /\ \A y \in Int : YearDays(y) \in Int
  /\ \A m \in 1..12 : MonthDays(m) \in Int
BY DEF YearDays, MonthDays

LEMMA OrdinalOn ==
  ASSUME NEW y \in Int, NEW m \in 1..12, NEW d \in Int
  PROVE  Ordinal(On(y, m, d)) = DayCount(y, m, d) /\ DayCount(y, m, d) \in Int
<1>1. Ordinal(On(y, m, d)) = DayCount(y, m, d)
  BY DEF Ordinal, On, DayCount, YearDays, MonthDays
<1> QED BY <1>1, DaysAreInt DEF DayCount

LEMMA LeapYear ==
  ASSUME NEW y \in Int
  PROVE  YearDays(y) = YearDays(y - 1) + IF Leap(y) THEN 366 ELSE 365
BY DEF YearDays, Leap

LEMMA OrdinalOfTomorrow ==
  ASSUME NEW t, IsDate(t)
  PROVE  Ordinal(t) \in Int /\ Ordinal(Tomorrow(t)) = Ordinal(t) + 1
<1>1. PICK y \in Int, m \in 1..12, d \in Int :
        t = On(y, m, d) /\ 1 <= d /\ d <= MonthRange(y, m)
  BY DateOn
<1>2. MonthRange(y, m) \in 28..31
  BY MonthLength
<1>3. Ordinal(t) = DayCount(y, m, d) /\ Ordinal(t) \in Int
  BY <1>1, OrdinalOn
<1>4. CASE d < MonthRange(y, m)
  <2>1. Ordinal(Tomorrow(t)) = DayCount(y, m, d + 1)
    <3>1. Tomorrow(t) = On(y, m, d + 1) /\ d + 1 \in Int
      BY <1>1, <1>4, TomorrowOn
    <3> QED BY <3>1, OrdinalOn
  <2> QED BY <1>3, <2>1, DaysAreInt DEF DayCount
<1>5. CASE d = MonthRange(y, m) /\ m = 12
  <2>1. d = 31
    BY <1>5 DEF MonthRange
  <2>2. Ordinal(Tomorrow(t)) = DayCount(y + 1, 1, 1)
    <3>1. Tomorrow(t) = On(y + 1, 1, 1) /\ y + 1 \in Int /\ 1 \in 1..12 /\ 1 \in Int
      BY <1>1, <1>5, TomorrowOn
    <3> QED BY <1>1, <3>1, OrdinalOn
  <2>3. MonthDays(1) = 306 /\ MonthDays(12) = 275
    BY DEF MonthDays
  <2>4. YearDays(y + 1 - 1) = YearDays(y)
    BY y + 1 - 1 = y
  <2> QED BY <1>3, <1>5, <2>1, <2>2, <2>3, <2>4, DaysAreInt DEF DayCount
<1>6. CASE d = MonthRange(y, m) /\ m = 2
  <2>1. d = IF Leap(y) THEN 29 ELSE 28
    BY <1>6 DEF MonthRange
  <2>2. Ordinal(Tomorrow(t)) = DayCount(y, 3, 1)
    <3>1. Tomorrow(t) = On(y, 3, 1) /\ 3 \in 1..12 /\ 1 \in Int
      BY <1>1, <1>6, TomorrowOn
    <3> QED BY <1>1, <3>1, OrdinalOn
  <2>3. MonthDays(2) = 337 /\ MonthDays(3) = 0
    BY DEF MonthDays
  <2> QED BY <1>3, <1>6, <2>1, <2>2, <2>3, DaysAreInt, LeapYear DEF DayCount
<1>7. CASE d = MonthRange(y, m) /\ m \notin {2, 12}
  <2>1. d = IF m \in {4, 6, 9, 11} THEN 30 ELSE 31
    BY <1>7 DEF MonthRange
  <2>2. Ordinal(Tomorrow(t)) = DayCount(y, m + 1, 1)
    <3>1. Tomorrow(t) = On(y, m + 1, 1) /\ m + 1 \in 1..12 /\ 1 \in Int
      BY <1>1, <1>7, TomorrowOn
    <3> QED BY <1>1, <3>1, OrdinalOn
  <2>3. MonthDays(m + 1) = MonthDays(m) + d
    BY <1>7, <2>1 DEF MonthDays
  <2>4. m + 1 \in 1..12 /\ (m <= 2 <=> m + 1 <= 2)
    BY <1>7
  <2>5. MonthDays(m) \in Int /\ MonthDays(m + 1) \in Int /\ YearDays(y) \in Int /\ YearDays(y - 1) \in Int
    BY <2>4, DaysAreInt
  <2> QED BY <1>3, <2>2, <2>3, <2>4, <2>5 DEF DayCount
<1>8. m \in 1..12 /\ (d < MonthRange(y, m) \/ d = MonthRange(y, m))
  BY <1>1, <1>2
<1> QED BY <1>3, <1>8, <1>4, <1>5, <1>6, <1>7

LEMMA WeekdayOfTomorrow ==
  ASSUME NEW t, IsDate(t)
  PROVE  Weekday(t) \in 0..6 /\ Weekday(Tomorrow(t)) = (Weekday(t) + 1) % 7
BY OrdinalOfTomorrow DEF Weekday

LEMMA LastBdayOfTomorrow ==
  ASSUME NEW t, IsDate(t)
  PROVE  LastBday(Tomorrow(t)) = IF Weekday(t) < 5 THEN t ELSE LastBday(t)
<1> DEFINE two == Yesterday(t)
           three == Yesterday(two)
<1>1. IsDate(two) /\ IsDate(three) /\ Tomorrow(two) = t /\ Tomorrow(three) = two
  BY TomorrowOfYesterday
<1> HIDE DEF two, three
<1>2. /\ Weekday(t) \in 0..6 /\ Weekday(two) \in 0..6 /\ Weekday(three) \in 0..6
      /\ Weekday(t) = (Weekday(two) + 1) % 7 /\ Weekday(two) = (Weekday(three) + 1) % 7
  BY <1>1, WeekdayOfTomorrow
<1>3. Yesterday(Tomorrow(t)) = t
  BY YesterdayOfTomorrow
<1>4. LastBday(Tomorrow(t)) = IF Weekday(t) < 5 THEN t
                              ELSE IF Weekday(two) < 5 THEN two ELSE three
  BY <1>3 DEF LastBday, two, three
<1>5. LastBday(t) = IF Weekday(two) < 5 THEN two
                    ELSE IF Weekday(three) < 5 THEN three ELSE Yesterday(three)
  BY DEF LastBday, two, three
<1>6. Weekday(t) >= 5 /\ Weekday(two) >= 5 => Weekday(three) < 5
  BY <1>2
<1> QED BY <1>2, <1>4, <1>5, <1>6

LEMMA LastEomOn ==
  ASSUME NEW y \in Int, NEW m \in 1..12, NEW d
  PROVE  LastEom(On(y, m, d)) = On(YearBefore(y, m), MonthBefore(m), LengthBefore(y, m))
<1>1. LastEom(On(y, m, d)) = Yesterday(On(y, m, 1))
  BY FieldsOfOn DEF LastEom
<1> QED BY <1>1, YesterdayOn

LEMMA LastEomOfTomorrow ==
  ASSUME NEW t, IsDate(t)
  PROVE  LastEom(Tomorrow(t)) = IF Tomorrow(t).d = 1 THEN t ELSE LastEom(t)
<1>1. PICK y \in Int, m \in 1..12, d \in Int :
        t = On(y, m, d) /\ 1 <= d /\ d <= MonthRange(y, m)
  BY DateOn
<1>2. CASE Tomorrow(t).d = 1
  <2>1. PICK yy \in Int, mm \in 1..12 : Tomorrow(t) = On(yy, mm, 1)
    <3>1. PICK yy \in Int, mm \in 1..12, dd \in Int : Tomorrow(t) = On(yy, mm, dd)
      BY TomorrowIsDate, DateOn
    <3> QED BY <1>2, <3>1, FieldsOfOn
  <2>2. LastEom(Tomorrow(t)) = Yesterday(Tomorrow(t))
    BY <2>1, FieldsOfOn DEF LastEom
  <2> QED BY <1>2, <2>2, YesterdayOfTomorrow
<1>3. CASE Tomorrow(t).d # 1
  <2>1. Tomorrow(t) = On(y, m, d + 1)
    BY <1>1, <1>3, TomorrowOn, FieldsOfOn
  <2> QED BY <1>1, <1>3, <2>1, LastEomOn
<1> QED BY <1>2, <1>3

LEMMA LastMonthIsClipped ==
  ASSUME NEW t, IsDate(t)
  PROVE  AddMonths(t, -1) = [LastEom(t) EXCEPT !.d = IF @ < t.d THEN @ ELSE t.d]
<1>1. PICK y \in Int, m \in 1..12, d \in Int :
        t = On(y, m, d) /\ 1 <= d /\ d <= MonthRange(y, m)
  BY DateOn
<1> DEFINE yy == YearBefore(y, m)
           mm == MonthBefore(m)
           ll == LengthBefore(y, m)
<1>2. LastEom(t) = On(yy, mm, ll)
  BY <1>1, LastEomOn
<1>3. AddMonths(t, -1) = On(yy, mm, IF d < ll THEN d ELSE ll)
  BY <1>1, MonthGoneBy
<1>4. ll \in 28..31
  BY BeforeType
<1> HIDE DEF yy, mm, ll
<1>5. (IF d < ll THEN d ELSE ll) = IF ll < d THEN ll ELSE d
  BY <1>4
<1> QED BY <1>1, <1>2, <1>3, <1>5, FieldsOfOn

-----------------------------------------------------------------------------
(* The walk over the days. *)

\* The day the walk has come to, and what lies behind it, by the calendar.
DateInv ==
  /\ IsDate(date)
  /\ weekday = Weekday(date)
  /\ past = [day |-> Yesterday(date), bday |-> LastBday(date), eom |-> LastEom(date)]

\* Counted from the first day: n days and the minutes of the last one.
ClockInv ==
  /\ n \in Nat /\ minute \in Nat
  /\ Ordinal(date) = Ordinal(FirstDay) + n

LEMMA DateInit == Init => DateInv /\ ClockInv
<1> SUFFICES ASSUME Init PROVE DateInv /\ ClockInv
  OBVIOUS
<1>1. Ordinal(FirstDay) \in Int
  BY FirstDayAssumption, OrdinalOfTomorrow
<1> QED BY <1>1, FirstDayAssumption DEF Init, DateInv, ClockInv

LEMMA DateNext == DateInv /\ ClockInv /\ [Next]_vars => DateInv' /\ ClockInv'
<1> SUFFICES ASSUME DateInv, ClockInv, [Next]_vars PROVE DateInv' /\ ClockInv'
  OBVIOUS
<1>1. CASE NextDay
  <2>1. date' = Tomorrow(date) /\ minute' = 0 /\ n' = n + 1 /\ weekday' = (weekday + 1) % 7
    BY <1>1 DEF NextDay
  <2>2. past' = [day  |-> date,
                 bday |-> IF weekday < 5 THEN date ELSE past.bday,
                 eom  |-> IF date'.d = 1 THEN date ELSE past.eom]
    BY <1>1 DEF NextDay
  <2>3. IsDate(date') /\ weekday' = Weekday(date')
    BY <2>1, TomorrowIsDate, WeekdayOfTomorrow DEF DateInv
  <2>4. Yesterday(date') = date
    BY <2>1, YesterdayOfTomorrow DEF DateInv
  <2>5. LastBday(date') = IF weekday < 5 THEN date ELSE past.bday
    BY <2>1, LastBdayOfTomorrow DEF DateInv
  <2>6. LastEom(date') = IF date'.d = 1 THEN date ELSE past.eom
    BY <2>1, LastEomOfTomorrow DEF DateInv
  <2>7. Ordinal(date') = Ordinal(FirstDay) + n'
    BY <2>1, OrdinalOfTomorrow, FirstDayAssumption DEF DateInv, ClockInv
  <2>8. DateInv'
    BY <2>2, <2>3, <2>4, <2>5, <2>6 DEF DateInv
  <2> QED BY <2>1, <2>7, <2>8 DEF ClockInv
<1>2. CASE Minute
  BY <1>2 DEF Minute, DateInv, ClockInv
<1>3. ASSUME NEW b \in DOMAIN Builders, Build(b) PROVE DateInv' /\ ClockInv'
  BY <1>3 DEF Build, calendar, DateInv, ClockInv
<1>4. ASSUME NEW j \in jobs, Execute(j) PROVE DateInv' /\ ClockInv'
  BY <1>4 DEF Execute, calendar, DateInv, ClockInv
<1>5. CASE UNCHANGED vars
  BY <1>5 DEF vars, DateInv, ClockInv
<1> QED BY <1>1, <1>2, <1>3, <1>4, <1>5 DEF Next

LEMMA KeywordsByTheCalendar == DateInv => MeansTheDay
<1> SUFFICES ASSUME DateInv PROVE MeansTheDay
  OBVIOUS
<1> DEFINE clipped == [past.eom EXCEPT !.d = IF @ < date.d THEN @ ELSE date.d]
<1>1. /\ past.day = Yesterday(date) /\ past.bday = LastBday(date) /\ past.eom = LastEom(date)
      /\ IsDate(date)
  BY DEF DateInv
<1>2. AddMonths(date, -1) = clipped
  BY <1>1, LastMonthIsClipped
<1>3. /\ ResolveDate("today", date) = date
      /\ ResolveDate("yesterday", date) = Yesterday(date)
      /\ ResolveDate("last_bday", date) = LastBday(date)
      /\ ResolveDate("last_eom", date) = LastEom(date)
      /\ ResolveDate("last_month", date) = AddMonths(date, -1)
      /\ ResolveDate("last_yymm", date) = [AddMonths(date, -1) EXCEPT !.d = 0]
  BY DEF ResolveDate
<1> HIDE DEF clipped
<1>4. /\ ResolveDate("last_month", date) = clipped
      /\ ResolveDate("last_yymm", date) = [clipped EXCEPT !.d = 0]
  BY <1>2, <1>3
<1> QED BY <1>1, <1>3, <1>4 DEF MeansTheDay, clipped

\* Every keyword means the day that was walked through.
THEOREM KeywordsMeanTheDay == Spec => []MeansTheDay
<1>1. Init => DateInv /\ ClockInv
  BY DateInit
<1>2. DateInv /\ ClockInv /\ [Next]_vars => DateInv' /\ ClockInv'
  BY DateNext
<1> QED BY <1>1, <1>2, KeywordsByTheCalendar, PTL DEF Spec
-----------------------------------------------------------------------------
(* The slots of the cycles. *)

\* Units of a cycle since its slot began, on a day of that ordinal and at a
\* minute of it.
Elapsed(c, day, min) ==
  CASE c.unit = "m" -> (min % 60) % c.n
    [] c.unit = "h" -> (min \div 60) % c.n
    [] c.unit = "d" -> day % c.n
    [] c.unit = "w" -> ((day - FirstMonday) \div 7) % c.n

\* What has been counted is what the floor of the time comes to.
SlotInv ==
  /\ count = [c \in Cycles |-> Elapsed(c, Ordinal(date), minute)]
  /\ slot = [c \in Cycles |-> Floor(Moment(Ordinal(date), minute), c)]

\* The floor takes away the units that have gone by.
LEMMA FloorByElapsed ==
  ASSUME NEW c \in Cycles, NEW day \in Int, NEW min \in Nat
  PROVE  LET gone == Elapsed(c, day, min) IN
         /\ gone \in 0..(c.n - 1)
         /\ Floor(Moment(day, min), c) =
              CASE c.unit = "m" -> Moment(day, min - gone)
                [] c.unit = "h" -> Moment(day, ((min \div 60) - gone) * 60)
                [] c.unit = "d" -> Moment(day - gone, 0)
                [] c.unit = "w" -> Moment(FirstMonday + 7 * (((day - FirstMonday) \div 7) - gone), 0)
<1>1. c.unit \in {"m", "h", "d", "w"} /\ c.n \in Nat \ {0}
  BY CyclesAssumption
<1>2. /\ min % 60 \in Int /\ min \div 60 \in Int
      /\ day \in Int /\ (day - FirstMonday) \div 7 \in Int
  BY DEF FirstMonday
<1>3. /\ (min % 60) % c.n \in 0..(c.n - 1) /\ (min \div 60) % c.n \in 0..(c.n - 1)
      /\ day % c.n \in 0..(c.n - 1)
      /\ ((day - FirstMonday) \div 7) % c.n \in 0..(c.n - 1)
  BY <1>1, <1>2, Division
<1>4. Slotted(c) /\ Moment(day, min).day = day /\ Moment(day, min).minute = min
      /\ \A x : [Moment(day, min) EXCEPT !.minute = x] = Moment(day, x)
  BY <1>1 DEF Slotted, Moment
<1>5. CASE c.unit = "m"
  BY <1>3, <1>4, <1>5 DEF Floor, Elapsed
<1>6. CASE c.unit = "h"
  BY <1>3, <1>4, <1>6 DEF Floor, Elapsed
<1>7. CASE c.unit = "d"
  BY <1>3, <1>4, <1>7 DEF Floor, Elapsed
<1>8. CASE c.unit = "w"
  BY <1>3, <1>4, <1>8 DEF Floor, Elapsed
<1> QED BY <1>1, <1>5, <1>6, <1>7, <1>8

LEMMA SlotInit == Init => SlotInv
<1> SUFFICES ASSUME Init PROVE SlotInv
  OBVIOUS
<1> DEFINE day == Ordinal(FirstDay)
<1>1. date = FirstDay /\ minute = 0
  BY DEF Init
<1>2. day \in Int /\ (day + 3) % 7 = 0
  BY FirstDayAssumption, OrdinalOfTomorrow DEF Weekday
<1> HIDE DEF day
<1>3. ASSUME NEW c \in Cycles
      PROVE  Floor(Moment(day, 0), c) = Moment(day, 0) /\ Elapsed(c, day, 0) = 0
  <2>1. Floor(Moment(day, 0), c) = Moment(day, 0)
    BY FirstDayAssumption DEF day
  <2> DEFINE gone == Elapsed(c, day, 0)
  <2>2. /\ gone \in 0..(c.n - 1)
        /\ Floor(Moment(day, 0), c) =
              CASE c.unit = "m" -> Moment(day, 0 - gone)
                [] c.unit = "h" -> Moment(day, ((0 \div 60) - gone) * 60)
                [] c.unit = "d" -> Moment(day - gone, 0)
                [] c.unit = "w" -> Moment(FirstMonday + 7 * (((day - FirstMonday) \div 7) - gone), 0)
    BY <1>2, FloorByElapsed
  <2>3. c.unit \in {"m", "h", "d", "w"} /\ gone \in Int
    BY <2>2, CyclesAssumption
  <2> HIDE DEF gone
  <2>4. \A d1, d2, m1, m2 : Moment(d1, m1) = Moment(d2, m2) => d1 = d2 /\ m1 = m2
    BY DEF Moment
  <2>5. ASSUME c.unit = "m" PROVE gone = 0
    <3>1. Moment(day, 0) = Moment(day, 0 - gone)
      BY <2>1, <2>2, <2>5
    <3> QED BY <2>3, <2>4, <3>1
  <2>6. ASSUME c.unit = "h" PROVE gone = 0
    <3>1. Moment(day, 0) = Moment(day, ((0 \div 60) - gone) * 60)
      BY <2>1, <2>2, <2>6
    <3>2. 0 = ((0 \div 60) - gone) * 60
      BY <2>4, <3>1
    <3> QED BY <2>3, <3>2
  <2>7. ASSUME c.unit = "d" PROVE gone = 0
    <3>1. Moment(day, 0) = Moment(day - gone, 0)
      BY <2>1, <2>2, <2>7
    <3>2. day = day - gone
      BY <2>4, <3>1
    <3> QED BY <1>2, <2>3, <3>2
  <2>8. ASSUME c.unit = "w" PROVE gone = 0
    <3>1. Moment(day, 0) = Moment(FirstMonday + 7 * (((day - FirstMonday) \div 7) - gone), 0)
      BY <2>1, <2>2, <2>8
    <3>2. day = FirstMonday + 7 * (((day - FirstMonday) \div 7) - gone)
      BY <2>4, <3>1
    <3> QED BY <1>2, <2>3, <3>2 DEF FirstMonday
  <2>9. gone = 0
    BY <2>3, <2>5, <2>6, <2>7, <2>8
  <2> QED BY <2>1, <2>9 DEF gone
<1>4. count = [c \in Cycles |-> 0] /\ slot = [c \in Cycles |-> Moment(day, 0)]
  BY DEF Init, day
<1> QED BY <1>1, <1>3, <1>4 DEF SlotInv, day
LEMMA SlotOfMinute == DateInv /\ ClockInv /\ SlotInv /\ Minute => SlotInv'
<1> SUFFICES ASSUME DateInv, ClockInv, SlotInv, Minute PROVE SlotInv'
  OBVIOUS
<1> DEFINE day == Ordinal(date)
           hour == minute' % 60 = 0
           unit(c) == c.unit = "m" \/ (c.unit = "h" /\ hour)
           next(c) == count[c] + 1 = c.n \/ (c.unit = "m" /\ hour)
<1>1. date' = date /\ minute' = minute + 1 /\ minute \in Nat /\ day \in Int
  BY OrdinalOfTomorrow DEF Minute, DateInv, ClockInv
<1>2. /\ count' = [c \in Cycles |->
                    IF ~unit(c) THEN count[c] ELSE IF next(c) THEN 0 ELSE count[c] + 1]
      /\ slot' = [c \in Cycles |-> IF unit(c) /\ next(c) THEN Moment(day, minute') ELSE slot[c]]
  BY DEF Minute, Counted, ClockInv
<1> HIDE DEF day
<1>3. ASSUME NEW c \in Cycles
      PROVE  count'[c] = Elapsed(c, day, minute') /\ slot'[c] = Floor(Moment(day, minute'), c)
  <2>1. c.unit \in {"m", "h", "d", "w"} /\ c.n \in Nat \ {0}
    BY CyclesAssumption
  <2>2. count[c] = Elapsed(c, day, minute) /\ slot[c] = Floor(Moment(day, minute), c)
    BY DEF SlotInv, day
  <2>3. /\ count'[c] = IF ~unit(c) THEN count[c] ELSE IF next(c) THEN 0 ELSE count[c] + 1
        /\ slot'[c] = IF unit(c) /\ next(c) THEN Moment(day, minute') ELSE slot[c]
    BY <1>2
  <2>4. 0 % c.n = 0
    BY <2>1, DivisionUnique, 0 = c.n * 0 + 0, 0 \in 0..(c.n - 1)
  <2> DEFINE was == Elapsed(c, day, minute)
             gone == Elapsed(c, day, minute')
  <2>5. was \in Int /\ gone \in Int
    BY <1>1, FloorByElapsed
  <2>6. CASE c.unit = "m"
    <3>1. gone = (minute' % 60) % c.n /\ was = (minute % 60) % c.n
      BY <2>6 DEF Elapsed
    <3>2. ~hour => minute' % 60 = (minute % 60) + 1 /\ minute % 60 \in Int
      BY <1>1
    <3>3. gone = IF next(c) THEN 0 ELSE was + 1
      <4>1. CASE hour
        <5>1. gone = 0
          BY <2>4, <3>1, <4>1
        <5> QED BY <2>6, <4>1, <5>1
      <4>2. CASE ~hour
        <5> DEFINE u == minute % 60
        <5>1. u \in Int /\ minute' % 60 = u + 1
          BY <3>2, <4>2
        <5> HIDE DEF u
        <5>2. (u + 1) % c.n = IF (u % c.n) + 1 = c.n THEN 0 ELSE (u % c.n) + 1
          BY <2>1, <5>1, ModuloOfNext
        <5>3. was = u % c.n /\ gone = (u + 1) % c.n
          BY <3>1, <5>1 DEF u
        <5>4. next(c) <=> was + 1 = c.n
          BY <2>2, <2>6, <4>2
        <5> HIDE DEF was, gone, next
        <5> QED BY <5>2, <5>3, <5>4
      <4> QED BY <4>1, <4>2
    <3>4. /\ Floor(Moment(day, minute), c) = Moment(day, minute - was)
          /\ Floor(Moment(day, minute'), c) = Moment(day, minute' - gone)
      BY <1>1, <2>6, FloorByElapsed
    <3> HIDE DEF was, gone
    <3>5. CASE next(c)
      <4>1. minute' - gone = minute'
        BY <1>1, <3>3, <3>5
      <4> QED BY <2>3, <2>6, <3>3, <3>4, <3>5, <4>1 DEF gone
    <3>6. CASE ~next(c)
      <4>1. minute' - gone = minute - was
        BY <1>1, <2>5, <3>3, <3>6
      <4> QED BY <2>2, <2>3, <2>6, <3>3, <3>4, <3>6, <4>1 DEF gone, was
    <3> QED BY <3>5, <3>6
  <2>7. CASE c.unit = "h"
    <3>1. gone = (minute' \div 60) % c.n /\ was = (minute \div 60) % c.n
      BY <2>7 DEF Elapsed
    <3>2. /\ minute \div 60 \in Int
          /\ minute' \div 60 = IF hour THEN (minute \div 60) + 1 ELSE minute \div 60
          /\ hour => (minute' \div 60) * 60 = minute'
      BY <1>1
    <3>3. gone = IF hour THEN IF next(c) THEN 0 ELSE was + 1 ELSE was
      <4>1. CASE ~hour
        BY <3>1, <3>2, <4>1
      <4>2. CASE hour
        <5> DEFINE u == minute \div 60
        <5>1. u \in Int /\ minute' \div 60 = u + 1
          BY <3>2, <4>2
        <5> HIDE DEF u
        <5>2. (u + 1) % c.n = IF (u % c.n) + 1 = c.n THEN 0 ELSE (u % c.n) + 1
          BY <2>1, <5>1, ModuloOfNext
        <5>3. was = u % c.n /\ gone = (u + 1) % c.n
          BY <3>1, <5>1 DEF u
        <5>4. next(c) <=> was + 1 = c.n
          BY <2>2, <2>7, <4>2
        <5> HIDE DEF was, gone, next
        <5> QED BY <4>2, <5>2, <5>3, <5>4
      <4> QED BY <4>1, <4>2
    <3>4. /\ Floor(Moment(day, minute), c) = Moment(day, ((minute \div 60) - was) * 60)
          /\ Floor(Moment(day, minute'), c) = Moment(day, ((minute' \div 60) - gone) * 60)
      BY <1>1, <2>7, FloorByElapsed
    <3> HIDE DEF was, gone
    <3>5. CASE hour /\ next(c)
      <4>1. ((minute' \div 60) - gone) * 60 = minute'
        BY <1>1, <3>2, <3>3, <3>5
      <4> QED BY <2>3, <2>7, <3>3, <3>4, <3>5, <4>1 DEF gone
    <3>6. CASE hour /\ ~next(c)
      <4>1. (minute' \div 60) - gone = (minute \div 60) - was
        BY <1>1, <2>5, <3>2, <3>3, <3>6
      <4> QED BY <2>2, <2>3, <2>7, <3>3, <3>4, <3>6, <4>1 DEF gone, was
    <3>7. CASE ~hour
      BY <2>2, <2>3, <2>7, <3>2, <3>3, <3>4, <3>7 DEF gone, was
    <3> QED BY <3>5, <3>6, <3>7
  <2>8. CASE c.unit \in {"d", "w"}
    <3>1. gone = was
      BY <2>8 DEF Elapsed
    <3>2. Floor(Moment(day, minute'), c) = Floor(Moment(day, minute), c)
      BY <2>8, <3>1, <1>1, FloorByElapsed
    <3> QED BY <2>2, <2>3, <2>8, <3>1, <3>2
  <2> QED BY <2>1, <2>6, <2>7, <2>8
<1> QED BY <1>1, <1>2, <1>3 DEF SlotInv, day
LEMMA SlotOfNextDay == DateInv /\ ClockInv /\ SlotInv /\ NextDay => SlotInv'
<1> SUFFICES ASSUME DateInv, ClockInv, SlotInv, NextDay PROVE SlotInv'
  OBVIOUS
<1> DEFINE day == Ordinal(date)
           monday == weekday' = 0
           unit(c) == c.unit # "w" \/ monday
           next(c) == count[c] + 1 = c.n \/ c.unit \in {"m", "h"}
<1>1. minute' = 0 /\ minute \in Nat /\ day \in Int /\ Ordinal(date') = day + 1
  BY OrdinalOfTomorrow DEF NextDay, DateInv, ClockInv
<1>2. Ordinal(FirstDay) + n' = day + 1
  BY <1>1, FirstDayAssumption, OrdinalOfTomorrow DEF NextDay, ClockInv
<1>3. monday <=> (day + 1 + 3) % 7 = 0
  BY <1>1, WeekdayOfTomorrow DEF NextDay, DateInv, Weekday
<1>4. /\ count' = [c \in Cycles |->
                    IF ~unit(c) THEN count[c] ELSE IF next(c) THEN 0 ELSE count[c] + 1]
      /\ slot' = [c \in Cycles |-> IF unit(c) /\ next(c) THEN Moment(day + 1, 0) ELSE slot[c]]
  BY <1>2 DEF NextDay, Counted
<1> HIDE DEF day, monday
<1>5. ASSUME NEW c \in Cycles
      PROVE  count'[c] = Elapsed(c, day + 1, 0) /\ slot'[c] = Floor(Moment(day + 1, 0), c)
  <2>1. c.unit \in {"m", "h", "d", "w"} /\ c.n \in Nat \ {0}
    BY CyclesAssumption
  <2>2. count[c] = Elapsed(c, day, minute) /\ slot[c] = Floor(Moment(day, minute), c)
    BY DEF SlotInv, day
  <2>3. /\ count'[c] = IF ~unit(c) THEN count[c] ELSE IF next(c) THEN 0 ELSE count[c] + 1
        /\ slot'[c] = IF unit(c) /\ next(c) THEN Moment(day + 1, 0) ELSE slot[c]
    BY <1>4
  <2>4. 0 % c.n = 0
    BY <2>1, DivisionUnique, 0 = c.n * 0 + 0, 0 \in 0..(c.n - 1)
  <2>5. 0 % 60 = 0 /\ 0 \div 60 = 0
    OBVIOUS
  <2> DEFINE was == Elapsed(c, day, minute)
             gone == Elapsed(c, day + 1, 0)
  <2>6. was \in Int /\ gone \in Int /\ day + 1 \in Int /\ 0 \in Nat
    BY <1>1, FloorByElapsed
  <2>7. CASE c.unit = "m"
    <3>1. gone = 0
      BY <2>4, <2>5, <2>7 DEF Elapsed
    <3>2. Floor(Moment(day + 1, 0), c) = Moment(day + 1, 0 - gone)
      BY <2>6, <2>7, FloorByElapsed
    <3> HIDE DEF gone
    <3> QED BY <2>3, <2>7, <3>1, <3>2 DEF gone
  <2>8. CASE c.unit = "h"
    <3>1. gone = 0
      BY <2>4, <2>5, <2>8 DEF Elapsed
    <3>2. Floor(Moment(day + 1, 0), c) = Moment(day + 1, ((0 \div 60) - gone) * 60)
      BY <2>6, <2>8, FloorByElapsed
    <3> HIDE DEF gone
    <3>3. ((0 \div 60) - gone) * 60 = 0
      BY <2>5, <3>1
    <3> QED BY <2>3, <2>8, <3>1, <3>2, <3>3 DEF gone
  <2>9. CASE c.unit = "d"
    <3>1. was = day % c.n /\ gone = (day + 1) % c.n
      BY <2>9 DEF Elapsed
    <3>2. gone = IF was + 1 = c.n THEN 0 ELSE was + 1
      BY <1>1, <2>1, <3>1, ModuloOfNext
    <3>3. /\ Floor(Moment(day, minute), c) = Moment(day - was, 0)
          /\ Floor(Moment(day + 1, 0), c) = Moment(day + 1 - gone, 0)
      BY <1>1, <2>6, <2>9, FloorByElapsed
    <3> HIDE DEF was, gone
    <3>4. day + 1 - gone = IF was + 1 = c.n THEN day + 1 ELSE day - was
      BY <1>1, <2>6, <3>2
    <3>5. unit(c) /\ (next(c) <=> was + 1 = c.n)
      BY <2>2, <2>9 DEF was
    <3> QED BY <2>2, <2>3, <3>2, <3>3, <3>4, <3>5 DEF was, gone
  <2>10. CASE c.unit = "w"
    <3> DEFINE week == (day - FirstMonday) \div 7
               tomorrow == day + 1
               that == (tomorrow - FirstMonday) \div 7
    <3>1. was = week % c.n /\ gone = that % c.n
      <4>1. gone = Elapsed(c, tomorrow, 0)
        OBVIOUS
      <4> HIDE DEF tomorrow
      <4> QED BY <2>10, <4>1 DEF Elapsed
    <3>2. /\ Floor(Moment(day, minute), c) = Moment(FirstMonday + 7 * (week - was), 0)
          /\ Floor(Moment(day + 1, 0), c) = Moment(FirstMonday + 7 * (that - gone), 0)
      <4>1. /\ Floor(Moment(day + 1, 0), c) = Floor(Moment(tomorrow, 0), c)
            /\ gone = Elapsed(c, tomorrow, 0) /\ tomorrow \in Int
        BY <2>6
      <4> HIDE DEF tomorrow
      <4> QED BY <1>1, <2>6, <2>10, <4>1, FloorByElapsed
    <3>3. /\ week \in Int /\ that = IF monday THEN week + 1 ELSE week
          /\ monday => FirstMonday + 7 * that = day + 1
      BY <1>1, <1>3 DEF FirstMonday
    <3>4. (week + 1) % c.n = IF (week % c.n) + 1 = c.n THEN 0 ELSE (week % c.n) + 1
      BY <2>1, <3>3, ModuloOfNext
    <3> HIDE DEF was, gone, week, that
    <3>5. FirstMonday \in Int
      BY DEF FirstMonday
    <3>6. CASE ~monday
      BY <2>2, <2>3, <2>10, <3>1, <3>2, <3>3, <3>6 DEF was, gone
    <3>7. CASE monday
      <4>1. gone = IF was + 1 = c.n THEN 0 ELSE was + 1
        BY <3>1, <3>3, <3>4, <3>7
      <4>2. next(c) <=> was + 1 = c.n
        BY <2>2, <2>10 DEF was
      <4>3. was + 1 = c.n => FirstMonday + 7 * (that - gone) = day + 1
        BY <2>6, <3>3, <3>5, <3>7, <4>1
      <4>4. was + 1 # c.n => that - gone = week - was
        BY <2>6, <3>3, <3>7, <4>1
      <4> QED BY <2>2, <2>3, <2>10, <3>2, <3>7, <4>1, <4>2, <4>3, <4>4 DEF was, gone
    <3> QED BY <3>6, <3>7
  <2> QED BY <2>1, <2>7, <2>8, <2>9, <2>10
<1> QED BY <1>1, <1>4, <1>5 DEF SlotInv, day

LEMMA SlotNext == DateInv /\ ClockInv /\ SlotInv /\ [Next]_vars => SlotInv'
<1> SUFFICES ASSUME DateInv, ClockInv, SlotInv, [Next]_vars PROVE SlotInv'
  OBVIOUS
<1>1. CASE Minute
  BY <1>1, SlotOfMinute
<1>2. CASE NextDay
  BY <1>2, SlotOfNextDay
<1>3. ASSUME NEW b \in DOMAIN Builders, Build(b) PROVE SlotInv'
  BY <1>3 DEF Build, calendar, SlotInv
<1>4. ASSUME NEW j \in jobs, Execute(j) PROVE SlotInv'
  BY <1>4 DEF Execute, calendar, SlotInv
<1>5. CASE UNCHANGED vars
  BY <1>5 DEF vars, SlotInv
<1> QED BY <1>1, <1>2, <1>3, <1>4, <1>5 DEF Next

\* An execution at any time of a slot is stamped with the slot's beginning.
THEOREM StampedOnTheGrid == Spec => []OnTheGrid
<1>1. Init => DateInv /\ ClockInv /\ SlotInv
  BY DateInit, SlotInit
<1>2. DateInv /\ ClockInv /\ SlotInv /\ [Next]_vars => DateInv' /\ ClockInv' /\ SlotInv'
  BY DateNext, SlotNext
<1>3. SlotInv => OnTheGrid
  BY DEF SlotInv, OnTheGrid
<1> QED BY <1>1, <1>2, <1>3, PTL DEF Spec
-----------------------------------------------------------------------------
(* The jobs of a generation. *)

JobRecords == \A j \in jobs : j = [id |-> j.id, params |-> j.params]

\* Of the entries that name a key the last one has it.
LEMMA MergedHasTheLast ==
  ASSUME NEW combo, DOMAIN combo \subseteq Int,
         NEW i \in DOMAIN combo, NEW k \in DOMAIN combo[i],
         \A m \in DOMAIN combo : m > i => k \notin DOMAIN combo[m]
  PROVE  Merged(combo)[k] = combo[i][k]
<1> DEFINE with == {m \in DOMAIN combo : k \in DOMAIN combo[m]}
<1>1. k \in UNION {DOMAIN combo[m] : m \in DOMAIN combo}
  OBVIOUS
<1>2. Merged(combo)[k] = combo[Max(with)][k]
  BY <1>1 DEF Merged
<1>3. i \in with /\ with \subseteq Int /\ \A m \in with : i >= m
  OBVIOUS
<1> HIDE DEF with
<1>4. Max(with) \in with /\ \A m \in with : Max(with) >= m
  BY <1>3 DEF Max
<1>5. Max(with) = i
  BY <1>3, <1>4
<1> QED BY <1>2, <1>5

LEMMA BuildKeeps ==
  ASSUME JobRecords, EachCombinationHasItsJob, NEW b \in DOMAIN Builders, Build(b)
  PROVE  JobRecords' /\ EachCombinationHasItsJob'
<1> DEFINE builder == Builders[b]
<1>1. PICK answers :
        LET axes   == [i \in DOMAIN builder.axes |-> Axis(builder.axes[i], answers)]
            combos == Product(axes)
            new    == {[id |-> JobId(b, builder.api, Merged(c)), params |-> Merged(c)] : c \in combos}
            old    == {j.id : j \in jobs}
            kept   == {CHOOSE p \in new : p.id = i : i \in {p.id : p \in new} \ old} IN
        IF \/ \E i \in DOMAIN builder.axes : AxisRaises(builder.axes[i], answers)
           \/ \E c \in combos : KeyMissing(builder.api, Merged(c))
           \/ Ambiguous(new)
        THEN built' = NoBuild /\ UNCHANGED <<jobs, met>>
        ELSE /\ jobs' = jobs \cup kept
             /\ met' = met \cup {p.id : p \in new}
             /\ built' = [api |-> builder.api, combos |-> combos]
  BY DEF Build
<1> DEFINE axes   == [i \in DOMAIN builder.axes |-> Axis(builder.axes[i], answers)]
           combos == Product(axes)
           new    == {[id |-> JobId(b, builder.api, Merged(c)), params |-> Merged(c)] : c \in combos}
           old    == {j.id : j \in jobs}
           kept   == {CHOOSE p \in new : p.id = i : i \in {p.id : p \in new} \ old}
<1>2. CASE built' = NoBuild /\ UNCHANGED <<jobs, met>>
  BY <1>2 DEF JobRecords, EachCombinationHasItsJob, NoBuild
<1>3. CASE /\ ~Ambiguous(new)
           /\ jobs' = jobs \cup kept
           /\ built' = [api |-> builder.api, combos |-> combos]
  <2>1. DOMAIN axes \subseteq Int
    BY BuildersAssumption DEF IsSeq
  <2>2. \A c \in combos : DOMAIN c = DOMAIN axes
    BY DEF Product
  <2> HIDE DEF combos, axes, builder
  <2>3. \A p \in new : p = [id |-> p.id, params |-> p.params]
    OBVIOUS
  <2>4. \A c \in combos : \E p \in new : p.id[1] = builder.api /\ p.params = Merged(c)
    <3> SUFFICES ASSUME NEW c \in combos
                 PROVE  \E p \in new : p.id[1] = builder.api /\ p.params = Merged(c)
      OBVIOUS
    <3> DEFINE id == JobId(b, builder.api, Merged(c))
    <3>1. id[1] = builder.api
      BY DEF JobId
    <3>2. [id |-> id, params |-> Merged(c)] \in new
      OBVIOUS
    <3> HIDE DEF id, new
    <3>3. [id |-> id, params |-> Merged(c)].id = id /\ [id |-> id, params |-> Merged(c)].params = Merged(c)
      OBVIOUS
    <3> QED BY <3>1, <3>2, <3>3
  <2>5. \A p, q \in new : p.id = q.id => p.params = q.params
    BY <1>3 DEF Ambiguous
  <2>6. \A p \in new, j \in jobs : p.id = j.id => p.params = j.params
    BY <1>3 DEF Ambiguous
  <2> HIDE DEF new
  <2>7. \A i \in {p.id : p \in new} \ old :
          LET p == CHOOSE p \in new : p.id = i IN p \in new /\ p.id = i
    OBVIOUS
  <2>8. kept \subseteq new /\ \A p \in kept : p.id \notin old
    BY <2>7
  <2>9. \A p \in new : \E q \in jobs \cup kept : q.id = p.id /\ q.params = p.params
    <3> SUFFICES ASSUME NEW p \in new
                 PROVE  \E q \in jobs \cup kept : q.id = p.id /\ q.params = p.params
      OBVIOUS
    <3>1. CASE p.id \in old
      BY <2>6, <3>1
    <3>2. CASE p.id \notin old
      <4> DEFINE q == CHOOSE q \in new : q.id = p.id
      <4>1. q \in kept /\ q \in new /\ q.id = p.id
        BY <2>7, <3>2
      <4> HIDE DEF q
      <4> QED BY <2>5, <4>1
    <3> QED BY <3>1, <3>2
  <2>10. \A p, q \in kept : p.id = q.id => p = q
    BY <2>3, <2>5, <2>8
  <2> HIDE DEF kept
  <2>11. JobRecords'
    BY <1>3, <2>3, <2>8 DEF JobRecords
  <2>12. \A j, k \in jobs' : j.id = k.id => j = k
    BY <1>3, <2>8, <2>10 DEF EachCombinationHasItsJob
  <2>13. ASSUME NEW c \in built'.combos
         PROVE  \E j \in jobs' :
                  /\ j.id[1] = built'.api
                  /\ \A i \in DOMAIN c : \A k \in DOMAIN c[i] :
                       (\A m \in DOMAIN c : m > i => k \notin DOMAIN c[m]) => j.params[k] = c[i][k]
    <3>1. c \in combos /\ built'.api = builder.api /\ DOMAIN c \subseteq Int
      BY <1>3, <2>1, <2>2, <2>13
    <3>2. PICK p \in new : p.id[1] = builder.api /\ p.params = Merged(c)
      BY <2>4, <3>1
    <3>3. PICK j \in jobs' : j.id = p.id /\ j.params = p.params
      BY <1>3, <2>9
    <3>4. \A i \in DOMAIN c : \A k \in DOMAIN c[i] :
            (\A m \in DOMAIN c : m > i => k \notin DOMAIN c[m]) => Merged(c)[k] = c[i][k]
      BY <3>1, MergedHasTheLast
    <3> QED BY <3>1, <3>2, <3>3, <3>4
  <2> QED BY <2>11, <2>12, <2>13 DEF EachCombinationHasItsJob
<1> QED BY <1>1, <1>2, <1>3

\* After a generation every combination of the axes' values has a job of its
\* own with its own values, and no two jobs share an id.
THEOREM NoCombinationLost == Spec => []EachCombinationHasItsJob
<1>1. Init => JobRecords /\ EachCombinationHasItsJob
  BY DEF Init, JobRecords, EachCombinationHasItsJob, NoBuild
<1>2. JobRecords /\ EachCombinationHasItsJob /\ [Next]_vars
        => JobRecords' /\ EachCombinationHasItsJob'
  <2> SUFFICES ASSUME JobRecords, EachCombinationHasItsJob, [Next]_vars
               PROVE  JobRecords' /\ EachCombinationHasItsJob'
    OBVIOUS
  <2>1. CASE Minute
    BY <2>1 DEF Minute, JobRecords, EachCombinationHasItsJob, NoBuild
  <2>2. CASE NextDay
    BY <2>2 DEF NextDay, JobRecords, EachCombinationHasItsJob, NoBuild
  <2>3. ASSUME NEW b \in DOMAIN Builders, Build(b)
        PROVE  JobRecords' /\ EachCombinationHasItsJob'
    BY <2>3, BuildKeeps
  <2>4. ASSUME NEW j \in jobs, Execute(j)
        PROVE  JobRecords' /\ EachCombinationHasItsJob'
    BY <2>4 DEF Execute, JobRecords, EachCombinationHasItsJob, NoBuild
  <2>5. CASE UNCHANGED vars
    BY <2>5 DEF vars, JobRecords, EachCombinationHasItsJob
  <2> QED BY <2>1, <2>2, <2>3, <2>4, <2>5 DEF Next
<1> QED BY <1>1, <1>2, PTL DEF Spec

-----------------------------------------------------------------------------
(* Naturals.                                                               *)

LEMMA SmallestNat ==
  ASSUME NEW T, T \subseteq Nat, T # {}
  PROVE  \E x \in T : \A y \in T : x <= y
<1> DEFINE R == OpToRel(<, Nat)
<1>1. R = {ss \in Nat \X Nat : ss[1] < ss[2]}
  BY DEF OpToRel
<1>2. IsWellFoundedOn(R, Nat)
  BY NatLessThanWellFounded, Zenon
<1> HIDE DEF R
<1>3. PICK x \in T : \A y \in T : ~(<<y, x>> \in R)
  BY <1>2, WFMin
<1>4. ASSUME NEW y \in T, y < x PROVE FALSE
  <2>1. <<y, x>> \in Nat \X Nat /\ <<y, x>>[1] < <<y, x>>[2]
    BY <1>4
  <2>2. <<y, x>> \in R
    BY <2>1, <1>1, Zenon
  <2> QED BY <2>2, <1>3
<1>5. \A y \in T : x <= y
  BY <1>4
<1> QED BY <1>5

LEMMA SetInduction ==
  ASSUME NEW S, 0 \in S, \A k \in Nat : k \in S => k + 1 \in S
  PROVE  Nat \subseteq S
<1> DEFINE T == Nat \ S
<1>1. SUFFICES ASSUME T # {} PROVE FALSE
  OBVIOUS
<1>2. PICK x \in T : \A y \in T : x <= y
  BY <1>1, SmallestNat
<1>3. x # 0
  BY <1>2
<1>4. x - 1 \in Nat /\ x - 1 \notin T
  BY <1>2, <1>3
<1>5. x - 1 \in S
  BY <1>4
<1> QED BY <1>5, <1>4, <1>2

LEMMA MaxOf ==
  ASSUME NEW k \in Nat
  PROVE  /\ \A t \in SUBSET (1..(k + 1)) : k + 1 \in t => Max(t) = k + 1
         /\ \A t \in SUBSET (1..k) : t # {} => Max(t) \in t
         /\ k > 0 => Max(1..k) = k
<1>1. ASSUME NEW t \in SUBSET (1..(k + 1)), k + 1 \in t PROVE Max(t) = k + 1
  <2>1. \A y \in t : y \in Int /\ k + 1 >= y
    OBVIOUS
  <2>2. Max(t) \in t /\ \A y \in t : Max(t) >= y
    BY <1>1, <2>1 DEF Max
  <2>3. Max(t) \in Int /\ k + 1 >= Max(t) /\ Max(t) >= k + 1
    BY <1>1, <2>1, <2>2
  <2> QED BY <2>3
<1>2. ASSUME NEW t \in SUBSET (1..k), t # {} PROVE Max(t) \in t
  <2> DEFINE down == {k - y : y \in t}
  <2>1. \A y \in t : y \in Int /\ k - y \in Nat
    OBVIOUS
  <2>2. down \subseteq Nat /\ down # {}
    BY <1>2, <2>1
  <2>3. PICK x \in down : \A y \in down : x <= y
    BY <2>2, SmallestNat
  <2>4. PICK y \in t : x = k - y
    BY <2>3
  <2>5. \A z \in t : y >= z
    <3>1. \A z \in t : k - z \in down
      OBVIOUS
    <3> HIDE DEF down
    <3>2. \A z \in t : k - y <= k - z
      BY <2>3, <2>4, <3>1
    <3> QED BY <2>1, <3>2
  <2> QED BY <2>5 DEF Max
<1>3. ASSUME k > 0 PROVE Max(1..k) = k
  <2>1. k \in 1..k /\ \A y \in 1..k : k >= y
    BY <1>3
  <2>2. Max(1..k) \in 1..k /\ \A y \in 1..k : Max(1..k) >= y
    BY <2>1 DEF Max
  <2> QED BY <2>1, <2>2
<1> QED BY <1>1, <1>2, <1>3

-----------------------------------------------------------------------------
(* Folds over sequences, one step at a time.                              *)

\* The steps of the three folds: a pair put into a dict, a validator run on a
\* record, and a key parameter of a job put on its stamp.
Step(fold, params, x, e) ==
  IF fold = "update" THEN Put(x, e)
  ELSE IF fold = "validated" THEN Validator(e, x)
  ELSE IF e.column # NoColumn /\ e.key # Now /\ e.key \in DOMAIN params
       THEN Put(x, <<Key(e.column), params[e.key]>>) ELSE x

\* The function by which a fold is defined, on the sets of the first k places.
Iter(fold, params, r, s, k, g) ==
  g = [t \in SUBSET (1..k) |->
        IF t = {} THEN r ELSE Step(fold, params, g[t \ {Max(t)}], s[Max(t)])]

LEMMA IterExists ==
  ASSUME NEW fold, NEW params, NEW r, NEW s
  PROVE  \A k \in Nat : \E g : Iter(fold, params, r, s, k, g)
<1> DEFINE S == {k \in Nat : \E g : Iter(fold, params, r, s, k, g)}
<1>1. 0 \in S
  <2> DEFINE g == [t \in SUBSET (1..0) |-> r]
  <2>1. \A t \in SUBSET (1..0) : t = {}
    OBVIOUS
  <2>2. Iter(fold, params, r, s, 0, g)
    BY <2>1 DEF Iter
  <2> QED BY <2>2
<1>2. ASSUME NEW k \in Nat, k \in S PROVE k + 1 \in S
  <2>1. PICK g : Iter(fold, params, r, s, k, g)
    BY <1>2
  <2> DEFINE h == [t \in SUBSET (1..(k + 1)) |->
                    IF k + 1 \in t THEN Step(fold, params, g[t \ {k + 1}], s[k + 1]) ELSE g[t]]
  <2>2. \A t \in SUBSET (1..k) :
          g[t] = IF t = {} THEN r ELSE Step(fold, params, g[t \ {Max(t)}], s[Max(t)])
    BY <2>1 DEF Iter
  <2>3. \A t \in SUBSET (1..k) : t \in SUBSET (1..(k + 1)) /\ h[t] = g[t]
    OBVIOUS
  <2>4. \A t \in SUBSET (1..(k + 1)) : k + 1 \notin t => t \in SUBSET (1..k)
    OBVIOUS
  <2>5. \A t \in SUBSET (1..(k + 1)) : t \ {k + 1} \in SUBSET (1..k)
    OBVIOUS
  <2>6. ASSUME NEW t \in SUBSET (1..(k + 1))
        PROVE  h[t] = IF t = {} THEN r ELSE Step(fold, params, h[t \ {Max(t)}], s[Max(t)])
    <3>1. CASE k + 1 \in t
      <4>1. Max(t) = k + 1 /\ t # {}
        BY <3>1, MaxOf
      <4>2. h[t] = Step(fold, params, g[t \ {k + 1}], s[k + 1])
        BY <3>1
      <4>3. h[t \ {k + 1}] = g[t \ {k + 1}]
        BY <2>3, <2>5
      <4> HIDE DEF h
      <4> QED BY <4>1, <4>2, <4>3
    <3>2. CASE k + 1 \notin t
      <4>1. t \in SUBSET (1..k) /\ t \ {Max(t)} \in SUBSET (1..k)
        BY <2>4, <3>2
      <4>2. h[t] = g[t] /\ h[t \ {Max(t)}] = g[t \ {Max(t)}]
        BY <2>3, <4>1
      <4> HIDE DEF h
      <4> QED BY <2>2, <4>1, <4>2
    <3> QED BY <3>1, <3>2
  <2>7. h = [t \in SUBSET (1..(k + 1)) |-> h[t]]
    OBVIOUS
  <2> HIDE DEF h
  <2>8. Iter(fold, params, r, s, k + 1, h)
    BY <2>6, <2>7 DEF Iter
  <2> QED BY <2>8
<1> HIDE DEF S
<1>3. Nat \subseteq S
  BY <1>1, <1>2, SetInduction
<1> QED BY <1>3 DEF S

\* What u is after each place of a sequence that is folded.
Runs(fold, params, r, s, len, u) ==
  /\ u[0] = r
  /\ \A i \in 1..len : u[i] = Step(fold, params, u[i - 1], s[i])

LEMMA IterRuns ==
  ASSUME NEW fold, NEW params, NEW r, NEW s, NEW len \in Nat, NEW g,
         Iter(fold, params, r, s, len, g)
  PROVE  \E u : Runs(fold, params, r, s, len, u) /\ u[len] = g[1..len]
<1> DEFINE u == [i \in 0..len |-> g[1..i]]
<1>1. \A t \in SUBSET (1..len) :
        g[t] = IF t = {} THEN r ELSE Step(fold, params, g[t \ {Max(t)}], s[Max(t)])
  BY DEF Iter
<1>2. u[0] = r
  <2>1. 1..0 = {} /\ u[0] = g[1..0]
    OBVIOUS
  <2> HIDE DEF u
  <2> QED BY <1>1, <2>1
<1>3. ASSUME NEW i \in 1..len PROVE u[i] = Step(fold, params, u[i - 1], s[i])
  <2>1. i \in Int /\ 1 <= i /\ i <= len /\ len \in Int
    OBVIOUS
  <2>2. 1..i \in SUBSET (1..len) /\ 1..i # {} /\ (1..i) \ {i} = 1..(i - 1)
    <3>1. 1..i \subseteq 1..len
      BY <2>1
    <3>2. i \in 1..i
      BY <2>1
    <3>3. (1..i) \ {i} = 1..(i - 1)
      BY <2>1
    <3> QED BY <3>1, <3>2, <3>3
  <2>3. Max(1..i) = i
    BY MaxOf
  <2>4. u[i] = g[1..i] /\ u[i - 1] = g[1..(i - 1)]
    OBVIOUS
  <2> HIDE DEF u
  <2> QED BY <1>1, <2>2, <2>3, <2>4
<1>4. u[len] = g[1..len]
  OBVIOUS
<1> HIDE DEF u
<1> QED BY <1>2, <1>3, <1>4 DEF Runs

LEMMA UpdateRuns ==
  ASSUME NEW r, NEW s, NEW len \in Nat, DOMAIN s = 1..len
  PROVE  \E u : Runs("update", 0, r, s, len, u) /\ Update(r, s) = u[len]
<1> DEFINE Of(h) == h = [t \in SUBSET (DOMAIN s) |->
                          IF t = {} THEN r ELSE Put(h[t \ {Max(t)}], s[Max(t)])]
           g == CHOOSE h : Of(h)
<1>1. Update(r, s) = g[DOMAIN s]
  BY Zenon DEF Update, FoldLeft, MapThenFoldSet
<1>2. PICK h : Iter("update", 0, r, s, len, h)
  BY IterExists
<1>3. Of(h)
  BY <1>2 DEF Iter, Step
<1> HIDE DEF Of
<1>4. Of(g)
  BY <1>3
<1> HIDE DEF g
<1>5. Iter("update", 0, r, s, len, g)
  BY <1>4 DEF Of, Iter, Step
<1> QED BY <1>1, <1>5, IterRuns

LEMMA ValidatedRuns ==
  ASSUME NEW r, NEW s, NEW len \in Nat, DOMAIN s = 1..len
  PROVE  \E u : Runs("validated", 0, r, s, len, u) /\ Validated(r, s) = u[len]
<1> DEFINE Of(h) == h = [t \in SUBSET (DOMAIN s) |->
                          IF t = {} THEN r ELSE Validator(s[Max(t)], h[t \ {Max(t)}])]
           g == CHOOSE h : Of(h)
<1>1. Validated(r, s) = g[DOMAIN s]
  BY Zenon DEF Validated, FoldLeft, MapThenFoldSet
<1>2. PICK h : Iter("validated", 0, r, s, len, h)
  BY IterExists
<1>3. Of(h)
  BY <1>2 DEF Iter, Step
<1> HIDE DEF Of
<1>4. Of(g)
  BY <1>3
<1> HIDE DEF g
<1>5. Iter("validated", 0, r, s, len, g)
  BY <1>4 DEF Of, Iter, Step
<1> QED BY <1>1, <1>5, IterRuns

LEMMA StampRuns ==
  ASSUME NEW job, NEW len \in Nat, DOMAIN KeyParams[job.id[1]] = 1..len
  PROVE  \E u : /\ Runs("stamp", job.params, <<>>, KeyParams[job.id[1]], len, u)
                /\ Stamp(job) = u[len]
<1> DEFINE s == KeyParams[job.id[1]]
           Of(h) == h = [t \in SUBSET (DOMAIN s) |->
                          IF t = {} THEN <<>>
                          ELSE IF /\ s[Max(t)].column # NoColumn /\ s[Max(t)].key # Now
                                  /\ s[Max(t)].key \in DOMAIN job.params
                               THEN Put(h[t \ {Max(t)}],
                                        <<Key(s[Max(t)].column), job.params[s[Max(t)].key]>>)
                               ELSE h[t \ {Max(t)}]]
           g == CHOOSE h : Of(h)
<1>1. Stamp(job) = g[DOMAIN s]
  BY Zenon DEF Stamp, FoldLeft, MapThenFoldSet
<1>2. DOMAIN s = 1..len
  OBVIOUS
<1> HIDE DEF s
<1>3. PICK h : Iter("stamp", job.params, <<>>, s, len, h)
  BY IterExists
<1>4. Of(h)
  BY <1>3, <1>2 DEF Iter, Step
<1> HIDE DEF Of
<1>5. Of(g)
  BY <1>4
<1> HIDE DEF g
<1>6. Iter("stamp", job.params, <<>>, s, len, g)
  BY <1>5, <1>2 DEF Of, Iter, Step
<1>7. \E u : Runs("stamp", job.params, <<>>, s, len, u) /\ u[len] = g[1..len]
  BY <1>6, IterRuns
<1> QED BY <1>1, <1>7, <1>2 DEF s

-----------------------------------------------------------------------------
(* Dicts. *)

\* A sequence of pairs, no key twice.
IsDict(d) ==
  /\ Len(d) \in Nat /\ d = [i \in 1..Len(d) |-> d[i]]
  /\ \A i, j \in DOMAIN d : d[i][1] = d[j][1] => i = j

LEMMA EmptyDict == IsDict(<<>>) /\ DOMAIN <<>> = {} /\ Keys(<<>>) = {}
BY DEF IsDict, Keys

LEMMA DictDomain ==
  ASSUME NEW d, IsDict(d)
  PROVE  DOMAIN d = 1..Len(d) /\ Len(d) \in Nat /\ \A a \in DOMAIN d : a \in Int
BY DEF IsDict

LEMMA AppendTo ==
  ASSUME NEW d, NEW p, Len(d) \in Nat, d = [i \in 1..Len(d) |-> d[i]]
  PROVE  /\ Len(Append(d, p)) = Len(d) + 1
         /\ Append(d, p) = [i \in 1..(Len(d) + 1) |-> IF i = Len(d) + 1 THEN p ELSE d[i]]
<1> DEFINE S == {d[i] : i \in 1..Len(d)} \cup {p}
<1>1. d \in Seq(S)
  OBVIOUS
<1> HIDE DEF S
<1>2. p \in S
  BY DEF S
<1>3. /\ Append(d, p) \in Seq(S) /\ Len(Append(d, p)) = Len(d) + 1
      /\ \A i \in 1..Len(d) : Append(d, p)[i] = d[i]
      /\ Append(d, p)[Len(d) + 1] = p
  BY <1>1, <1>2, AppendProperties
<1>4. ASSUME NEW q, q \in Seq(S) PROVE q = [i \in 1..Len(q) |-> q[i]]
  BY <1>4
<1>5. Append(d, p) = [i \in 1..(Len(d) + 1) |-> Append(d, p)[i]]
  BY <1>3, <1>4
<1> QED BY <1>3, <1>5

\* Put keeps what is there but the value of its key, and adds at the end.
LEMMA PutFacts ==
  ASSUME NEW d, NEW p, IsDict(d)
  PROVE  LET w == Put(d, p) IN
         /\ IsDict(w)
         /\ \A a \in DOMAIN d : a \in DOMAIN w /\ w[a] = IF d[a][1] = p[1] THEN p ELSE d[a]
         /\ \A a \in DOMAIN w : a \notin DOMAIN d =>
              w[a] = p /\ p[1] \notin Keys(d) /\ \A b \in DOMAIN d : b < a
         /\ \E a \in DOMAIN w : w[a] = p
<1> DEFINE w == Put(d, p)
<1>1. DOMAIN d = 1..Len(d) /\ Len(d) \in Nat
  BY DictDomain
<1>2. CASE p[1] \in Keys(d)
  <2>1. w = [i \in DOMAIN d |-> IF d[i][1] = p[1] THEN p ELSE d[i]]
    BY <1>2 DEF Put
  <2>2. PICK a \in DOMAIN d : d[a][1] = p[1]
    BY <1>2 DEF Keys
  <2>3. \A i \in DOMAIN d : w[i][1] = d[i][1]
    BY <2>1
  <2>4. DOMAIN w = DOMAIN d /\ w[a] = p
    BY <2>1, <2>2
  <2>5. Len(w) = Len(d) /\ w = [i \in 1..Len(w) |-> w[i]]
    BY <1>1, <2>1
  <2>6. IsDict(w)
    <3> HIDE DEF w
    <3> QED BY <1>1, <2>3, <2>4, <2>5 DEF IsDict
  <2>7. \A i \in DOMAIN d : w[i] = IF d[i][1] = p[1] THEN p ELSE d[i]
    BY <2>1
  <2> HIDE DEF w
  <2>8. \E i \in DOMAIN w : w[i] = p
    BY <2>2, <2>4
  <2>9. \A i \in DOMAIN w : i \in DOMAIN d
    BY <2>4
  <2> QED BY <2>4, <2>6, <2>7, <2>8, <2>9 DEF w
<1>3. CASE p[1] \notin Keys(d)
  <2>1. /\ Len(w) = Len(d) + 1
        /\ w = [i \in 1..(Len(d) + 1) |-> IF i = Len(d) + 1 THEN p ELSE d[i]]
    BY <1>3, AppendTo DEF Put, IsDict
  <2>2. /\ Len(w) \in Nat /\ DOMAIN w = 1..(Len(d) + 1) /\ w = [i \in 1..Len(w) |-> w[i]]
        /\ w[Len(d) + 1] = p /\ \A i \in DOMAIN d : i \in DOMAIN w /\ w[i] = d[i]
    BY <1>1, <2>1
  <2> HIDE DEF w
  <2>3. \A i \in DOMAIN d : d[i][1] # p[1]
    BY <1>3 DEF Keys
  <2>4. \A i \in DOMAIN w : i \in DOMAIN d \/ i = Len(d) + 1
    BY <1>1, <2>2
  <2>5. \A i, j \in DOMAIN w : w[i][1] = w[j][1] => i = j
    BY <2>2, <2>3, <2>4 DEF IsDict
  <2>6. IsDict(w)
    BY <2>2, <2>5 DEF IsDict
  <2>7. Len(d) + 1 \in DOMAIN w /\ \A b \in DOMAIN d : b < Len(d) + 1
    BY <1>1, <2>2
  <2> QED BY <1>3, <2>2, <2>3, <2>4, <2>6, <2>7 DEF w
<1> QED BY <1>2, <1>3

\* A dict updated with the first k pairs of s: the keys keep their places, new
\* ones come behind, and of the pairs for a key the last one has set it.
UpTo(r, s, k, w) ==
  /\ IsDict(w)
  /\ \A a \in DOMAIN r : a \in DOMAIN w /\ w[a][1] = r[a][1]
  /\ \A a \in DOMAIN w : a \notin DOMAIN r => w[a][1] \notin Keys(r) /\ \A b \in DOMAIN r : b < a
  /\ \A a \in DOMAIN w :
       \/ a \in DOMAIN r /\ w[a] = r[a] /\ \A j \in 1..k : s[j][1] # w[a][1]
       \/ \E j \in 1..k : w[a] = s[j] /\ \A h \in 1..k : s[h][1] = s[j][1] => h <= j
  /\ \A j \in 1..k : \E a \in DOMAIN w : w[a][1] = s[j][1]

LEMMA UpToNext ==
  ASSUME NEW r, NEW s, NEW k \in Nat, NEW w, IsDict(r), UpTo(r, s, k, w)
  PROVE  UpTo(r, s, k + 1, Put(w, s[k + 1]))
<1> DEFINE p == s[k + 1]
           v == Put(w, p)
<1>1. /\ IsDict(v)
      /\ \A a \in DOMAIN w : a \in DOMAIN v /\ v[a] = IF w[a][1] = p[1] THEN p ELSE w[a]
      /\ \A a \in DOMAIN v : a \notin DOMAIN w =>
           v[a] = p /\ p[1] \notin Keys(w) /\ \A b \in DOMAIN w : b < a
      /\ \E a \in DOMAIN v : v[a] = p
  BY PutFacts DEF UpTo
<1>2. \A j \in 1..(k + 1) : j \in 1..k \/ j = k + 1
  OBVIOUS
<1>3. k + 1 \in 1..(k + 1) /\ \A j \in 1..k : j \in 1..(k + 1) /\ j \in Int /\ j <= k + 1
  OBVIOUS
<1> HIDE DEF v
<1>4. \A a \in DOMAIN w : v[a][1] = w[a][1]
  BY <1>1
<1>5. \A a \in DOMAIN r : a \in DOMAIN v /\ v[a][1] = r[a][1]
  BY <1>1, <1>4 DEF UpTo
<1>6. ASSUME NEW a \in DOMAIN v, a \notin DOMAIN r
      PROVE  v[a][1] \notin Keys(r) /\ \A b \in DOMAIN r : b < a
  <2>1. CASE a \in DOMAIN w
    BY <1>4, <1>6, <2>1 DEF UpTo
  <2>2. CASE a \notin DOMAIN w
    <3>1. v[a][1] \notin Keys(w) /\ \A b \in DOMAIN w : b < a
      BY <1>1, <2>2
    <3>2. \A b \in DOMAIN r : w[b][1] = r[b][1] /\ b \in DOMAIN w
      BY DEF UpTo
    <3>3. Keys(r) \subseteq Keys(w)
      BY <3>2 DEF Keys
    <3> QED BY <3>1, <3>2, <3>3
  <2> QED BY <2>1, <2>2
<1>7. ASSUME NEW a \in DOMAIN v
      PROVE  \/ a \in DOMAIN r /\ v[a] = r[a] /\ \A j \in 1..(k + 1) : s[j][1] # v[a][1]
             \/ \E j \in 1..(k + 1) : v[a] = s[j] /\ \A h \in 1..(k + 1) : s[h][1] = s[j][1] => h <= j
  <2>1. CASE v[a] = p
    <3>1. \A h \in 1..(k + 1) : h <= k + 1
      OBVIOUS
    <3> QED BY <1>3, <2>1, <3>1
  <2>2. CASE v[a] # p
    <3>1. a \in DOMAIN w /\ v[a] = w[a] /\ w[a][1] # p[1]
      BY <1>1, <2>2
    <3>2. CASE a \in DOMAIN r /\ w[a] = r[a] /\ \A j \in 1..k : s[j][1] # w[a][1]
      BY <1>2, <3>1, <3>2
    <3>3. CASE \E j \in 1..k : w[a] = s[j] /\ \A h \in 1..k : s[h][1] = s[j][1] => h <= j
      <4>1. PICK j \in 1..k : w[a] = s[j] /\ \A h \in 1..k : s[h][1] = s[j][1] => h <= j
        BY <3>3
      <4>2. j \in 1..(k + 1) /\ \A h \in 1..(k + 1) : s[h][1] = s[j][1] => h <= j
        BY <1>2, <1>3, <3>1, <4>1
      <4> QED BY <3>1, <4>1, <4>2
    <3> QED BY <3>1, <3>2, <3>3 DEF UpTo
  <2> QED BY <2>1, <2>2
<1>8. ASSUME NEW j \in 1..(k + 1) PROVE \E a \in DOMAIN v : v[a][1] = s[j][1]
  <2>1. CASE j \in 1..k
    <3>1. PICK a \in DOMAIN w : w[a][1] = s[j][1]
      BY <2>1 DEF UpTo
    <3> QED BY <1>1, <1>4, <3>1
  <2>2. CASE j = k + 1
    BY <1>1, <2>2
  <2> QED BY <1>2, <2>1, <2>2
<1> QED BY <1>1, <1>5, <1>6, <1>7, <1>8 DEF UpTo, v

LEMMA UpdateFacts ==
  ASSUME NEW r, NEW s, IsDict(r), NEW len \in Nat, DOMAIN s = 1..len
  PROVE  UpTo(r, s, len, Update(r, s))
<1>1. PICK u : Runs("update", 0, r, s, len, u) /\ Update(r, s) = u[len]
  BY UpdateRuns
<1> DEFINE S == {i \in Nat : i <= len => UpTo(r, s, i, u[i])}
<1>2. 0 \in S
  <2>1. \A j : j \notin 1..0
    OBVIOUS
  <2>2. UpTo(r, s, 0, r)
    BY <2>1 DEF UpTo
  <2> QED BY <1>1, <2>2 DEF Runs
<1>3. ASSUME NEW i \in Nat, i \in S PROVE i + 1 \in S
  <2>1. CASE i + 1 <= len
    <3>1. UpTo(r, s, i, u[i])
      BY <1>3, <2>1
    <3>2. i + 1 \in 1..len /\ i + 1 - 1 = i
      BY <2>1
    <3>3. u[i + 1] = Put(u[i], s[i + 1])
      BY <1>1, <3>2 DEF Runs, Step
    <3>4. UpTo(r, s, i + 1, u[i + 1])
      BY <3>1, <3>3, UpToNext
    <3> QED BY <3>4
  <2>2. CASE ~(i + 1 <= len)
    BY <2>2
  <2> QED BY <2>1, <2>2
<1> HIDE DEF S
<1>4. len \in S
  BY <1>2, <1>3, SetInduction
<1> QED BY <1>1, <1>4 DEF S

-----------------------------------------------------------------------------
(* What a record says of a column.                                         *)

\* A record: its keys are names of columns in one of the two spellings.
IsRecord(m) ==
  /\ IsSeq(m)
  /\ \A i \in DOMAIN m : m[i][1] \in {Key(m[i][1].name), Caps(m[i][1].name)}

\* The last of the entries that name the column has its value.
Says(m, c, v) ==
  \/ v = Nothing /\ \A i \in DOMAIN m : m[i][1].name # c
  \/ \E i \in DOMAIN m : /\ m[i][1].name = c /\ m[i][2] = v
                         /\ \A j \in DOMAIN m : m[j][1].name = c => j <= i

\* No two keys name a column, and none is in capitals.
Folded(m) == IsDict(m) /\ \A i \in DOMAIN m : m[i][1] = Key(m[i][1].name)

LEMMA Spellings ==
  ASSUME NEW k, NEW c, k \in {Key(k.name), Caps(k.name)}
  PROVE  /\ Lower(k) = Key(k.name)
         /\ Lower(k) = Key(c) <=> k.name = c
         /\ Key(c).name = c /\ Caps(c).name = c
         /\ Key(c) # Caps(c)
<1>1. \A x, y : Key(x) = Key(y) => x = y
  BY DEF Key
<1>2. \A x : Lower(Key(x)) = Key(x) /\ Lower(Caps(x)) = Key(x)
  <2> TAKE x
  <2>1. \A b, d : [[name |-> x, caps |-> b] EXCEPT !.caps = d] = [name |-> x, caps |-> d]
    OBVIOUS
  <2> QED BY <2>1, Zenon DEF Lower, Key, Caps
<1>3. Key(c).name = c /\ Caps(c).name = c /\ Key(c).caps # Caps(c).caps
  BY DEF Key, Caps
<1> QED BY <1>1, <1>2, <1>3

LEMMA GetOf ==
  ASSUME NEW d, IsDict(d)
  PROVE  /\ \A a \in DOMAIN d : Get(d, d[a][1]) = d[a][2]
         /\ \A k : k \notin Keys(d) => Get(d, k) = Nothing
<1>1. ASSUME NEW a \in DOMAIN d PROVE Get(d, d[a][1]) = d[a][2]
  <2>1. d[a][1] \in Keys(d)
    BY DEF Keys
  <2>2. \A p : p \in ToSet(d) <=> \E b \in DOMAIN d : p = d[b]
    BY DEF ToSet
  <2>3. \A p \in ToSet(d) : p[1] = d[a][1] => p = d[a]
    BY <2>2 DEF IsDict
  <2>4. d[a] \in ToSet(d)
    BY <2>2
  <2>5. (CHOOSE p \in ToSet(d) : p[1] = d[a][1]) = d[a]
    BY <2>3, <2>4
  <2> QED BY <2>1, <2>5 DEF Get
<1>2. ASSUME NEW k, k \notin Keys(d) PROVE Get(d, k) = Nothing
  BY <1>2 DEF Get
<1> QED BY <1>1, <1>2

LEMMA FoldedGet ==
  ASSUME NEW m, NEW c, NEW v, Folded(m), Says(m, c, v)
  PROVE  Get(m, Key(c)) = v
<1>1. CASE v = Nothing /\ \A i \in DOMAIN m : m[i][1].name # c
  <2>1. \A i \in DOMAIN m : m[i][1] # Key(c)
    BY <1>1 DEF Key
  <2>2. Key(c) \notin Keys(m)
    BY <2>1 DEF Keys
  <2> QED BY <1>1, <2>2, GetOf DEF Folded
<1>2. CASE \E i \in DOMAIN m : m[i][1].name = c /\ m[i][2] = v
  <2>1. PICK i \in DOMAIN m : m[i][1].name = c /\ m[i][2] = v
    BY <1>2
  <2>2. m[i][1] = Key(c)
    BY <2>1 DEF Folded
  <2> QED BY <2>1, <2>2, GetOf DEF Folded
<1> QED BY <1>1, <1>2 DEF Says

\* The record's own values win; the stamp's are there where it has none.
LEMMA StampedSays ==
  ASSUME NEW stamp, NEW rec, Folded(stamp), IsRecord(rec),
         \A i, j \in DOMAIN rec : rec[i][1].name = rec[j][1].name => i = j,
         NEW c, NEW v,
         \/ \E j \in DOMAIN rec : rec[j][1].name = c /\ rec[j][2] = v
         \/ (\A j \in DOMAIN rec : rec[j][1].name # c) /\ Get(stamp, Key(c)) = v
  PROVE  IsRecord(Update(stamp, rec)) /\ Says(Update(stamp, rec), c, v)
<1> DEFINE u == Update(stamp, rec)
           len == Len(rec)
<1>1. len \in Nat /\ DOMAIN rec = 1..len
  BY DEF IsRecord, IsSeq
<1>2. UpTo(stamp, rec, len, u)
  BY <1>1, UpdateFacts DEF Folded
<1> HIDE DEF u, len
<1>3. /\ IsDict(u)
      /\ \A a \in DOMAIN stamp : a \in DOMAIN u /\ u[a][1] = stamp[a][1]
      /\ \A a \in DOMAIN u : a \notin DOMAIN stamp => \A b \in DOMAIN stamp : b < a
      /\ \A a \in DOMAIN u :
           \/ a \in DOMAIN stamp /\ u[a] = stamp[a] /\ \A j \in DOMAIN rec : rec[j][1] # u[a][1]
           \/ \E j \in DOMAIN rec : u[a] = rec[j]
      /\ \A j \in DOMAIN rec : \E a \in DOMAIN u : u[a][1] = rec[j][1]
  BY <1>1, <1>2 DEF UpTo
<1>4. IsSeq(u)
  BY <1>3, DictDomain DEF IsSeq
<1>5. ASSUME NEW a \in DOMAIN u PROVE u[a][1] \in {Key(u[a][1].name), Caps(u[a][1].name)}
  BY <1>3 DEF Folded, IsRecord
<1>6. CASE \E j \in DOMAIN rec : rec[j][1].name = c /\ rec[j][2] = v
  <2>1. PICK j \in DOMAIN rec : rec[j][1].name = c /\ rec[j][2] = v
    BY <1>6
  <2>2. PICK a \in DOMAIN u : u[a][1] = rec[j][1]
    BY <1>3
  <2>3. \A i \in DOMAIN rec : rec[i][1].name = c => i = j
    BY <2>1
  <2>4. u[a] = rec[j]
    BY <1>3, <2>1, <2>2, <2>3
  <2>5. ASSUME NEW b \in DOMAIN u, u[b][1].name = c PROVE b <= a
    <3>1. CASE \E i \in DOMAIN rec : u[b] = rec[i]
      <4>1. u[b][1] = u[a][1]
        BY <2>3, <2>4, <2>5, <3>1
      <4>2. b = a /\ a \in Int
        BY <1>3, <4>1, DictDomain DEF IsDict
      <4> QED BY <4>2
    <3>2. CASE b \in DOMAIN stamp /\ u[b] = stamp[b] /\ \A i \in DOMAIN rec : rec[i][1] # u[b][1]
      <4>1. stamp[b][1] = Key(c)
        BY <2>5, <3>2 DEF Folded
      <4>2. rec[j][1] # Key(c)
        BY <3>2, <4>1
      <4>3. a \notin DOMAIN stamp
        <5>1. SUFFICES ASSUME a \in DOMAIN stamp PROVE FALSE
          OBVIOUS
        <5>2. u[a][1] = Key(u[a][1].name)
          BY <1>3, <5>1 DEF Folded
        <5> QED BY <2>1, <2>2, <4>2, <5>2
      <4>4. b < a /\ a \in Int /\ b \in Int
        BY <1>3, <3>2, <4>3, DictDomain
      <4> QED BY <4>4
    <3> QED BY <1>3, <3>1, <3>2
  <2> QED BY <1>4, <1>5, <2>1, <2>4, <2>5 DEF Says, IsRecord, u
<1>7. CASE (\A j \in DOMAIN rec : rec[j][1].name # c) /\ Get(stamp, Key(c)) = v
  <2>1. \A a \in DOMAIN u : u[a][1].name = c => a \in DOMAIN stamp /\ u[a] = stamp[a] /\ u[a][1] = Key(c)
    BY <1>3, <1>7 DEF Folded
  <2>2. CASE \E a \in DOMAIN u : u[a][1].name = c
    <3>1. PICK a \in DOMAIN u : u[a][1].name = c
      BY <2>2
    <3>2. u[a] = stamp[a] /\ a \in DOMAIN stamp /\ stamp[a][1] = Key(c)
      BY <2>1, <3>1
    <3>3. u[a][2] = v
      BY <1>7, <3>2, GetOf DEF Folded
    <3>4. ASSUME NEW b \in DOMAIN u, u[b][1].name = c PROVE b <= a
      <4>1. u[b][1] = u[a][1]
        BY <2>1, <3>1, <3>4
      <4>2. b = a /\ a \in Int
        BY <1>3, <4>1, DictDomain DEF IsDict
      <4> QED BY <4>2
    <3> QED BY <1>4, <1>5, <3>1, <3>3, <3>4 DEF Says, IsRecord, u
  <2>3. CASE \A a \in DOMAIN u : u[a][1].name # c
    <3>1. \A a \in DOMAIN stamp : stamp[a][1] # Key(c)
      BY <1>3, <2>3 DEF Key
    <3>2. Key(c) \notin Keys(stamp)
      BY <3>1 DEF Keys
    <3>3. v = Nothing
      BY <1>7, <3>2, GetOf DEF Folded
    <3> QED BY <1>4, <1>5, <2>3, <3>3 DEF Says, IsRecord, u
  <2> QED BY <2>2, <2>3
<1> QED BY <1>6, <1>7

\* What a validator makes of a value of a column.
After(validator, c, v) ==
  IF validator = "mixin"
  THEN IF c = "std_dt" /\ "day" \in DOMAIN v /\ v.style # "short"
       THEN [v EXCEPT !.style = "plain"] ELSE v
  ELSE IF validator = "vendor" THEN (IF v = Blank THEN Nothing ELSE v)
  ELSE IF v = Dash THEN Nothing ELSE v

LEMMA NothingIsLeft == \A d, c : After(d, c, Nothing) = Nothing
BY DEF After, Nothing, Blank, Dash

\* A validator that goes over the values and leaves the keys alone.
LEMMA PointwiseSays ==
  ASSUME NEW m, NEW w, NEW c, NEW v, NEW x, IsRecord(m),
         DOMAIN w = DOMAIN m, Len(w) = Len(m), w = [i \in DOMAIN w |-> w[i]],
         \A i \in DOMAIN m : w[i][1] = m[i][1],
         \A i \in DOMAIN m : m[i][1].name = c /\ m[i][2] = v => w[i][2] = x,
         v = Nothing => x = Nothing, Says(m, c, v)
  PROVE  IsRecord(w) /\ Says(w, c, x) /\ (Folded(m) => Folded(w))
<1>1. IsRecord(w)
  BY DEF IsRecord, IsSeq
<1>2. Says(w, c, x)
  BY DEF Says
<1>3. ASSUME Folded(m) PROVE Folded(w)
  BY <1>3, <1>1 DEF Folded, IsDict, IsRecord, IsSeq
<1> QED BY <1>1, <1>2, <1>3

LEMMA FixStdDtSays ==
  ASSUME NEW m, NEW c, NEW v, IsRecord(m), Says(m, c, v)
  PROVE  /\ IsRecord(FixStdDt(m)) /\ Says(FixStdDt(m), c, After("mixin", c, v))
         /\ Folded(m) => Folded(FixStdDt(m))
<1> DEFINE w == FixStdDt(m)
           odd(i) == /\ Lower(m[i][1]) = Key("std_dt") /\ "day" \in DOMAIN m[i][2]
                     /\ m[i][2].style # "short"
<1>1. w = [i \in DOMAIN m |-> IF odd(i) THEN <<m[i][1], [m[i][2] EXCEPT !.style = "plain"]>> ELSE m[i]]
  BY DEF FixStdDt
<1>2. DOMAIN m = 1..Len(m) /\ Len(m) \in Nat
  BY DEF IsRecord, IsSeq
<1>3. DOMAIN w = DOMAIN m /\ Len(w) = Len(m) /\ w = [i \in DOMAIN w |-> w[i]]
  BY <1>1, <1>2
<1>4. \A i \in DOMAIN m : Lower(m[i][1]) = Key("std_dt") <=> m[i][1].name = "std_dt"
  BY Spellings DEF IsRecord
<1>5. \A i \in DOMAIN m : w[i] = IF odd(i) THEN <<m[i][1], [m[i][2] EXCEPT !.style = "plain"]>> ELSE m[i]
  BY <1>1
<1> HIDE DEF w
<1>6. ASSUME NEW i \in DOMAIN m
      PROVE  /\ w[i][1] = m[i][1]
             /\ m[i][1].name = c /\ m[i][2] = v => w[i][2] = After("mixin", c, v)
  <2>1. CASE odd(i)
    <3> DEFINE value == [m[i][2] EXCEPT !.style = "plain"]
    <3>1. w[i] = <<m[i][1], value>>
      BY <1>5, <2>1
    <3> HIDE DEF value
    <3>2. w[i][1] = m[i][1] /\ w[i][2] = value
      BY <3>1
    <3> USE DEF value
    <3>3. m[i][1].name = "std_dt" /\ "day" \in DOMAIN m[i][2] /\ m[i][2].style # "short"
      BY <1>4, <2>1
    <3> QED BY <3>2, <3>3 DEF After
  <2>2. CASE ~odd(i)
    <3>1. w[i] = m[i]
      BY <1>5, <2>2
    <3>2. ~(m[i][1].name = "std_dt" /\ "day" \in DOMAIN m[i][2] /\ m[i][2].style # "short")
      BY <1>4, <2>2
    <3> QED BY <3>1, <3>2 DEF After
  <2> QED BY <2>1, <2>2
<1>7. v = Nothing => After("mixin", c, v) = Nothing
  BY NothingIsLeft
<1> QED BY <1>3, <1>6, <1>7, PointwiseSays DEF w

LEMMA FoldMdcSays ==
  ASSUME NEW m, NEW c, NEW v, IsRecord(m), Says(m, c, v)
  PROVE  /\ IsRecord(FoldMdc(m)) /\ Says(FoldMdc(m), c, After("mdc", c, v))
         /\ Folded(m) => Folded(FoldMdc(m))
<1> DEFINE w == FoldMdc(m)
<1>1. w = [i \in DOMAIN m |-> IF m[i][2] = Dash THEN <<m[i][1], Nothing>> ELSE m[i]]
  BY DEF FoldMdc
<1>2. DOMAIN m = 1..Len(m) /\ Len(m) \in Nat
  BY DEF IsRecord, IsSeq
<1>3. DOMAIN w = DOMAIN m /\ Len(w) = Len(m) /\ w = [i \in DOMAIN w |-> w[i]]
  BY <1>1, <1>2
<1>4. \A i \in DOMAIN m : w[i] = IF m[i][2] = Dash THEN <<m[i][1], Nothing>> ELSE m[i]
  BY <1>1
<1> HIDE DEF w
<1>5. ASSUME NEW i \in DOMAIN m
      PROVE  /\ w[i][1] = m[i][1]
             /\ m[i][1].name = c /\ m[i][2] = v => w[i][2] = After("mdc", c, v)
  <2>1. CASE m[i][2] = Dash
    <3>1. w[i] = <<m[i][1], Nothing>>
      BY <1>4, <2>1
    <3>2. w[i][1] = m[i][1] /\ w[i][2] = Nothing
      BY <3>1
    <3> QED BY <2>1, <3>2 DEF After
  <2>2. CASE m[i][2] # Dash
    <3>1. w[i] = m[i]
      BY <1>4, <2>2
    <3> QED BY <2>2, <3>1 DEF After
  <2> QED BY <2>1, <2>2
<1>6. v = Nothing => After("mdc", c, v) = Nothing
  BY NothingIsLeft
<1> QED BY <1>3, <1>5, <1>6, PointwiseSays DEF w

LEMMA FoldVendorSays ==
  ASSUME NEW m, NEW c, NEW v, IsRecord(m), Says(m, c, v)
  PROVE  /\ IsRecord(FoldVendor(m)) /\ Folded(FoldVendor(m))
         /\ Says(FoldVendor(m), c, After("vendor", c, v))
<1> DEFINE s == [i \in DOMAIN m |->
                  <<Lower(m[i][1]), IF IsBlank(m[i][2]) THEN Nothing ELSE m[i][2]>>]
           u == FoldVendor(m)
           x == After("vendor", c, v)
<1>1. DOMAIN m = 1..Len(m) /\ Len(m) \in Nat /\ DOMAIN s = 1..Len(m)
  BY DEF IsRecord, IsSeq
<1>2. \A i \in DOMAIN m :
        s[i][1] = Key(m[i][1].name) /\ s[i][2] = After("vendor", m[i][1].name, m[i][2])
  BY Spellings DEF IsRecord, After, IsBlank
<1>3. \A y : Key(y).name = y
  BY DEF Key
<1>4. u = Update(<<>>, s)
  BY DEF FoldVendor
<1> HIDE DEF s, u
<1>5. UpTo(<<>>, s, Len(m), u)
  BY <1>1, <1>4, UpdateFacts, EmptyDict
<1>6. /\ IsDict(u)
      /\ \A a \in DOMAIN u : \E j \in DOMAIN m :
           u[a] = s[j] /\ \A h \in DOMAIN m : s[h][1] = s[j][1] => h <= j
      /\ \A j \in DOMAIN m : \E a \in DOMAIN u : u[a][1] = s[j][1]
  BY <1>1, <1>5, EmptyDict DEF UpTo
<1>7. \A a \in DOMAIN u : u[a][1] = Key(u[a][1].name)
  <2>1. \A j \in DOMAIN m : s[j][1] = Key(s[j][1].name)
    BY <1>2, <1>3
  <2> QED BY <1>6, <2>1
<1>8. Folded(u) /\ IsRecord(u)
  BY <1>6, <1>7, DictDomain DEF Folded, IsRecord, IsSeq
<1>9. CASE v = Nothing /\ \A i \in DOMAIN m : m[i][1].name # c
  <2>1. \A a \in DOMAIN u : u[a][1].name # c
    <3>1. \A j \in DOMAIN m : s[j][1].name # c
      BY <1>2, <1>9, <1>3
    <3> QED BY <1>6, <3>1
  <2> QED BY <1>8, <1>9, <2>1, NothingIsLeft DEF Says, u
<1>10. CASE \E i \in DOMAIN m : /\ m[i][1].name = c /\ m[i][2] = v
                               /\ \A j \in DOMAIN m : m[j][1].name = c => j <= i
  <2>1. PICK i \in DOMAIN m : /\ m[i][1].name = c /\ m[i][2] = v
                              /\ \A j \in DOMAIN m : m[j][1].name = c => j <= i
    BY <1>10
  <2>2. PICK a \in DOMAIN u : u[a][1] = s[i][1]
    BY <1>6
  <2>3. PICK j \in DOMAIN m : u[a] = s[j] /\ \A h \in DOMAIN m : s[h][1] = s[j][1] => h <= j
    BY <1>6
  <2>4. m[j][1].name = c
    <3>1. s[j][1] = s[i][1] /\ s[j][1] = Key(m[j][1].name) /\ s[i][1] = Key(c)
      BY <1>2, <2>1, <2>2, <2>3
    <3> QED BY <1>3, <3>1
  <2>5. i <= j /\ j <= i /\ i \in Int /\ j \in Int
    BY <1>1, <2>1, <2>2, <2>3, <2>4
  <2>6. u[a][1] = Key(c) /\ u[a][2] = x
    BY <1>2, <2>1, <2>3, <2>5
  <2>7. ASSUME NEW b \in DOMAIN u, u[b][1].name = c PROVE b <= a
    <3>1. u[b][1] = u[a][1]
      BY <1>7, <2>6, <2>7
    <3>2. b = a /\ a \in Int
      BY <1>6, <3>1, DictDomain DEF IsDict
    <3> QED BY <3>2
  <2>8. u[a][1].name = c
    BY <2>6 DEF Key
  <2> QED BY <1>8, <2>6, <2>7, <2>8 DEF Says, u
<1> QED BY <1>9, <1>10 DEF Says

TheValidators == {"mixin", "vendor", "mdc"}

LEMMA ValidatorSays ==
  ASSUME NEW d \in TheValidators, NEW m, NEW c, NEW v, IsRecord(m), Says(m, c, v)
  PROVE  /\ IsRecord(Validator(d, m)) /\ Says(Validator(d, m), c, After(d, c, v))
         /\ d = "vendor" \/ Folded(m) => Folded(Validator(d, m))
<1>1. CASE d = "mixin"
  BY <1>1, FixStdDtSays DEF Validator
<1>2. CASE d = "vendor"
  BY <1>2, FoldVendorSays DEF Validator
<1>3. CASE d = "mdc"
  BY <1>3, FoldMdcSays DEF Validator
<1> QED BY <1>1, <1>2, <1>3 DEF TheValidators

\* Some validator of the order turns v into w, and the others into w or leave
\* it as it is.
Turns(order, c, v, w) ==
  /\ \A d \in TheValidators : After(d, c, v) \in {v, w} /\ After(d, c, w) = w
  /\ \E at \in DOMAIN order : After(order[at], c, v) = w

IsOrder(order) ==
  /\ IsSeq(order) /\ \A i \in DOMAIN order : order[i] \in TheValidators
  /\ \E i \in DOMAIN order : order[i] = "vendor"

LEMMA ValidatedSays ==
  ASSUME NEW m, NEW order, NEW c, NEW v, NEW w,
         IsRecord(m), Says(m, c, v), IsOrder(order), Turns(order, c, v, w)
  PROVE  Get(Validated(m, order), Key(c)) = w
<1>1. PICK at \in DOMAIN order, vendor \in DOMAIN order :
        After(order[at], c, v) = w /\ order[vendor] = "vendor"
  BY DEF IsOrder, Turns
<1>2. \A i \in DOMAIN order : /\ order[i] \in TheValidators
                              /\ After(order[i], c, v) \in {v, w} /\ After(order[i], c, w) = w
  BY DEF IsOrder, Turns
<1> DEFINE len == Len(order)
<1>3. len \in Nat /\ DOMAIN order = 1..len
  BY DEF IsSeq, IsOrder
<1> HIDE DEF len
<1>4. PICK u : Runs("validated", 0, m, order, len, u) /\ Validated(m, order) = u[len]
  BY <1>3, ValidatedRuns
<1> DEFINE P(i) == /\ IsRecord(u[i])
                   /\ \E x \in {v, w} : Says(u[i], c, x) /\ (at <= i => x = w)
                   /\ vendor <= i => Folded(u[i])
           S == {i \in Nat : i <= len => P(i)}
<1>5. 0 \in S
  <2>1. ~(at <= 0) /\ ~(vendor <= 0)
    BY <1>3
  <2> QED BY <1>4, <2>1 DEF Runs
<1>6. ASSUME NEW i \in Nat, i \in S PROVE i + 1 \in S
  <2>1. CASE i + 1 <= len
    <3>1. P(i)
      BY <1>3, <1>6, <2>1
    <3>2. i + 1 \in 1..len /\ i + 1 - 1 = i
      BY <2>1
    <3>3. u[i + 1] = Validator(order[i + 1], u[i])
      BY <1>4, <3>2 DEF Runs, Step
    <3>4. PICK x \in {v, w} : Says(u[i], c, x) /\ (at <= i => x = w)
      BY <3>1
    <3>5. /\ IsRecord(u[i + 1]) /\ Says(u[i + 1], c, After(order[i + 1], c, x))
          /\ order[i + 1] = "vendor" \/ Folded(u[i]) => Folded(u[i + 1])
      BY <1>3, <1>2, <3>1, <3>2, <3>3, <3>4, ValidatorSays
    <3>6. /\ After(order[i + 1], c, x) \in {v, w}
          /\ at <= i + 1 => After(order[i + 1], c, x) = w
      <4>1. at <= i + 1 => at <= i \/ at = i + 1
        BY <1>3
      <4>2. After(order[i + 1], c, v) \in {v, w} /\ After(order[i + 1], c, w) = w
        BY <1>3, <1>2, <3>2
      <4> QED BY <1>1, <3>4, <4>1, <4>2
    <3>7. vendor <= i + 1 => vendor <= i \/ vendor = i + 1
      BY <1>3
    <3>8. vendor <= i + 1 => Folded(u[i + 1])
      BY <1>1, <3>1, <3>5, <3>7
    <3>9. P(i + 1)
      BY <3>5, <3>6, <3>8
    <3> QED BY <3>9
  <2>2. CASE ~(i + 1 <= len)
    BY <2>2
  <2> QED BY <2>1, <2>2
<1> HIDE DEF P
<1>7. len \in S
  <2> HIDE DEF S
  <2> QED BY <1>3, <1>5, <1>6, SetInduction
<1>8. P(len)
  BY <1>3, <1>7
<1>9. at <= len /\ vendor <= len
  BY <1>3
<1>10. Folded(u[len]) /\ Says(u[len], c, w)
  BY <1>8, <1>9 DEF P
<1> QED BY <1>4, <1>10, FoldedGet

-----------------------------------------------------------------------------
(* Rows.                                                                   *)

Meaning(v) ==
  IF v \in {Blank, Dash} THEN Nothing
  ELSE IF "day" \in DOMAIN v /\ v.style # "short" THEN [v EXCEPT !.style = "plain"] ELSE v

\* What Suits asks for a value of a column, the job's parameters included.
SuitsValue(order, c, v) ==
  /\ "vendor" \in ToSet(order)
  /\ v = Dash => "mdc" \in ToSet(order)
  /\ "day" \in DOMAIN v =>
       /\ v = Day(v.day, v.style)
       /\ v.style \in {"plain", "short"} \/ (c = "std_dt" /\ "mixin" \in ToSet(order))

\* A cell, or a job's parameter, ends as what it means.
LEMMA CellEnds ==
  ASSUME NEW order, NEW c, NEW v, SuitsValue(order, c, v),
         NEW sent, sent = v \/ (v = Blank /\ sent = Nothing),
         NEW w, w = Meaning(v)
  PROVE  Turns(order, c, sent, w)
<1> USE DEF Meaning, SuitsValue, Turns
<1>1. \A d : d \in ToSet(order) => \E at \in DOMAIN order : order[at] = d
  BY DEF ToSet
<1>2. DOMAIN Nothing = {"is"} /\ DOMAIN Blank = {"is"} /\ DOMAIN Dash = {"is"}
      /\ Nothing.is = "none" /\ Blank.is = "blank" /\ Dash.is = "dash"
  BY DEF Nothing, Blank, Dash
<1>3. PICK at \in DOMAIN order : order[at] = "vendor"
  BY <1>1
<1>4. \A d \in TheValidators : d = "mixin" \/ d = "vendor" \/ d = "mdc"
  BY DEF TheValidators
<1>5. CASE v = Blank
  <2>1. w = Nothing
    BY <1>5
  <2>2. sent = Blank \/ sent = Nothing
    BY <1>5
  <2>3. "day" \notin DOMAIN sent /\ sent # Dash
    BY <1>2, <2>2
  <2> QED BY <1>3, <1>4, <2>1, <2>2, <2>3, NothingIsLeft DEF After
<1>6. CASE v = Dash
  <2>1. w = Nothing /\ sent = Dash /\ "day" \notin DOMAIN sent /\ sent # Blank
    BY <1>2, <1>6
  <2>2. PICK mdc \in DOMAIN order : order[mdc] = "mdc"
    BY <1>1, <1>6
  <2> QED BY <1>4, <2>1, <2>2, NothingIsLeft DEF After
<1>7. CASE v # Blank /\ v # Dash /\ "day" \notin DOMAIN v
  <2>1. w = v /\ sent = v
    BY <1>7
  <2> QED BY <1>3, <1>4, <1>7, <2>1 DEF After
<1>8. CASE v # Blank /\ v # Dash /\ "day" \in DOMAIN v
  <2>1. sent = v
    BY <1>8
  <2>2. \A x, y : /\ [Day(x, y) EXCEPT !.style = "plain"] = Day(x, "plain")
                  /\ "day" \in DOMAIN Day(x, y) /\ Day(x, y).style = y
    BY DEF Day
  <2>3. \A x, y : Day(x, y) # Blank /\ Day(x, y) # Dash
    BY <1>2, <2>2
  <2>4. PICK x, y : v = Day(x, y)
    BY <1>8
  <2>5. CASE y = "short"
    <3>1. w = v
      BY <1>8, <2>2, <2>4, <2>5
    <3> QED BY <1>3, <1>4, <1>8, <2>1, <2>2, <2>4, <2>5, <3>1 DEF After
  <2>6. CASE y = "plain"
    <3>1. w = v
      BY <1>8, <2>2, <2>4, <2>6
    <3>2. [v EXCEPT !.style = "plain"] = v
      BY <2>2, <2>4, <2>6
    <3> QED BY <1>3, <1>4, <1>8, <2>1, <3>1, <3>2 DEF After
  <2>7. CASE y # "short" /\ y # "plain"
    <3>1. c = "std_dt" /\ "mixin" \in ToSet(order)
      BY <1>8, <2>2, <2>4, <2>7
    <3>2. PICK mixin \in DOMAIN order : order[mixin] = "mixin"
      BY <1>1, <3>1
    <3>3. w = Day(x, "plain") /\ [v EXCEPT !.style = "plain"] = Day(x, "plain")
      BY <1>8, <2>2, <2>4, <2>7
    <3>4. After("mixin", c, sent) = w
      BY <1>8, <2>1, <2>2, <2>4, <2>7, <3>1, <3>3 DEF After
    <3>5. w # Blank /\ w # Dash /\ [w EXCEPT !.style = "plain"] = w
      BY <2>2, <2>3, <3>3
    <3>6. \A d \in TheValidators : After(d, c, w) = w
      BY <1>4, <3>5 DEF After
    <3>7. \A d \in TheValidators : After(d, c, sent) \in {sent, w}
      BY <1>4, <1>8, <2>1, <3>4 DEF After
    <3> QED BY <3>2, <3>4, <3>6, <3>7
  <2> QED BY <2>5, <2>6, <2>7
<1> QED BY <1>5, <1>6, <1>7, <1>8

\* A stamp has the columns' names as keys, each once, and parameters as values.
LEMMA StampFacts ==
  ASSUME NEW job, job.id[1] \in DOMAIN KeyParams,
         \A k \in DOMAIN job.params : IsParameter(job.params[k])
  PROVE  /\ Folded(Stamp(job))
         /\ \A a \in DOMAIN Stamp(job) : IsParameter(Stamp(job)[a][2])
<1> DEFINE s == KeyParams[job.id[1]]
           len == Len(s)
           P(d) == Folded(d) /\ \A a \in DOMAIN d : IsParameter(d[a][2])
<1>1. len \in Nat /\ DOMAIN s = 1..len
  BY BuildersAssumption DEF IsSeq
<1> HIDE DEF len
<1>2. PICK u : Runs("stamp", job.params, <<>>, s, len, u) /\ Stamp(job) = u[len]
  BY <1>1, StampRuns
<1> HIDE DEF s
<1>3. ASSUME NEW d, NEW col, NEW v, P(d), IsParameter(v) PROVE P(Put(d, <<Key(col), v>>))
  <2> DEFINE p == <<Key(col), v>>
             w == Put(d, p)
  <2>1. p[1] = Key(col) /\ p[2] = v /\ Key(col).name = col
    BY DEF Key
  <2> HIDE DEF p
  <2>2. IsDict(w) /\ \A a \in DOMAIN w : w[a] = p \/ (a \in DOMAIN d /\ w[a] = d[a])
    BY <1>3, PutFacts DEF Folded
  <2> HIDE DEF w
  <2>3. \A a \in DOMAIN w : w[a][1] = Key(w[a][1].name) /\ IsParameter(w[a][2])
    BY <1>3, <2>1, <2>2 DEF Folded
  <2> QED BY <2>2, <2>3 DEF Folded, w, p
<1> DEFINE S == {i \in Nat : i <= len => P(u[i])}
<1>4. 0 \in S
  BY <1>2, EmptyDict DEF Runs, Folded
<1>5. ASSUME NEW i \in Nat, i \in S PROVE i + 1 \in S
  <2>1. CASE i + 1 <= len
    <3>1. P(u[i])
      BY <1>1, <1>5, <2>1
    <3>2. i + 1 \in 1..len /\ i + 1 - 1 = i
      BY <2>1
    <3> DEFINE e == s[i + 1]
    <3>3. u[i + 1] = IF e.column # NoColumn /\ e.key # Now /\ e.key \in DOMAIN job.params
                     THEN Put(u[i], <<Key(e.column), job.params[e.key]>>) ELSE u[i]
      BY <1>2, <3>2 DEF Runs, Step
    <3> HIDE DEF e, P
    <3>4. CASE e.key \in DOMAIN job.params
      <4>1. IsParameter(job.params[e.key])
        BY <3>4
      <4>2. P(Put(u[i], <<Key(e.column), job.params[e.key]>>))
        BY <1>3, <3>1, <4>1
      <4> QED BY <3>1, <3>3, <4>2
    <3>5. CASE e.key \notin DOMAIN job.params
      BY <3>1, <3>3, <3>5
    <3> QED BY <3>4, <3>5
  <2>2. CASE ~(i + 1 <= len)
    BY <2>2
  <2> QED BY <2>1, <2>2
<1> HIDE DEF P
<1>6. len \in S
  <2> HIDE DEF S
  <2> QED BY <1>1, <1>4, <1>5, SetInduction
<1>7. P(Stamp(job))
  BY <1>1, <1>2, <1>6
<1> QED BY <1>7 DEF P

LEMMA ColumnEnds ==
  ASSUME NEW stamp, Folded(stamp), \A a \in DOMAIN stamp : IsParameter(stamp[a][2]),
         NEW record, NEW row, Holds(record, row), NEW order, Suits(order, row), NEW c
  PROVE  Get(Row(record, stamp, order), Key(c)) = Meant(row, c, stamp)
<1> DEFINE v == IF c \in DOMAIN row THEN row[c] ELSE Get(stamp, Key(c))
           w == Meant(row, c, stamp)
<1>1. /\ IsSeq(order) /\ "vendor" \in ToSet(order)
      /\ \A i \in DOMAIN order : order[i] \in TheValidators
  BY DEF Suits, ToSet, TheValidators
<1>2. IsRecord(record)
  <2>1. \A x : Key(x).name = x /\ Caps(x).name = x
    BY DEF Key, Caps
  <2> QED BY <2>1 DEF Holds, IsRecord
<1>3. v = Nothing \/ IsParameter(v) \/ (c \in DOMAIN row /\ v = row[c])
  <2>1. CASE c \in DOMAIN row
    BY <2>1
  <2>2. CASE c \notin DOMAIN row /\ Key(c) \in Keys(stamp)
    <3>1. PICK a \in DOMAIN stamp : stamp[a][1] = Key(c)
      BY <2>2 DEF Keys
    <3>2. v = stamp[a][2]
      BY <2>2, <3>1, GetOf DEF Folded
    <3> HIDE DEF v
    <3> QED BY <3>2
  <2>3. CASE c \notin DOMAIN row /\ Key(c) \notin Keys(stamp)
    BY <2>3 DEF Get
  <2> QED BY <2>1, <2>2, <2>3
<1>4. SuitsValue(order, c, v)
  <2> USE <1>1 DEF SuitsValue
  <2> HIDE DEF v
  <2>1. CASE v = Nothing
    <3>1. DOMAIN Nothing = {"is"} /\ Nothing # Dash
      BY DEF Nothing, Dash
    <3> QED BY <2>1, <3>1
  <2>2. CASE IsParameter(v)
    <3>1. \A x, y : Day(x, y).style = y
      BY DEF Day
    <3>2. ASSUME "day" \in DOMAIN v PROVE v = Day(v.day, v.style) /\ v.style = "plain"
      <4>1. v = Day(v.day, "plain")
        BY <2>2, <3>2 DEF IsParameter
      <4>2. v.style = "plain"
        BY <3>1, <4>1
      <4> QED BY <4>1, <4>2
    <3> QED BY <2>2, <3>2 DEF IsParameter
  <2>3. CASE c \in DOMAIN row /\ v = row[c]
    BY <2>3 DEF Suits
  <2> QED BY <1>3, <2>1, <2>2, <2>3
<1>5. \E sent : /\ sent = v \/ (v = Blank /\ sent = Nothing)
                /\ \/ \E j \in DOMAIN record : record[j][1].name = c /\ record[j][2] = sent
                   \/ (\A j \in DOMAIN record : record[j][1].name # c) /\ Get(stamp, Key(c)) = sent
  <2>1. CASE c \in DOMAIN row
    <3>1. PICK j \in DOMAIN record : record[j][1].name = c
      BY <2>1 DEF Holds
    <3>2. record[j][2] = IF row[c] = Blank /\ record[j][2] # Blank THEN Nothing ELSE row[c]
      BY <3>1 DEF Holds
    <3> QED BY <2>1, <3>1, <3>2
  <2>2. CASE c \notin DOMAIN row
    <3>1. \A j \in DOMAIN record : record[j][1].name # c
      BY <2>2 DEF Holds
    <3> QED BY <2>2, <3>1
  <2> QED BY <2>1, <2>2
<1>6. w = Meaning(v)
  BY DEF Meant, Meaning
<1> HIDE DEF v, w
<1>7. PICK sent : /\ sent = v \/ (v = Blank /\ sent = Nothing)
                  /\ \/ \E j \in DOMAIN record : record[j][1].name = c /\ record[j][2] = sent
                     \/ (\A j \in DOMAIN record : record[j][1].name # c) /\ Get(stamp, Key(c)) = sent
  BY <1>5
<1>8. Turns(order, c, sent, w)
  BY <1>4, <1>6, <1>7, CellEnds
<1>9. IsRecord(Update(stamp, record)) /\ Says(Update(stamp, record), c, sent)
  <2>1. \A i, j \in DOMAIN record : record[i][1].name = record[j][1].name => i = j
    BY DEF Holds
  <2> QED BY <1>2, <1>7, <2>1, StampedSays
<1> DEFINE m == Update(stamp, record)
<1> HIDE DEF m
<1>10. IsRecord(m) /\ Says(m, c, sent)
  BY <1>9 DEF m
<1>11. IsOrder(order)
  BY <1>1 DEF IsOrder, ToSet
<1>12. Get(Validated(m, order), Key(c)) = w
  BY <1>8, <1>10, <1>11, ValidatedSays
<1> QED BY <1>12 DEF Row, m, w

-----------------------------------------------------------------------------
(* Jobs and their parameters.                                              *)

ParamsInv ==
  \A j \in jobs : /\ j.id[1] \in DOMAIN KeyParams
                  /\ \A k \in DOMAIN j.params : IsParameter(j.params[k])

LEMMA DaysAreParameters == \A t : IsParameter(Day(t, "plain"))
<1>1. \A t : /\ Day(t, "plain").day = t /\ "day" \in DOMAIN Day(t, "plain")
  BY DEF Day
<1>2. "day" \notin DOMAIN Dash
  BY DEF Dash
<1> QED BY <1>1, <1>2 DEF IsParameter

LEMMA AxisParams ==
  ASSUME NEW b \in DOMAIN Builders, NEW i \in DOMAIN Builders[b].axes, NEW answers,
         Builders[b].axes[i].from = "db" =>
           answers[Builders[b].axes[i].query] \in Answers[Builders[b].axes[i].query],
         ~AxisRaises(Builders[b].axes[i], answers)
  PROVE  LET axis == Axis(Builders[b].axes[i], answers) IN
         \A p \in Nat : p >= 1 /\ p <= Len(axis) =>
           \A k \in DOMAIN axis[p] : IsParameter(axis[p][k])
<1> DEFINE e == Builders[b].axes[i]
           axis == Axis(e, answers)
<1>1. \/ e.from = "db" /\ e.query \in DOMAIN Answers /\ IsSeq(e.keys)
      \/ e.from = "date"
      \/ e.from = "literal" /\ IsParameter(e.value)
  BY BuildersAssumption
<1>2. e.from = "db" => answers[e.query] \in Answers[e.query]
  OBVIOUS
<1> HIDE DEF e
<1> SUFFICES ASSUME NEW p \in Nat, p >= 1, p <= Len(axis), NEW k \in DOMAIN axis[p]
             PROVE  IsParameter(axis[p][k])
  BY DEF e
<1>3. CASE e.from = "db" /\ e.query \in DOMAIN Answers /\ IsSeq(e.keys)
  <2> DEFINE rows == answers[e.query]
             at(x) == CHOOSE q \in DOMAIN e.keys : e.keys[q] = x
  <2>1. rows \in Answers[e.query]
    BY <1>2, <1>3
  <2>2. /\ Len(rows) \in Nat /\ DOMAIN rows = 1..Len(rows)
        /\ \A h \in DOMAIN rows :
             /\ Len(rows[h]) \in Nat /\ DOMAIN rows[h] = 1..Len(rows[h])
             /\ \A q \in DOMAIN rows[h] : IsParameter(rows[h][q])
    BY <1>3, <2>1, BuildersAssumption DEF IsSeq
  <2>3. \A h \in DOMAIN rows : ~(Len(rows[h]) < Len(e.keys))
    BY <1>3 DEF AxisRaises, e
  <2>4. axis = [h \in DOMAIN rows |-> [x \in ToSet(e.keys) |-> rows[h][at(x)]]]
    BY <1>3 DEF Axis
  <2> HIDE DEF rows
  <2>5. Len(axis) = Len(rows)
    BY <2>2, <2>4
  <2>6. p \in DOMAIN rows
    BY <2>2, <2>5
  <2>7. axis[p] = [x \in ToSet(e.keys) |-> rows[p][at(x)]]
    BY <2>4, <2>6
  <2> HIDE DEF axis
  <2>8. k \in ToSet(e.keys) /\ axis[p][k] = rows[p][at(k)]
    BY <2>7
  <2>9. at(k) \in DOMAIN e.keys
    BY <2>8 DEF ToSet
  <2> HIDE DEF at
  <2>10. at(k) \in DOMAIN rows[p]
    BY <1>3, <2>2, <2>3, <2>6, <2>9 DEF IsSeq
  <2> QED BY <2>2, <2>6, <2>8, <2>10
<1>4. CASE e.from = "date"
  <2> DEFINE d == Day(ResolveDate(e.word, date), "plain")
  <2>1. axis = << [x \in {e.keys[1]} |-> d] >>
    BY <1>4 DEF Axis
  <2>2. IsParameter(d)
    BY DaysAreParameters
  <2> HIDE DEF d
  <2>3. p = 1
    BY <2>1
  <2>4. axis[p] = [x \in {e.keys[1]} |-> d]
    BY <2>1, <2>3
  <2> HIDE DEF axis
  <2> QED BY <2>2, <2>4
<1>5. CASE e.from = "literal" /\ IsParameter(e.value)
  <2>1. axis = << [x \in {e.keys[1]} |-> e.value] >>
    BY <1>5 DEF Axis
  <2>2. p = 1
    BY <2>1
  <2>3. axis[p] = [x \in {e.keys[1]} |-> e.value]
    BY <2>1, <2>2
  <2> HIDE DEF axis
  <2> QED BY <1>5, <2>3
<1> QED BY <1>1, <1>3, <1>4, <1>5

LEMMA MergedParams ==
  ASSUME NEW len \in Nat, NEW combo, DOMAIN combo = 1..len,
         \A i \in DOMAIN combo : \A k \in DOMAIN combo[i] : IsParameter(combo[i][k])
  PROVE  \A k \in DOMAIN Merged(combo) : IsParameter(Merged(combo)[k])
<1> TAKE k \in DOMAIN Merged(combo)
<1> DEFINE with == {i \in DOMAIN combo : k \in DOMAIN combo[i]}
<1>1. k \in UNION {DOMAIN combo[i] : i \in DOMAIN combo}
  BY DEF Merged
<1>2. Merged(combo)[k] = combo[Max(with)][k]
  BY <1>1 DEF Merged
<1>3. with \in SUBSET (1..len) /\ with # {}
  BY <1>1
<1> HIDE DEF with
<1>4. Max(with) \in with
  BY <1>3, MaxOf
<1>5. Max(with) \in DOMAIN combo /\ k \in DOMAIN combo[Max(with)]
  BY <1>4 DEF with
<1> QED BY <1>2, <1>5

LEMMA BuildParams ==
  ASSUME ParamsInv, NEW b \in DOMAIN Builders, Build(b)
  PROVE  ParamsInv'
<1> DEFINE builder == Builders[b]
           queries == {builder.axes[i].query :
                        i \in {k \in DOMAIN builder.axes : builder.axes[k].from = "db"}}
<1>1. PICK answers :
        LET axes   == [i \in DOMAIN builder.axes |-> Axis(builder.axes[i], answers)]
            combos == Product(axes)
            new    == {[id |-> JobId(b, builder.api, Merged(c)), params |-> Merged(c)] : c \in combos}
            old    == {j.id : j \in jobs}
            kept   == {CHOOSE p \in new : p.id = i : i \in {p.id : p \in new} \ old} IN
        /\ \A q \in queries : answers[q] \in Answers[q]
        /\ IF \/ \E i \in DOMAIN builder.axes : AxisRaises(builder.axes[i], answers)
              \/ \E c \in combos : KeyMissing(builder.api, Merged(c))
              \/ Ambiguous(new)
           THEN built' = NoBuild /\ UNCHANGED <<jobs, met>>
           ELSE /\ jobs' = jobs \cup kept
                /\ met' = met \cup {p.id : p \in new}
                /\ built' = [api |-> builder.api, combos |-> combos]
  BY DEF Build
<1> DEFINE axes   == [i \in DOMAIN builder.axes |-> Axis(builder.axes[i], answers)]
           combos == Product(axes)
           new    == {[id |-> JobId(b, builder.api, Merged(c)), params |-> Merged(c)] : c \in combos}
           old    == {j.id : j \in jobs}
           kept   == {CHOOSE p \in new : p.id = i : i \in {p.id : p \in new} \ old}
<1>2. CASE UNCHANGED jobs
  BY <1>2 DEF ParamsInv
<1>3. CASE /\ ~(\E i \in DOMAIN builder.axes : AxisRaises(builder.axes[i], answers))
           /\ jobs' = jobs \cup kept
  <2> DEFINE len == Len(builder.axes)
  <2>1. len \in Nat /\ DOMAIN builder.axes = 1..len /\ builder.api \in DOMAIN KeyParams
    BY BuildersAssumption DEF IsSeq
  <2>2. ASSUME NEW i \in DOMAIN builder.axes
        PROVE  \A p \in Nat : p >= 1 /\ p <= Len(axes[i]) =>
                 \A k \in DOMAIN axes[i][p] : IsParameter(axes[i][p][k])
    <3>1. builder.axes[i].from = "db" => answers[builder.axes[i].query] \in Answers[builder.axes[i].query]
      BY <1>1
    <3>2. ~AxisRaises(builder.axes[i], answers)
      BY <1>3
    <3>3. axes[i] = Axis(builder.axes[i], answers)
      OBVIOUS
    <3> HIDE DEF axes
    <3> QED BY <3>1, <3>2, <3>3, AxisParams
  <2>3. DOMAIN axes = DOMAIN builder.axes
    OBVIOUS
  <2> HIDE DEF axes
  <2>4. ASSUME NEW c \in combos
        PROVE  /\ DOMAIN c = 1..len
               /\ \A i \in DOMAIN c : \A k \in DOMAIN c[i] : IsParameter(c[i][k])
    <3> DEFINE longest == Max({Len(axes[i]) : i \in DOMAIN axes})
    <3>1. PICK f \in [DOMAIN axes -> 1..longest] :
            /\ \A i \in DOMAIN axes : f[i] <= Len(axes[i])
            /\ c = [i \in DOMAIN axes |-> axes[i][f[i]]]
      BY <2>4 DEF Product
    <3> HIDE DEF longest, combos
    <3>2. \A i \in DOMAIN axes : f[i] \in Nat /\ f[i] >= 1
      BY <3>1
    <3>3. DOMAIN c = DOMAIN axes /\ \A i \in DOMAIN c : c[i] = axes[i][f[i]]
      BY <3>1
    <3> QED BY <2>1, <2>2, <2>3, <3>1, <3>2, <3>3
  <2>5. \A p \in new : /\ p.id[1] = builder.api
                       /\ \A k \in DOMAIN p.params : IsParameter(p.params[k])
    <3> SUFFICES ASSUME NEW c \in combos
                 PROVE  /\ JobId(b, builder.api, Merged(c))[1] = builder.api
                        /\ \A k \in DOMAIN Merged(c) : IsParameter(Merged(c)[k])
      OBVIOUS
    <3>1. JobId(b, builder.api, Merged(c))[1] = builder.api
      BY DEF JobId
    <3>2. \A k \in DOMAIN Merged(c) : IsParameter(Merged(c)[k])
      BY <2>1, <2>4, MergedParams
    <3> QED BY <3>1, <3>2
  <2> HIDE DEF new
  <2>6. kept \subseteq new
    OBVIOUS
  <2> HIDE DEF kept, builder
  <2> QED BY <1>3, <2>1, <2>5, <2>6 DEF ParamsInv
<1> QED BY <1>1, <1>2, <1>3

RowsInv == ParamsInv /\ RowsAsMeant

LEMMA ExecuteKeeps ==
  ASSUME ParamsInv, NEW j \in jobs, Execute(j)
  PROVE  RowsAsMeant'
<1> DEFINE stamp == Stamp(j)
<1>1. PICK r \in Replies, order \in UNION {Validators[m] : m \in DOMAIN Validators} :
        LET records == Parse(r.doc, r.spec)
            rows == [i \in DOMAIN records |-> Columns(Row(records[i], stamp, order), Fields)] IN
        /\ order \in Validators[r.model]
        /\ \/ saved' = NoRows
           \/ saved' = [table |-> r.table, stamp |-> stamp, rows |-> rows]
  BY DEF Execute
<1> DEFINE records == Parse(r.doc, r.spec)
           rows == [i \in DOMAIN records |-> Columns(Row(records[i], stamp, order), Fields)]
<1>2. CASE saved' = NoRows
  BY <1>2 DEF RowsAsMeant
<1>3. CASE saved' = [table |-> r.table, stamp |-> stamp, rows |-> rows]
  <2>1. Folded(stamp) /\ \A a \in DOMAIN stamp : IsParameter(stamp[a][2])
    BY StampFacts DEF ParamsInv
  <2> HIDE DEF stamp
  <2>2. /\ DOMAIN records = DOMAIN r.table
        /\ \A i \in DOMAIN r.table : Holds(records[i], r.table[i]) /\ Suits(order, r.table[i])
    BY <1>1, RepliesAssumption
  <2> HIDE DEF records
  <2>3. ASSUME NEW i \in DOMAIN r.table
        PROVE  Columns(Row(records[i], stamp, order), Fields)
                 = [c \in Fields |-> Meant(r.table[i], c, stamp)]
    <3>1. \A c \in Fields :
            Get(Row(records[i], stamp, order), Key(c)) = Meant(r.table[i], c, stamp)
      BY <2>1, <2>2, ColumnEnds
    <3> QED BY <3>1 DEF Columns
  <2>4. rows = [i \in DOMAIN r.table |-> [c \in Fields |-> Meant(r.table[i], c, stamp)]]
    BY <2>2, <2>3
  <2>5. saved'.table = r.table /\ saved'.stamp = stamp /\ saved'.rows = rows
    BY <1>3
  <2> HIDE DEF rows
  <2> QED BY <2>4, <2>5 DEF RowsAsMeant
<1> QED BY <1>1, <1>2, <1>3

\* Whatever a table is wrapped in, the rows saved are the source's rows in the
\* source's order, with the job's values where it sends none.
THEOREM RowsSavedAsMeant == Spec => []RowsAsMeant
<1>1. Init => RowsInv
  BY DEF Init, RowsInv, ParamsInv, RowsAsMeant
<1>2. RowsInv /\ [Next]_vars => RowsInv'
  <2> SUFFICES ASSUME RowsInv, [Next]_vars PROVE RowsInv'
    OBVIOUS
  <2>1. CASE Minute
    BY <2>1 DEF Minute, RowsInv, ParamsInv, RowsAsMeant
  <2>2. CASE NextDay
    BY <2>2 DEF NextDay, RowsInv, ParamsInv, RowsAsMeant
  <2>3. ASSUME NEW b \in DOMAIN Builders, Build(b) PROVE RowsInv'
    <3>1. ParamsInv'
      BY <2>3, BuildParams DEF RowsInv
    <3>2. saved' = NoRows
      BY <2>3 DEF Build
    <3> QED BY <3>1, <3>2 DEF RowsInv, RowsAsMeant
  <2>4. ASSUME NEW j \in jobs, Execute(j) PROVE RowsInv'
    <3>1. RowsAsMeant'
      BY <2>4, ExecuteKeeps DEF RowsInv
    <3>2. jobs' = jobs
      BY <2>4 DEF Execute
    <3> QED BY <3>1, <3>2 DEF RowsInv, ParamsInv
  <2>5. CASE UNCHANGED vars
    BY <2>5 DEF vars, RowsInv, ParamsInv, RowsAsMeant
  <2> QED BY <2>1, <2>2, <2>3, <2>4, <2>5 DEF Next
<1>3. RowsInv => RowsAsMeant
  BY DEF RowsInv
<1> QED BY <1>1, <1>2, <1>3, PTL DEF Spec

-----------------------------------------------------------------------------
(* The reader of grids.                                                    *)

LEMMA MinOfTwo ==
  ASSUME NEW a \in Int, NEW b \in Int, a <= b
  PROVE  Min({a, b}) = a /\ Min({b, a}) = a
<1>1. {b, a} = {a, b}
  OBVIOUS
<1>2. a \in {a, b} /\ \A y \in {a, b} : a <= y
  OBVIOUS
<1>3. Min({a, b}) \in {a, b} /\ \A y \in {a, b} : Min({a, b}) <= y
  BY <1>2 DEF Min
<1>4. Min({a, b}) <= a /\ a <= Min({a, b}) /\ Min({a, b}) \in Int
  BY <1>2, <1>3
<1> QED BY <1>1, <1>4

\* Where the data of a grid begins, and what its columns are called.
Above(spec)       == IF spec.header THEN spec.skip + 1 ELSE spec.skip
Titles(rows, spec) ==
  IF spec.header /\ spec.fields = <<>> THEN rows[spec.skip + 1] ELSE spec.fields

\* The rows of a table, one under the other below what is skipped, a cell for
\* each column up to the last the row has.
Shows(rows, spec, table) ==
  LET fields == Titles(rows, spec)
      cells(i) == rows[Above(spec) + i] IN
  /\ spec.skip \in Nat /\ spec.header \in BOOLEAN
  /\ IsSeq(table) /\ Len(rows) = Above(spec) + Len(table)
  /\ IsSeq(fields)
  /\ \A j \in DOMAIN fields : fields[j] \in {Key(fields[j].name), Caps(fields[j].name)}
  /\ \A j, k \in DOMAIN fields : fields[j].name = fields[k].name => j = k
  /\ \A i \in DOMAIN table :
       /\ IsSeq(cells(i)) /\ Len(cells(i)) <= Len(fields)
       /\ DOMAIN table[i] = {fields[j].name : j \in DOMAIN cells(i)}
       /\ \A j \in DOMAIN cells(i) : table[i][fields[j].name] = cells(i)[j]

\* What is left below the skipped rows, and below the header.
Body(rows, spec) == SubSeq(rows, spec.skip + 1, Len(rows))
Data(rows, spec) ==
  IF spec.header /\ Body(rows, spec) # <<>> THEN Tail(Body(rows, spec)) ELSE Body(rows, spec)

LEMMA DataOf ==
  ASSUME NEW S, NEW rows \in Seq(S), NEW spec, spec.skip \in Nat, spec.header \in BOOLEAN,
         NEW len \in Nat, Len(rows) = Above(spec) + len
  PROVE  /\ DOMAIN Data(rows, spec) = 1..len
         /\ \A i \in 1..len : Data(rows, spec)[i] = rows[Above(spec) + i]
         /\ spec.header => Body(rows, spec) # <<>> /\ Head(Body(rows, spec)) = rows[spec.skip + 1]
<1> DEFINE k == spec.skip
           body == Body(rows, spec)
           m == Len(rows)
<1>1. /\ k \in Nat /\ m \in Nat /\ len \in Nat /\ m = Above(spec) + len
      /\ Above(spec) = IF spec.header THEN k + 1 ELSE k
  BY DEF Above
<1>2. body = SubSeq(rows, k + 1, m)
  BY DEF Body
<1>3. rows \in Seq(S) /\ Len(rows) = m
  OBVIOUS
<1> HIDE DEF k, m, body
<1>4. /\ k + 1 \in 1..(m + 1) /\ m \in 0..m
      /\ m - (k + 1) + 1 = m - k /\ \A i \in Int : (k + 1) + i - 1 = k + i
  BY <1>1
<1>5. /\ body \in Seq(S) /\ Len(body) = m - k
      /\ \A i \in 1..(m - k) : body[i] = rows[k + i]
  BY <1>1, <1>2, <1>3, <1>4, SubSeqProperties
<1>6. CASE spec.header
  <2>1. Len(body) = len + 1 /\ body # <<>> /\ Above(spec) = k + 1 /\ m - k = len + 1
    BY <1>1, <1>5, <1>6
  <2>2. Data(rows, spec) = Tail(body)
    BY <1>6, <2>1 DEF Data, body
  <2>3. /\ Tail(body) \in Seq(S) /\ Len(Tail(body)) = len
        /\ \A i \in 1..len : Tail(body)[i] = body[i + 1]
    BY <1>1, <1>5, <2>1, HeadTailProperties
  <2>4. Head(body) = body[1] /\ body[1] = rows[k + 1]
    BY <1>1, <1>5, <2>1
  <2>5. \A i \in 1..len : body[i + 1] = rows[(k + 1) + i]
    BY <1>1, <1>5, <2>1
  <2> QED BY <1>6, <2>1, <2>2, <2>3, <2>4, <2>5 DEF body, k
<1>7. CASE ~spec.header
  <2>1. m - k = len /\ Len(body) = len /\ Above(spec) = k /\ Data(rows, spec) = body
    BY <1>1, <1>5, <1>7 DEF Data, body
  <2> QED BY <1>1, <1>5, <1>7, <2>1
<1> QED BY <1>6, <1>7

\* Whatever is skipped above a table and wherever its columns' names come from,
\* rows_to_records finds its rows, all of them and in order (dynamic.py:347-381):
\* what RepliesAssumption says of a reader.
THEOREM GridsAreRead ==
  ASSUME NEW S, NEW rows \in Seq(S), NEW spec, NEW table, Shows(rows, spec, table)
  PROVE  LET records == RowsToRecords(rows, spec) IN
         /\ DOMAIN records = DOMAIN table
         /\ \A i \in DOMAIN table : Holds(records[i], table[i])
<1> DEFINE body    == Body(rows, spec)
           data    == Data(rows, spec)
           fields  == Titles(rows, spec)
           records == RowsToRecords(rows, spec)
           len     == Len(table)
<1>1. /\ spec.skip \in Nat /\ spec.header \in BOOLEAN /\ len \in Nat /\ DOMAIN table = 1..len
      /\ Len(rows) = Above(spec) + len
  BY DEF Shows, IsSeq
<1>2. /\ DOMAIN data = 1..len
      /\ \A i \in 1..len : data[i] = rows[Above(spec) + i]
      /\ spec.header => body # <<>> /\ Head(body) = rows[spec.skip + 1]
  BY <1>1, DataOf
<1>3. fields = IF (spec.header /\ body # <<>>) /\ spec.fields = <<>> THEN Head(body) ELSE spec.fields
  BY <1>2 DEF Titles
<1> HIDE DEF fields
<1>4. records = [i \in DOMAIN data |->
                  [j \in 1..Min({Len(fields), Len(data[i])}) |->
                    <<fields[j], IF IsBlank(data[i][j]) THEN Nothing ELSE data[i][j]>>]]
  BY <1>3 DEF RowsToRecords, Body, Data
<1> HIDE DEF body, data, records, len
<1>5. DOMAIN records = DOMAIN table
  BY <1>1, <1>2, <1>4
<1>6. ASSUME NEW i \in DOMAIN table PROVE Holds(records[i], table[i])
  <2> DEFINE cells == rows[Above(spec) + i]
             record == records[i]
             row == table[i]
  <2>1. /\ IsSeq(cells) /\ Len(cells) <= Len(fields) /\ IsSeq(fields)
        /\ \A j \in DOMAIN fields : fields[j] \in {Key(fields[j].name), Caps(fields[j].name)}
        /\ \A j, k \in DOMAIN fields : fields[j].name = fields[k].name => j = k
        /\ DOMAIN row = {fields[j].name : j \in DOMAIN cells}
        /\ \A j \in DOMAIN cells : row[fields[j].name] = cells[j]
    BY DEF Shows, fields
  <2>2. data[i] = cells
    BY <1>1, <1>2
  <2> HIDE DEF cells, row
  <2>3. Min({Len(fields), Len(cells)}) = Len(cells)
    BY <2>1, MinOfTwo DEF IsSeq
  <2>4. record = [j \in 1..Len(cells) |->
                   <<fields[j], IF IsBlank(cells[j]) THEN Nothing ELSE cells[j]>>]
    BY <1>1, <1>2, <1>4, <2>2, <2>3
  <2> HIDE DEF record
  <2>5. DOMAIN cells = 1..Len(cells) /\ Len(cells) \in Nat /\ DOMAIN cells \subseteq DOMAIN fields
    BY <2>1 DEF IsSeq
  <2>6. IsSeq(record) /\ DOMAIN record = DOMAIN cells
    BY <2>4, <2>5 DEF IsSeq
  <2>7. \A j \in DOMAIN cells :
          record[j][1] = fields[j] /\ record[j][2] = IF cells[j] = Blank THEN Nothing ELSE cells[j]
    BY <2>4, <2>5 DEF IsBlank
  <2>8. ASSUME NEW j \in DOMAIN record
        PROVE  LET c == record[j][1].name IN
               /\ record[j][1] \in {Key(c), Caps(c)} /\ c \in DOMAIN row
               /\ record[j][2] = IF row[c] = Blank /\ record[j][2] # Blank THEN Nothing ELSE row[c]
    <3>1. Nothing # Blank
      BY DEF Nothing, Blank
    <3> QED BY <2>1, <2>5, <2>6, <2>7, <3>1
  <2>9. \A j, k \in DOMAIN record : record[j][1].name = record[k][1].name => j = k
    BY <2>1, <2>5, <2>6, <2>7
  <2>10. \A c \in DOMAIN row : \E j \in DOMAIN record : record[j][1].name = c
    BY <2>1, <2>6, <2>7
  <2>11. Holds(record, row)
    BY <2>6, <2>8, <2>9, <2>10 DEF Holds
  <2> QED BY <2>11 DEF record, row
<1> QED BY <1>5, <1>6 DEF records

=============================================================================
