-------------------------- MODULE TimeStringProofs --------------------------
(***************************************************************************)
(* Proofs about TimeString for every time a script may begin at, every     *)
(* request and every lateness: what a time string is turned into is a time *)
(* the calendar knows, it is at most one unit late, and a request for a    *)
(* day ends on that day.                                                   *)
(***************************************************************************)
EXTENDS TimeString, TLAPS

-----------------------------------------------------------------------------
(* The arithmetic of a clock: remainders of numbers that are at most one   *)
(* turn away.                                                              *)

LEMMA Near60 ==
    ASSUME NEW x \in Int, -60 <= x, x < 60
    PROVE  x % 60 = IF x < 0 THEN x + 60 ELSE x
OBVIOUS

LEMMA Near24 ==
    ASSUME NEW x \in Int, -24 <= x, x < 24
    PROVE  x % 24 = IF x < 0 THEN x + 24 ELSE x
OBVIOUS

LEMMA Near3600 ==
    ASSUME NEW x \in Int, -3600 <= x, x < 3600
    PROVE  x % 3600 = IF x < 0 THEN x + 3600 ELSE x
OBVIOUS

LEMMA Near86400 ==
    ASSUME NEW x \in Int, -86400 <= x, x < 86400
    PROVE  x % 86400 = IF x < 0 THEN x + 86400 ELSE x
<1>1. x >= 0 => x % 86400 = x
  OBVIOUS
<1>2. x < 0 => x % 86400 = x + 86400
  OBVIOUS
<1> QED
  BY <1>1, <1>2

LEMMA Turns60 ==
    ASSUME NEW x \in Int, NEW k \in Int
    PROVE  (x + 60 * k) % 60 = x % 60
OBVIOUS

LEMMA Turns3600 ==
    ASSUME NEW x \in Int, NEW k \in Int
    PROVE  (x + 3600 * k) % 3600 = x % 3600
OBVIOUS

\* The day does not matter to the hour that is asked for.
LEMMA HourOfDay ==
    ASSUME NEW x \in Int, NEW y \in Int
    PROVE  (x - y) % 24 = ((x % 24) - y) % 24
OBVIOUS

LEMMA WeekDay ==
    ASSUME NEW d \in 0..6, NEW w \in 0..6
    PROVE  (d + ((w - d) % 7)) % 7 = w
OBVIOUS

LEMMA Remainder7 == ASSUME NEW x \in Int PROVE x % 7 \in 0..6
OBVIOUS

LEMMA Remainder24 == ASSUME NEW x \in Int PROVE x % 24 \in 0..23
OBVIOUS

LEMMA Remainder60 == ASSUME NEW x \in Int PROVE x % 60 \in 0..59
OBVIOUS

\* The day and the hour of a number of seconds.
LEMMA DayOfSeconds ==
    ASSUME NEW d \in Nat, NEW s \in Int, 0 <= s, s < 86400
    PROVE  (86400 * d + s) \div 86400 = d
OBVIOUS

LEMMA HourOfSeconds ==
    ASSUME NEW d \in Nat, NEW h \in 0..23, NEW s \in Int, 0 <= s, s < 3600
    PROVE  ((86400 * d + (3600 * h + s)) \div 3600) % 24 = h
<1>1. (86400 * d + (3600 * h + s)) \div 3600 = 24 * d + h
  OBVIOUS
<1>2. (24 * d + h) % 24 = h
  OBVIOUS
<1> QED
  BY <1>1, <1>2

LEMMA ClockSeconds ==
    ASSUME NEW h \in 0..23, NEW m \in 0..59, NEW s \in 0..59
    PROVE  3600 * h + 60 * m + s \in Nat /\ 3600 * h + 60 * m + s <= 86399
OBVIOUS

LEMMA DaysAtMost ==
    ASSUME NEW d \in Nat, NEW s \in Int, 0 <= s, s < 259200
    PROVE  /\ (86400 * d + s) \div 86400 \in Nat
           /\ (86400 * d + s) \div 86400 <= d + 2
OBVIOUS

-----------------------------------------------------------------------------
(* The calendar.                                                           *)

LEMMA MonthDays == ASSUME NEW y, NEW m PROVE month_days(y, m) \in 28..31
BY DEF month_days

LEMMA MonthLength ==
    ASSUME NEW t, IsTime(t)
    PROVE  /\ month_days(t.year, t.mon) \in 28..31
           /\ t.mday \in 1..month_days(t.year, t.mon)
BY MonthDays DEF IsTime, TimeFields

LEMMA NextMonthIs ==
    ASSUME NEW t \in TimeFields
    PROVE  /\ NextMonth(t) \in TimeFields
           /\ NextMonth(t).mon = IF t.mon = 11 THEN 0 ELSE t.mon + 1
<1>1. CASE t.mon = 11
  <2> DEFINE y == t.year + 1
  <2>1. y \in Nat
    BY DEF TimeFields
  <2> HIDE DEF y
  <2> DEFINE u == [t EXCEPT !.mon = 0]
  <2>2. u \in TimeFields /\ u.mon = 0
    BY DEF TimeFields
  <2>3. NextMonth(t) = [u EXCEPT !.year = y]
    BY <1>1 DEF NextMonth, y
  <2> HIDE DEF u
  <2>4. [u EXCEPT !.year = y] \in TimeFields /\ [u EXCEPT !.year = y].mon = u.mon
    BY <2>1, <2>2 DEF TimeFields
  <2> QED
    BY <1>1, <2>2, <2>3, <2>4
<1>2. CASE t.mon # 11
  <2>1. NextMonth(t) = [t EXCEPT !.mon = t.mon + 1]
    BY <1>2 DEF NextMonth
  <2> QED
    BY <1>2, <2>1 DEF TimeFields
<1> QED
  BY <1>1, <1>2

\* A month that is not of 31 days is followed by one that is.
LEMMA LongMonthFollows ==
    ASSUME NEW t, IsTime(t), month_days(t.year, t.mon) < 31
    PROVE  month_days(NextMonth(t).year, NextMonth(t).mon) = 31
<1>1. t.mon \in 0..11 /\ t.mon \notin {0, 2, 4, 6, 7, 9, 11}
  BY DEF IsTime, TimeFields, month_days
<1>2. NextMonth(t).mon \in {0, 2, 4, 6, 7, 9, 11}
  BY <1>1, NextMonthIs DEF IsTime
<1> QED
  BY <1>2 DEF month_days

LEMMA OnDayIs ==
    ASSUME NEW m \in TimeFields, NEW d \in 1..31, NEW w \in 0..6,
           d <= month_days(m.year, m.mon)
    PROVE  /\ IsTime(OnDay(m, d, w))
           /\ OnDay(m, d, w).mday = d /\ OnDay(m, d, w).wday = w
           /\ OnDay(m, d, w).year = m.year /\ OnDay(m, d, w).mon = m.mon
BY DEF OnDay, IsTime, TimeFields

LEMMA AtSecondIs ==
    ASSUME NEW m, IsTime(m), NEW s \in Int
    PROVE  /\ IsTime(AtSecond(m, s)) /\ AtSecond(m, s).hour = (s \div 3600) % 24
           /\ AtSecond(m, s).mday = m.mday /\ AtSecond(m, s).wday = m.wday
           /\ AtSecond(m, s).year = m.year /\ AtSecond(m, s).mon = m.mon
<1> DEFINE c == s % 60
           i == (s \div 60) % 60
           h == (s \div 3600) % 24
<1>1. c \in 0..59 /\ i \in 0..59 /\ h \in 0..23
  BY Remainder60, Remainder24
<1> HIDE DEF c, i, h
<1> DEFINE u == [m EXCEPT !.sec = c]
           v == [u EXCEPT !.min = i]
           w == [v EXCEPT !.hour = h]
<1>2. AtSecond(m, s) = w /\ h = (s \div 3600) % 24
  BY DEF AtSecond, c, i, h
<1>3. m \in TimeFields /\ m.mday <= month_days(m.year, m.mon)
  BY DEF IsTime
<1>4. /\ u \in TimeFields /\ u.mday = m.mday /\ u.wday = m.wday
      /\ u.year = m.year /\ u.mon = m.mon
  BY <1>1, <1>3 DEF TimeFields
<1> HIDE DEF u
<1>5. /\ v \in TimeFields /\ v.mday = u.mday /\ v.wday = u.wday
      /\ v.year = u.year /\ v.mon = u.mon
  BY <1>1, <1>4 DEF TimeFields
<1> HIDE DEF v
<1>6. /\ w \in TimeFields /\ w.mday = v.mday /\ w.wday = v.wday
      /\ w.year = v.year /\ w.mon = v.mon /\ w.hour = h
  BY <1>1, <1>5 DEF TimeFields
<1> HIDE DEF w
<1> QED
  BY <1>2, <1>3, <1>4, <1>5, <1>6 DEF IsTime

\* Fewer days than are left of the month.
LEMMA InThisMonth ==
    ASSUME NEW t, IsTime(t), NEW n \in Nat,
           t.mday + n <= month_days(t.year, t.mon)
    PROVE  DaysLater(t, n) = OnDay(t, t.mday + n, (t.wday + n) % 7)
<1> DEFINE len == month_days(t.year, t.mon)
           next == NextMonth(t)
           both == len + month_days(next.year, next.mon)
           day == t.mday + n
           month == IF day <= len THEN t ELSE IF day <= both THEN next ELSE NextMonth(next)
           before == IF day <= len THEN 0 ELSE IF day <= both THEN len ELSE both
<1>1. DaysLater(t, n) = OnDay(month, day - before, (t.wday + n) % 7)
  BY Zenon DEF DaysLater
<1>2. month = t /\ before = 0
  OBVIOUS
<1>3. day - 0 = day
  BY DEF IsTime, TimeFields
<1> HIDE DEF month, before
<1> QED
  BY <1>1, <1>2, <1>3

\* More days than that, but not more than to the end of the next month.
LEMMA InNextMonth ==
    ASSUME NEW t, IsTime(t), NEW n \in Nat,
           ~(t.mday + n <= month_days(t.year, t.mon)),
           t.mday + n <= month_days(t.year, t.mon)
                         + month_days(NextMonth(t).year, NextMonth(t).mon)
    PROVE  DaysLater(t, n) =
             OnDay(NextMonth(t), (t.mday + n) - month_days(t.year, t.mon), (t.wday + n) % 7)
<1> DEFINE len == month_days(t.year, t.mon)
           next == NextMonth(t)
           both == len + month_days(next.year, next.mon)
           day == t.mday + n
           month == IF day <= len THEN t ELSE IF day <= both THEN next ELSE NextMonth(next)
           before == IF day <= len THEN 0 ELSE IF day <= both THEN len ELSE both
<1>1. DaysLater(t, n) = OnDay(month, day - before, (t.wday + n) % 7)
  BY Zenon DEF DaysLater
<1>2. month = next /\ before = len
  OBVIOUS
<1> HIDE DEF month, before
<1> QED
  BY <1>1, <1>2

LEMMA InLaterMonth ==
    ASSUME NEW t, IsTime(t), NEW n \in Nat,
           ~(t.mday + n <= month_days(t.year, t.mon)),
           ~(t.mday + n <= month_days(t.year, t.mon)
                           + month_days(NextMonth(t).year, NextMonth(t).mon))
    PROVE  DaysLater(t, n) =
             OnDay(NextMonth(NextMonth(t)),
                   (t.mday + n) - (month_days(t.year, t.mon)
                                   + month_days(NextMonth(t).year, NextMonth(t).mon)),
                   (t.wday + n) % 7)
<1> DEFINE len == month_days(t.year, t.mon)
           next == NextMonth(t)
           both == len + month_days(next.year, next.mon)
           day == t.mday + n
           month == IF day <= len THEN t ELSE IF day <= both THEN next ELSE NextMonth(next)
           before == IF day <= len THEN 0 ELSE IF day <= both THEN len ELSE both
<1>1. DaysLater(t, n) = OnDay(month, day - before, (t.wday + n) % 7)
  BY Zenon DEF DaysLater
<1>2. month = NextMonth(next) /\ before = both
  OBVIOUS
<1> HIDE DEF month, before
<1> QED
  BY <1>1, <1>2

\* The calendar covers the days up to the twenty-eighth of the month after the next.
LEMMA DaysLaterIsTime ==
    ASSUME NEW t, IsTime(t), NEW n \in Nat,
           t.mday + n <= month_days(t.year, t.mon)
                         + month_days(NextMonth(t).year, NextMonth(t).mon) + 28
    PROVE  IsTime(DaysLater(t, n))
<1> DEFINE len == month_days(t.year, t.mon)
           next == NextMonth(t)
           nextLen == month_days(next.year, next.mon)
           day == t.mday + n
           w == (t.wday + n) % 7
<1>1. t \in TimeFields /\ t.mday \in 1..31 /\ t.wday \in Int
  BY DEF IsTime, TimeFields
<1>2. len \in 28..31 /\ nextLen \in 28..31 /\ next \in TimeFields
  BY <1>1, MonthDays, NextMonthIs
<1>3. day \in Nat /\ day >= 1 /\ w \in 0..6
  BY <1>1, Remainder7
<1>4. CASE day <= len
  <2>1. DaysLater(t, n) = OnDay(t, day, w)
    BY <1>4, InThisMonth
  <2>2. day \in 1..31
    BY <1>2, <1>3, <1>4
  <2> HIDE DEF day, w
  <2> QED
    BY <1>1, <1>3, <1>4, <2>1, <2>2, OnDayIs
<1>5. CASE ~(day <= len) /\ day <= len + nextLen
  <2>1. DaysLater(t, n) = OnDay(next, day - len, w)
    BY <1>5, InNextMonth
  <2>2. day - len \in 1..31 /\ day - len <= nextLen
    BY <1>2, <1>3, <1>5
  <2> HIDE DEF day, w, len
  <2> QED
    BY <1>2, <1>3, <2>1, <2>2, OnDayIs
<1>6. CASE ~(day <= len) /\ ~(day <= len + nextLen)
  <2> DEFINE after == NextMonth(next)
             d == day - (len + nextLen)
  <2>1. DaysLater(t, n) = OnDay(after, d, w)
    BY <1>6, InLaterMonth
  <2>2. d \in 1..28
    BY <1>2, <1>3, <1>6
  <2>3. after \in TimeFields /\ month_days(after.year, after.mon) \in 28..31
    BY <1>2, NextMonthIs, MonthDays
  <2> HIDE DEF d, w, after
  <2>4. d \in 1..31 /\ d <= month_days(after.year, after.mon)
    BY <2>2, <2>3
  <2> QED
    BY <1>3, <2>1, <2>3, <2>4, OnDayIs
<1> QED
  BY <1>4, <1>5, <1>6

LEMMA SecondsOfDay ==
    ASSUME NEW t, IsTime(t)
    PROVE  SecondOfDay(t) \in Nat /\ SecondOfDay(t) <= 86399
<1> DEFINE h == t.hour
           m == t.min
           s == t.sec
<1>1. h \in 0..23 /\ m \in 0..59 /\ s \in 0..59
  BY DEF IsTime, TimeFields
<1>2. SecondOfDay(t) = 3600 * h + 60 * m + s
  BY DEF SecondOfDay
<1> HIDE DEF h, m, s
<1>3. 3600 * h + 60 * m + s \in Nat /\ 3600 * h + 60 * m + s <= 86399
  BY <1>1, ClockSeconds
<1> QED
  BY <1>2, <1>3

\* A time of day within three days of the one on a day the calendar covers.
LEMMA TimeAfterIsTime ==
    ASSUME NEW t, IsTime(t), NEW d \in Nat, NEW x \in Nat, x <= 172799,
           t.mday + d <= month_days(t.year, t.mon)
                         + month_days(NextMonth(t).year, NextMonth(t).mon) + 26
    PROVE  IsTime(TimeAfter(t, 86400 * d + x))
<1> DEFINE s == SecondOfDay(t) + (86400 * d + x)
           n == s \div 86400
<1>1. SecondOfDay(t) \in Nat /\ SecondOfDay(t) <= 86399
  BY SecondsOfDay
<1>2. s \in Nat /\ s = 86400 * d + (SecondOfDay(t) + x)
  BY <1>1
<1>3. n \in Nat /\ n <= d + 2
  BY <1>1, <1>2, DaysAtMost
<1>4. /\ month_days(t.year, t.mon) \in Nat /\ t.mday \in Nat
      /\ month_days(NextMonth(t).year, NextMonth(t).mon) \in Nat
  BY MonthDays DEF IsTime, TimeFields
<1>5. TimeAfter(t, 86400 * d + x) = AtSecond(DaysLater(t, n), s)
  BY DEF TimeAfter
<1> HIDE DEF s, n
<1>6. IsTime(DaysLater(t, n))
  BY <1>3, <1>4, DaysLaterIsTime
<1> QED
  BY <1>2, <1>5, <1>6, AtSecondIs

-----------------------------------------------------------------------------
(* The days of a request for a day of the month.                           *)

\* The number the day of the month is reckoned from, and the day it makes.
LEMMA RequestedIs ==
    ASSUME NEW k \in -31..32, NEW len \in 28..31
    PROVE  /\ FromEnd(k) \in -30..32
           /\ RequestedDay(FromEnd(k), len) =
                IF FromEnd(k) > 0 THEN FromEnd(k) ELSE len + FromEnd(k)
           /\ RequestedDay(FromEnd(k), len) \in -2..32
           /\ FromEnd(k) = IF k > 0 THEN k ELSE k + 1
BY DEF FromEnd, RequestedDay

\* The requested day is in this month, or that day of the next month is
\* reckoned with the length of this one.
LEMMA StaysInMonth ==
    ASSUME NEW t, IsTime(t), NEW k \in -31..32, ~MovesOn(t, FromEnd(k))
    PROVE  LET len == month_days(t.year, t.mon)
               day == RequestedDay(FromEnd(k), len)
           IN /\ day \in 0..len /\ parse_month(t, k) \in Nat
              /\ t.mday + parse_month(t, k) = IF day < t.mday THEN len + day ELSE day
<1> DEFINE len == month_days(t.year, t.mon)
           day == RequestedDay(FromEnd(k), len)
           since == day - t.mday
<1>1. len \in 28..31 /\ t.mday \in 1..len
  BY MonthLength
<1>2. ~(day < 0 \/ day > len)
  BY DEF MovesOn
<1>3. parse_month(t, k) = (IF since < 0 THEN since + len ELSE since) + 0
  BY Zenon DEF parse_month
<1> HIDE DEF len
<1>4. day \in -2..32
  BY <1>1, RequestedIs
<1> HIDE DEF day
<1> QED
  BY <1>1, <1>2, <1>3, <1>4 DEF day, len

\* The requested day is not in this month: it is in the next one, which is long.
LEMMA MovesToNext ==
    ASSUME NEW t, IsTime(t), NEW k \in -31..32, MovesOn(t, FromEnd(k))
    PROVE  LET len == month_days(t.year, t.mon)
               md == FromEnd(k)
               day == IF md > 0 THEN md ELSE 31 + md
           IN /\ parse_month(t, k) \in Nat
              /\ md > 0 \/ len < 31
              /\ len < 31 => day \in 1..32
              /\ md > 0 => md > len
              /\ t.mday + parse_month(t, k) = len + day
<1> DEFINE len == month_days(t.year, t.mon)
           next == NextMonth(t)
           nextLen == month_days(next.year, next.mon)
           md == FromEnd(k)
           first == RequestedDay(md, len)
           day == IF first < 0 THEN nextLen + md ELSE first
           since == day - 1
<1>1. len \in 28..31 /\ t.mday \in 1..len
  BY MonthLength
<1>2. first < 0 \/ first > len
  BY DEF MovesOn
<1>3. parse_month(t, k) =
        (IF since < 0 THEN since + nextLen ELSE since) + (len - t.mday + 1)
  BY Zenon DEF parse_month
<1>4. len < 31 => nextLen = 31
  BY LongMonthFollows
<1> HIDE DEF len, nextLen
<1>5. /\ md \in -30..32 /\ first \in -2..32
      /\ first = IF md > 0 THEN md ELSE len + md
  BY <1>1, RequestedIs
<1> HIDE DEF md, first
<1>6. first < 0 => len < 31 /\ nextLen = 31 /\ md < 0 /\ day = 31 + md /\ day >= 1
  BY <1>1, <1>4, <1>5
<1>7. first > len => md > 0 /\ day = md
  BY <1>1, <1>2, <1>5
<1>8. CASE first < 0
  BY <1>1, <1>3, <1>5, <1>6, <1>8 DEF md, len
<1>9. CASE first > len
  BY <1>1, <1>3, <1>5, <1>7, <1>9 DEF md, len
<1> QED
  BY <1>2, <1>8, <1>9

\* A request lies ahead, and at most as far as the twenty-sixth of the month after
\* the next.
LEMMA DaysAhead ==
    ASSUME NEW t, IsTime(t), NEW r, IsRequest(r)
    PROVE  /\ ResultDays(t, r) \in Nat
           /\ t.mday + ResultDays(t, r) <=
                month_days(t.year, t.mon)
                + month_days(NextMonth(t).year, NextMonth(t).mon) + 26
<1> DEFINE len == month_days(t.year, t.mon)
           nextLen == month_days(NextMonth(t).year, NextMonth(t).mon)
           days == ResultDays(t, r)
           k == r.monthday + (IF HourBorrows(t, r) THEN 1 ELSE 0)
           w == (r.weekday + (IF HourBorrows(t, r) THEN 1 ELSE 0)) - t.wday
<1>1. len \in 28..31 /\ t.mday \in 1..len /\ nextLen \in 28..31
  BY MonthLength, MonthDays
<1>2. t.wday \in 0..6 /\ r.weekday \in -1..6 /\ r.monthday \in -31..31
  BY DEF IsTime, TimeFields, IsRequest
<1> HIDE DEF len, nextLen
<1>3. CASE r.monthday # 0
  <2>1. k \in -31..32
    BY <1>2
  <2>2. days = parse_month(t, k)
    BY <1>3 DEF ResultDays
  <2> HIDE DEF k, days
  <2>3. CASE MovesOn(t, FromEnd(k))
    <3>1. FromEnd(k) \in -30..32
      BY <2>1, RequestedIs, <1>1
    <3> DEFINE md == FromEnd(k)
               day == IF md > 0 THEN md ELSE 31 + md
    <3>2. parse_month(t, k) \in Nat /\ t.mday + parse_month(t, k) = len + day
      BY <2>1, <2>3, MovesToNext DEF len
    <3> HIDE DEF md
    <3>3. day <= 32 /\ day \in Int
      BY <3>1 DEF md
    <3> HIDE DEF day
    <3> QED
      BY <1>1, <2>2, <3>2, <3>3 DEF days, len, nextLen
  <2>4. CASE ~MovesOn(t, FromEnd(k))
    <3> DEFINE day == RequestedDay(FromEnd(k), len)
    <3>1. /\ day \in 0..len /\ parse_month(t, k) \in Nat
          /\ t.mday + parse_month(t, k) = IF day < t.mday THEN len + day ELSE day
      BY <2>1, <2>4, StaysInMonth DEF len
    <3> HIDE DEF day
    <3> QED
      BY <1>1, <2>2, <3>1 DEF days, len, nextLen
  <2> QED
    BY <2>3, <2>4
<1>4. CASE r.monthday = 0 /\ r.weekday # -1
  <2>1. days = w % 7
    BY <1>4, <1>2 DEF ResultDays, Mod
  <2>2. w \in Int
    BY <1>2
  <2> HIDE DEF w
  <2>3. w % 7 \in 0..6
    BY <2>2, Remainder7
  <2> HIDE DEF days
  <2> QED
    BY <1>1, <2>1, <2>3 DEF days, len, nextLen
<1>5. CASE r.monthday = 0 /\ r.weekday = -1
  <2>1. days = 0
    BY <1>5 DEF ResultDays
  <2> HIDE DEF days
  <2> QED
    BY <1>1, <2>1 DEF days, len, nextLen
<1> QED
  BY <1>2, <1>3, <1>4, <1>5

-----------------------------------------------------------------------------
(* The seconds of a request.                                               *)

Clock(t, r) ==
    Mod(ReqSecond(t, r) - t.sec, 60)
    + 60 * Mod(ReqMinute(t, r) - t.min, 60)
    + 3600 * Mod(ReqHour(t, r) - t.hour, 24)

LEMMA RequestTypes ==
    ASSUME NEW t, IsTime(t), NEW r, IsRequest(r)
    PROVE  /\ t.sec \in 0..59 /\ t.min \in 0..59 /\ t.hour \in 0..23
           /\ r.sec \in Nat \cup {-1} /\ r.min \in Nat \cup {-1} /\ r.hour \in Nat \cup {-1}
           /\ ReqSecond(t, r) \in Int /\ ReqMinute(t, r) \in Int /\ ReqHour(t, r) \in Int
<1>1. t.sec \in 0..59 /\ t.min \in 0..59 /\ t.hour \in 0..23
  BY DEF IsTime, TimeFields
<1>2. r.sec \in Nat \cup {-1} /\ r.min \in Nat \cup {-1} /\ r.hour \in Nat \cup {-1}
  BY DEF IsRequest
<1>3. ReqSecond(t, r) \in Int
  BY <1>1, <1>2 DEF ReqSecond
<1>4. ReqMinute(t, r) \in Int
  BY <1>1, <1>2 DEF ReqMinute
<1>5. ReqHour(t, r) \in Int
  BY <1>1, <1>2 DEF ReqHour
<1> QED
  BY <1>1, <1>2, <1>3, <1>4, <1>5

LEMMA ClockIsBelowADay ==
    ASSUME NEW t, IsTime(t), NEW r, IsRequest(r)
    PROVE  /\ Clock(t, r) \in Nat /\ Clock(t, r) <= 86399
           /\ parse_time_string(t, r) = 86400 * ResultDays(t, r) + Clock(t, r)
           /\ parse_time_string(t, r) \in Nat
<1> DEFINE s == Mod(ReqSecond(t, r) - t.sec, 60)
           m == Mod(ReqMinute(t, r) - t.min, 60)
           h == Mod(ReqHour(t, r) - t.hour, 24)
           d == ResultDays(t, r)
<1>0. /\ ReqSecond(t, r) - t.sec \in Int /\ ReqMinute(t, r) - t.min \in Int
      /\ ReqHour(t, r) - t.hour \in Int
  BY RequestTypes
<1>1. s \in 0..59 /\ m \in 0..59 /\ h \in 0..23
  <2> \A x \in Int : Mod(x, 60) \in 0..59 /\ Mod(x, 24) \in 0..23
    BY Remainder60, Remainder24 DEF Mod
  <2> QED
    BY <1>0
<1>2. d \in Nat
  BY DaysAhead
<1>3. Clock(t, r) = s + 60 * m + 3600 * h
  BY DEF Clock
<1>4. parse_time_string(t, r) = s + 60 * m + 3600 * h + 86400 * d
  BY DEF parse_time_string
<1> HIDE DEF s, m, h
<1>5. 3600 * h + 60 * m + s \in Nat /\ 3600 * h + 60 * m + s <= 86399
  BY <1>1, ClockSeconds
<1>6. s + 60 * m + 3600 * h = 3600 * h + 60 * m + s
  BY <1>1
<1> HIDE DEF d
<1> QED
  BY <1>2, <1>3, <1>4, <1>5, <1>6 DEF d

-----------------------------------------------------------------------------
(* The invariant.                                                          *)

LEMMA TimeInvInit == TimeInit => TimeInv
BY TimeStringAssumption DEF TimeInit, TimeInv, TimeTypeOK

LEMMA WaitEveryKeeps == TimeInv /\ WaitEvery => TimeInv'
<1> SUFFICES ASSUME TimeInv, WaitEvery PROVE TimeInv'
  OBVIOUS
<1>1. parse_time_string(tm, request) \in Nat
  BY ClockIsBelowADay DEF TimeInv, TimeTypeOK
<1>2. waits + 1 \in 0..MaxWaits
  BY TimeStringAssumption DEF TimeInv, TimeTypeOK, WaitEvery
<1> QED
  BY <1>1, <1>2 DEF TimeInv, TimeTypeOK, WaitEvery

LEMMA WakeAndLoopKeeps ==
    ASSUME TimeInv, NEW late \in Lateness, WakeAndLoop(late)
    PROVE  TimeInv'
<1> DEFINE d == ResultDays(tm, request)
           c == Clock(tm, request)
<1>1. IsTime(tm) /\ IsRequest(request) /\ late \in Nat /\ late <= 86400
  BY TimeStringAssumption DEF TimeInv, TimeTypeOK
<1>2. /\ c \in Nat /\ c <= 86399
      /\ delay = 86400 * d + c
  BY <1>1, ClockIsBelowADay DEF TimeInv, WakeAndLoop
<1>3. /\ d \in Nat
      /\ tm.mday + d <= month_days(tm.year, tm.mon)
                         + month_days(NextMonth(tm).year, NextMonth(tm).mon) + 26
  BY <1>1, DaysAhead
<1> HIDE DEF c, d
<1> DEFINE x == c + late
<1>4. x \in Nat /\ x <= 172799 /\ delay + late = 86400 * d + x
  BY <1>1, <1>2, <1>3
<1> HIDE DEF x
<1>5. IsTime(TimeAfter(tm, 86400 * d + x))
  BY <1>1, <1>3, <1>4, TimeAfterIsTime
<1>6. IsTime(tm')
  BY <1>4, <1>5 DEF WakeAndLoop
<1> QED
  BY <1>1, <1>6 DEF TimeInv, TimeTypeOK, WakeAndLoop

LEMMA TimeInvInvariant == TimeSpec => []TimeInv
<1>1. TimeInv /\ [TimeNext]_timeVars => TimeInv'
  <2> SUFFICES ASSUME TimeInv, [TimeNext]_timeVars PROVE TimeInv'
    OBVIOUS
  <2>1. CASE UNCHANGED timeVars
    BY <2>1 DEF TimeInv, TimeTypeOK, timeVars
  <2> QED
    BY <2>1, WaitEveryKeeps, WakeAndLoopKeeps DEF TimeNext
<1> QED
  BY TimeInvInit, <1>1, PTL DEF TimeSpec

\* Whatever a script asks for and however late it is served, it goes on from a time
\* the calendar knows, and what it waits for lies ahead.
THEOREM TimeTypeCorrect == TimeSpec => []TimeTypeOK
<1>1. TimeInv => TimeTypeOK
  BY DEF TimeInv
<1> QED
  BY <1>1, TimeInvInvariant, PTL

-----------------------------------------------------------------------------
(* Seconds, minutes and hours, each with what it borrows.                  *)

LEMMA WantedIs ==
    ASSUME NEW r, IsRequest(r), BelowMinute(r)
    PROVE  /\ Wanted(r.sec) \in 0..59 /\ Wanted(r.min) \in 0..59
           /\ Wanted(r.hour) \in Nat
BY DEF IsRequest, BelowMinute, Wanted

LEMMA SecondIs ==
    ASSUME NEW t, IsTime(t), NEW r, IsRequest(r), BelowMinute(r), ~Plain(r)
    PROVE  LET b == IF Wanted(r.sec) < t.sec THEN 1 ELSE 0
           IN /\ Mod(ReqSecond(t, r) - t.sec, 60) = (Wanted(r.sec) - t.sec) + 60 * b
              /\ SecondBorrows(t, r) <=> b = 1
<1> DEFINE w == Wanted(r.sec)
           x == w - t.sec
<1>1. t.sec \in 0..59 /\ w \in 0..59
  BY RequestTypes, WantedIs
<1>2. ReqSecond(t, r) = w
  BY DEF ReqSecond, Plain, Wanted
<1> HIDE DEF w
<1>3. x \in Int /\ -60 < x /\ x < 60
  BY <1>1
<1>4. x % 60 = IF x < 0 THEN x + 60 ELSE x
  BY <1>3, Near60
<1>5. SecondBorrows(t, r) <=> x < 0
  BY <1>2, <1>3, <1>4 DEF SecondBorrows, Underflow
<1>6. Mod(ReqSecond(t, r) - t.sec, 60) = x % 60
  BY <1>2 DEF Mod
<1> QED
  BY <1>1, <1>4, <1>5, <1>6 DEF w

LEMMA MinuteIs ==
    ASSUME NEW t, NEW r, NEW c \in -60..59, ReqMinute(t, r) - t.min = c
    PROVE  /\ Mod(ReqMinute(t, r) - t.min, 60) = IF c < 0 THEN c + 60 ELSE c
           /\ MinuteBorrows(t, r) <=> c < 0 /\ c # -60
<1>1. c % 60 = IF c < 0 THEN c + 60 ELSE c
  BY Near60
<1> QED
  BY <1>1 DEF Mod, MinuteBorrows, Underflow

LEMMA HourIs ==
    ASSUME NEW t, NEW r, NEW c \in -24..23, ReqHour(t, r) - t.hour = c
    PROVE  /\ Mod(ReqHour(t, r) - t.hour, 24) = IF c < 0 THEN c + 24 ELSE c
           /\ HourBorrows(t, r) <=> c < 0 /\ c # -24
<1>1. c % 24 = IF c < 0 THEN c + 24 ELSE c
  BY Near24
<1> QED
  BY <1>1 DEF Mod, HourBorrows, Underflow

\* Without a day the wait is what the clock says, reckoned with the hour of the day.
LEMMA WaitWithoutDay ==
    ASSUME NEW t, IsTime(t), NEW r, IsRequest(r), NoDay(r)
    PROVE  parse_time_string(t, r) = Clock(t, r)
<1>1. ResultDays(t, r) = 0
  BY DEF NoDay, ResultDays
<1> QED
  BY <1>1, ClockIsBelowADay

-----------------------------------------------------------------------------
(* How late a request without a day is served.                             *)

LEMMA NextDaily ==
    ASSUME NEW t, IsTime(t), NEW r, IsRequest(r), BelowMinute(r), r.hour # -1
    PROVE  LET x == (3600 * (r.hour % 24) + 60 * Wanted(r.min) + Wanted(r.sec))
                    - (3600 * t.hour + 60 * t.min + t.sec)
           IN NextMatch(t, r) = IF x < 0 THEN x + 86400 ELSE x
<1> DEFINE wh == r.hour % 24
           wm == Wanted(r.min)
           ws == Wanted(r.sec)
           h == t.hour
           m == t.min
           s == t.sec
           x == (3600 * wh + 60 * wm + ws) - (3600 * h + 60 * m + s)
<1>1. /\ wh \in 0..23 /\ wm \in 0..59 /\ ws \in 0..59
      /\ h \in 0..23 /\ m \in 0..59 /\ s \in 0..59
  BY RequestTypes, WantedIs, Remainder24
<1>2. NextMatch(t, r) = (3600 * wh + 60 * wm + (ws - (3600 * h + 60 * m + s))) % 86400
  BY DEF NextMatch, Wanted, Period, SecondOfDay
<1> HIDE DEF wh, wm, ws, h, m, s
<1>3. 3600 * wh + 60 * wm + (ws - (3600 * h + 60 * m + s)) = x
  BY <1>1
<1>4. x \in Int /\ -86400 <= x /\ x < 86400
  <2>1. 3600 * h + 60 * m + s \in Nat /\ 3600 * h + 60 * m + s <= 86399
    BY <1>1, ClockSeconds
  <2>2. 3600 * wh + 60 * wm + ws \in Nat /\ 3600 * wh + 60 * wm + ws <= 86399
    BY <1>1, ClockSeconds
  <2> QED
    BY <2>1, <2>2
<1> HIDE DEF x
<1>5. x % 86400 = IF x < 0 THEN x + 86400 ELSE x
  BY <1>4, Near86400
<1> QED
  BY <1>2, <1>3, <1>5 DEF x, wh, wm, ws, h, m, s

LEMMA NextHourly ==
    ASSUME NEW t, IsTime(t), NEW r, IsRequest(r), BelowMinute(r), r.hour = -1, r.min # -1
    PROVE  LET x == (60 * Wanted(r.min) + Wanted(r.sec)) - (60 * t.min + t.sec)
           IN NextMatch(t, r) = IF x < 0 THEN x + 3600 ELSE x
<1> DEFINE wm == Wanted(r.min)
           ws == Wanted(r.sec)
           h == t.hour
           m == t.min
           s == t.sec
           x == (60 * wm + ws) - (60 * m + s)
           k == 0 - h
<1>1. /\ wm \in 0..59 /\ ws \in 0..59
      /\ h \in 0..23 /\ m \in 0..59 /\ s \in 0..59
  BY RequestTypes, WantedIs
<1>2. NextMatch(t, r) = (3600 * (0 % 24) + 60 * wm + (ws - (3600 * h + 60 * m + s))) % 3600
  BY DEF NextMatch, Wanted, Period, SecondOfDay
<1> HIDE DEF wm, ws, h, m, s
<1>3. x \in Int /\ -3600 <= x /\ x < 3600 /\ k \in Int
  BY <1>1
<1>4. 3600 * (0 % 24) + 60 * wm + (ws - (3600 * h + 60 * m + s)) = x + 3600 * k
  BY <1>1
<1> HIDE DEF x, k
<1>5. (x + 3600 * k) % 3600 = IF x < 0 THEN x + 3600 ELSE x
  BY <1>3, Turns3600, Near3600
<1> QED
  BY <1>2, <1>4, <1>5 DEF x, wm, ws, m, s

LEMMA NextMinutely ==
    ASSUME NEW t, IsTime(t), NEW r, IsRequest(r), BelowMinute(r), r.hour = -1, r.min = -1
    PROVE  LET x == Wanted(r.sec) - t.sec
           IN NextMatch(t, r) = IF x < 0 THEN x + 60 ELSE x
<1> DEFINE ws == Wanted(r.sec)
           h == t.hour
           m == t.min
           s == t.sec
           x == ws - s
           k == 0 - (60 * h + m)
<1>1. /\ ws \in 0..59
      /\ h \in 0..23 /\ m \in 0..59 /\ s \in 0..59
  BY RequestTypes, WantedIs
<1>2. NextMatch(t, r) = (3600 * (0 % 24) + 60 * 0 + (ws - (3600 * h + 60 * m + s))) % 60
  BY DEF NextMatch, Wanted, Period, SecondOfDay
<1> HIDE DEF ws, h, m, s
<1>3. x \in Int /\ -60 <= x /\ x < 60 /\ k \in Int
  BY <1>1
<1>4. 3600 * (0 % 24) + 60 * 0 + (ws - (3600 * h + 60 * m + s)) = x + 60 * k
  BY <1>1
<1> HIDE DEF x, k
<1>5. (x + 60 * k) % 60 = IF x < 0 THEN x + 60 ELSE x
  BY <1>3, Turns60, Near60
<1> QED
  BY <1>2, <1>4, <1>5 DEF x, ws, s

\* The minute, where an hour or a day is asked for: its borrow is taken from it, or
\* lost when it is absent.
LEMMA MinuteOfHour ==
    ASSUME NEW t, IsTime(t), NEW r, IsRequest(r), BelowMinute(r),
           r.hour # -1 \/ ~NoDay(r)
    PROVE  LET b == IF Wanted(r.sec) < t.sec THEN 1 ELSE 0
               c == ReqMinute(t, r) - t.min
               wm == Wanted(r.min)
           IN /\ c \in -60..59
              /\ c = wm - (b + t.min) \/ (b = 1 /\ wm = 0 /\ c = 59 - t.min)
              /\ ~BorrowLost(t, r) => c = wm - (b + t.min) /\ c # -60
<1> DEFINE b == IF Wanted(r.sec) < t.sec THEN 1 ELSE 0
           c == ReqMinute(t, r) - t.min
           wm == Wanted(r.min)
<1>0. ~Plain(r)
  BY DEF Plain
<1>1. SecondBorrows(t, r) <=> b = 1
  BY <1>0, SecondIs
<1>2. b \in 0..1
  OBVIOUS
<1> HIDE DEF b
<1>3. t.min \in 0..59 /\ r.min \in Nat \cup {-1} /\ r.min < 60
  BY RequestTypes DEF BelowMinute
<1>4. CASE r.min # -1
  <2>1. wm = r.min /\ ReqMinute(t, r) = r.min - b
    BY <1>1, <1>2, <1>3, <1>4 DEF Wanted, ReqMinute
  <2>2. ~BorrowLost(t, r) => ~(b = 1 /\ t.min - r.min = 59)
    BY <1>1, <1>4 DEF BorrowLost
  <2>3. c \in -60..59 /\ c = wm - (b + t.min)
    BY <1>2, <1>3, <1>4, <2>1
  <2>4. ~BorrowLost(t, r) => c # -60
    BY <1>2, <1>3, <1>4, <2>1, <2>2
  <2> HIDE DEF c, wm
  <2> QED
    BY <2>3, <2>4 DEF b, c, wm
<1>5. CASE r.min = -1
  <2>1. wm = 0 /\ ReqMinute(t, r) = IF b = 1 THEN 59 ELSE 0
    BY <1>1, <1>5 DEF Wanted, ReqMinute
  <2>2. ~BorrowLost(t, r) => b # 1
    BY <1>1, <1>5 DEF BorrowLost
  <2>3. /\ c \in -60..59
        /\ c = wm - (b + t.min) \/ (b = 1 /\ wm = 0 /\ c = 59 - t.min)
        /\ b # 1 => c = wm - (b + t.min) /\ c # -60
    BY <1>2, <1>3, <2>1
  <2> HIDE DEF c, wm
  <2>4. /\ c \in -60..59
        /\ c = wm - (b + t.min) \/ (b = 1 /\ wm = 0 /\ c = 59 - t.min)
        /\ ~BorrowLost(t, r) => c = wm - (b + t.min) /\ c # -60
    BY <2>2, <2>3
  <2> QED
    BY <2>4 DEF b, c, wm
<1> QED
  BY <1>4, <1>5

LEMMA LateDaily ==
    ASSUME NEW t, IsTime(t), NEW r, IsRequest(r), NoDay(r), BelowMinute(r), r.hour # -1
    PROVE  LET late == parse_time_string(t, r) - NextMatch(t, r)
           IN /\ late \in {0, 3600, 3600 - 86400}
              /\ ~BorrowLost(t, r) => late = 0
<1> DEFINE ws == Wanted(r.sec)
           wm == Wanted(r.min)
           wh == r.hour % 24
           s == t.sec
           m == t.min
           h == t.hour
           b == IF ws < s THEN 1 ELSE 0
           c == ReqMinute(t, r) - m
           b2 == IF c < 0 /\ c # -60 THEN 1 ELSE 0
           e == wh - (b2 + h)
           wait == ((ws - s) + 60 * b) + 60 * (IF c < 0 THEN c + 60 ELSE c)
                   + 3600 * (IF e < 0 THEN e + 24 ELSE e)
           x == (3600 * wh + 60 * wm + ws) - (3600 * h + 60 * m + s)
           next == IF x < 0 THEN x + 86400 ELSE x
<1>0. ~Plain(r)
  BY DEF Plain
<1>1. /\ ws \in 0..59 /\ wm \in 0..59 /\ wh \in 0..23 /\ r.hour \in Int
      /\ t.sec \in 0..59 /\ t.min \in 0..59 /\ t.hour \in 0..23
  BY WantedIs, RequestTypes, Remainder24
<1>2. /\ c \in -60..59
      /\ c = wm - (b + t.min) \/ (b = 1 /\ wm = 0 /\ c = 59 - t.min)
      /\ ~BorrowLost(t, r) => c = wm - (b + t.min) /\ c # -60
  BY MinuteOfHour
<1>3. Mod(ReqSecond(t, r) - t.sec, 60) = (ws - t.sec) + 60 * b
  BY <1>0, SecondIs
<1>4. /\ Mod(ReqMinute(t, r) - t.min, 60) = IF c < 0 THEN c + 60 ELSE c
      /\ MinuteBorrows(t, r) <=> b2 = 1
  <2>1. \A z \in -60..59 : ReqMinute(t, r) - t.min = z =>
          /\ Mod(ReqMinute(t, r) - t.min, 60) = IF z < 0 THEN z + 60 ELSE z
          /\ MinuteBorrows(t, r) <=> z < 0 /\ z # -60
    BY MinuteIs
  <2> QED
    BY <1>2, <2>1
<1>5. b \in 0..1 /\ b2 \in 0..1
  OBVIOUS
<1>6. next = NextMatch(t, r)
  BY NextDaily
<1> HIDE DEF c
<1>7. wait - next \in {0, 3600, 3600 - 86400}
      /\ (c = wm - (b + t.min) /\ c # -60 => wait - next = 0)
  <2>1. /\ s \in 0..59 /\ m \in 0..59 /\ h \in 0..23 /\ c \in -60..59
        /\ ws \in 0..59 /\ wm \in 0..59 /\ wh \in 0..23
        /\ c = wm - (b + m) \/ (b = 1 /\ wm = 0 /\ c = 59 - m)
    BY <1>1, <1>2
  <2>2. b = (IF ws < s THEN 1 ELSE 0) /\ b2 = (IF c < 0 /\ c # -60 THEN 1 ELSE 0)
    OBVIOUS
  <2> HIDE DEF ws, wm, wh, s, m, h, b, b2
  <2>3. wait - next \in {0, 3600, 3600 - 86400}
        /\ (c = wm - (b + m) /\ c # -60 => wait - next = 0)
    BY <1>5, <2>1, <2>2
  <2> QED
    BY <2>3 DEF m
<1>8. ReqHour(t, r) = r.hour - b2
  BY <1>1, <1>4 DEF ReqHour
<1>9. Mod(ReqHour(t, r) - t.hour, 24) = IF e < 0 THEN e + 24 ELSE e
  <2> HIDE DEF b2, wh
  <2>1. e \in Int /\ -24 <= e /\ e < 24
    BY <1>1, <1>5
  <2>2. ReqHour(t, r) - t.hour = r.hour - (b2 + t.hour) /\ b2 + t.hour \in Int
    BY <1>1, <1>5, <1>8
  <2>3. (r.hour - (b2 + t.hour)) % 24 = e % 24
    BY <1>1, <2>2, HourOfDay DEF wh
  <2> HIDE DEF e
  <2>4. e % 24 = IF e < 0 THEN e + 24 ELSE e
    BY <2>1, Near24
  <2> QED
    BY <2>2, <2>3, <2>4 DEF Mod
<1>10. parse_time_string(t, r) = wait
  <2> HIDE DEF b, b2, e, ws
  <2> QED
    BY <1>3, <1>4, <1>9, WaitWithoutDay DEF Clock
<1> HIDE DEF wait, next
<1> QED
  BY <1>2, <1>6, <1>7, <1>10

LEMMA LateHourly ==
    ASSUME NEW t, IsTime(t), NEW r, IsRequest(r), NoDay(r), BelowMinute(r),
           r.hour = -1, r.min # -1
    PROVE  parse_time_string(t, r) - NextMatch(t, r) \in {0, 3600}
<1> DEFINE ws == Wanted(r.sec)
           wm == Wanted(r.min)
           s == t.sec
           m == t.min
           b == IF ws < s THEN 1 ELSE 0
           c == wm - (b + m)
           b2 == IF c < 0 /\ c # -60 THEN 1 ELSE 0
           wait == ((ws - s) + 60 * b) + 60 * (IF c < 0 THEN c + 60 ELSE c) + 3600 * b2
           x == (60 * wm + ws) - (60 * m + s)
           next == IF x < 0 THEN x + 3600 ELSE x
<1>0. ~Plain(r)
  BY DEF Plain
<1>1. /\ ws \in 0..59 /\ wm \in 0..59 /\ s \in 0..59 /\ m \in 0..59
      /\ t.hour \in 0..23
  BY WantedIs, RequestTypes
<1>2. b \in 0..1 /\ b2 \in 0..1
  OBVIOUS
<1>3. /\ Mod(ReqSecond(t, r) - t.sec, 60) = (ws - s) + 60 * b
      /\ SecondBorrows(t, r) <=> b = 1
  BY <1>0, SecondIs
<1>4. ReqMinute(t, r) = wm - b
  <2> HIDE DEF b
  <2> QED
    BY <1>1, <1>2, <1>3 DEF ReqMinute, Wanted
<1>5. c \in -60..59 /\ ReqMinute(t, r) - t.min = c
  <2> HIDE DEF b, wm
  <2> QED
    BY <1>1, <1>2, <1>4
<1>6. /\ Mod(ReqMinute(t, r) - t.min, 60) = IF c < 0 THEN c + 60 ELSE c
      /\ MinuteBorrows(t, r) <=> b2 = 1
  <2> HIDE DEF c
  <2> QED
    BY <1>5, MinuteIs
<1>7. ReqHour(t, r) - t.hour = b2
  <2> HIDE DEF b2
  <2> QED
    BY <1>1, <1>2, <1>6 DEF ReqHour
<1>8. Mod(ReqHour(t, r) - t.hour, 24) = b2
  BY <1>2, <1>7, HourIs
<1>9. wait - next \in {0, 3600}
  <2>1. b = (IF ws < s THEN 1 ELSE 0) /\ b2 = (IF c < 0 /\ c # -60 THEN 1 ELSE 0)
        /\ c = wm - (b + m) /\ c \in -60..59
    BY <1>5
  <2> HIDE DEF ws, wm, s, m, b, c, b2
  <2> QED
    BY <1>1, <1>2, <2>1
<1>10. next = NextMatch(t, r)
  BY NextHourly
<1>11. parse_time_string(t, r) = wait
  <2> HIDE DEF b, b2, c, ws, wm
  <2> QED
    BY <1>3, <1>6, <1>8, WaitWithoutDay DEF Clock
<1> HIDE DEF wait, next
<1> QED
  BY <1>9, <1>10, <1>11

LEMMA LateMinutely ==
    ASSUME NEW t, IsTime(t), NEW r, IsRequest(r), NoDay(r), BelowMinute(r),
           ~Plain(r), r.hour = -1, r.min = -1
    PROVE  parse_time_string(t, r) - NextMatch(t, r) \in {0, 60}
<1> DEFINE ws == Wanted(r.sec)
           s == t.sec
           b == IF ws < s THEN 1 ELSE 0
           x == ws - s
           next == IF x < 0 THEN x + 60 ELSE x
           wait == ((ws - s) + 60 * b) + 60 * b + 3600 * 0
<1>1. ws \in 0..59 /\ s \in 0..59 /\ t.min \in 0..59 /\ t.hour \in 0..23
  BY WantedIs, RequestTypes
<1>2. b \in 0..1
  OBVIOUS
<1>3. /\ Mod(ReqSecond(t, r) - t.sec, 60) = (ws - s) + 60 * b
      /\ SecondBorrows(t, r) <=> b = 1
  BY SecondIs
<1>4. ReqMinute(t, r) - t.min = b
  <2> HIDE DEF b
  <2> QED
    BY <1>1, <1>2, <1>3 DEF ReqMinute
<1>5. Mod(ReqMinute(t, r) - t.min, 60) = b /\ ~MinuteBorrows(t, r)
  <2> HIDE DEF b
  <2> QED
    BY <1>2, <1>4, MinuteIs
<1>6. ReqHour(t, r) - t.hour = 0
  BY <1>1, <1>5 DEF ReqHour
<1>7. Mod(ReqHour(t, r) - t.hour, 24) = 0
  BY <1>6, HourIs
<1>8. next = NextMatch(t, r)
  BY NextMinutely
<1>9. parse_time_string(t, r) = wait
  <2> HIDE DEF b, ws
  <2> QED
    BY <1>3, <1>5, <1>7, WaitWithoutDay DEF Clock
<1>10. wait - next \in {0, 60}
  <2> HIDE DEF ws, s
  <2> QED
    BY <1>1
<1> HIDE DEF wait, next
<1> QED
  BY <1>8, <1>9, <1>10

\* At every time and for every request without a day: the wait is for the next time
\* that matches, a minute or an hour longer, or for an hour after the midnight that
\* has just passed; the loss of a borrow is the only cause if an hour is named.
THEOREM WaitsAtMostOneUnit == TimeSpec => []LateByOneUnit
<1>1. TimeInv => LateByOneUnit
  <2> SUFFICES ASSUME TimeInv, delay # -1, ~Plain(request), NoDay(request),
                      BelowMinute(request)
               PROVE  LET late == delay - NextMatch(tm, request)
                      IN /\ late \in {0, IF Period(request) = 60 THEN 60 ELSE 3600,
                                      3600 - 86400}
                         /\ late < 0 => request.hour # -1
                         /\ request.hour # -1 /\ ~BorrowLost(tm, request) => late = 0
    BY DEF LateByOneUnit
  <2> DEFINE late == delay - NextMatch(tm, request)
  <2>1. IsTime(tm) /\ IsRequest(request) /\ delay = parse_time_string(tm, request)
    BY DEF TimeInv, TimeTypeOK
  <2>2. CASE request.hour # -1
    <3>1. late \in {0, 3600, 3600 - 86400} /\ (~BorrowLost(tm, request) => late = 0)
      BY <2>1, <2>2, LateDaily
    <3>2. Period(request) = 86400
      BY <2>2 DEF Period
    <3> HIDE DEF late
    <3> QED
      BY <2>2, <3>1, <3>2 DEF late
  <2>3. CASE request.hour = -1 /\ request.min # -1
    <3>1. late \in {0, 3600}
      BY <2>1, <2>3, LateHourly
    <3>2. Period(request) = 3600
      BY <2>3 DEF Period
    <3> HIDE DEF late
    <3> QED
      BY <2>3, <3>1, <3>2 DEF late
  <2>4. CASE request.hour = -1 /\ request.min = -1
    <3>1. late \in {0, 60}
      BY <2>1, <2>4, LateMinutely
    <3>2. Period(request) = 60
      BY <2>4 DEF Period
    <3> HIDE DEF late
    <3> QED
      BY <2>4, <3>1, <3>2 DEF late
  <2> QED
    BY <2>2, <2>3, <2>4
<1> QED
  BY <1>1, TimeInvInvariant, PTL

-----------------------------------------------------------------------------
(* Where a request for a day ends.                                         *)

\* No borrow is lost and none is asked of the day: the clock ends at the hour,
\* minute and second asked for.
LEMMA ClockEndsOnTime ==
    ASSUME NEW t, IsTime(t), NEW r, IsRequest(r), ~NoDay(r), BelowDay(r),
           ~HourBorrows(t, r), ~BorrowLost(t, r)
    PROVE  /\ Wanted(r.hour) \in 0..23
           /\ SecondOfDay(t) + Clock(t, r) =
                3600 * Wanted(r.hour) + (60 * Wanted(r.min) + Wanted(r.sec))
<1> DEFINE ws == Wanted(r.sec)
           wm == Wanted(r.min)
           wh == Wanted(r.hour)
           s == t.sec
           m == t.min
           h == t.hour
           b == IF ws < s THEN 1 ELSE 0
           c == wm - (b + m)
           b2 == IF c < 0 /\ c # -60 THEN 1 ELSE 0
           e == wh - (b2 + h)
<1>0. ~Plain(r) /\ BelowMinute(r)
  BY DEF Plain, BelowDay
<1>1. /\ ws \in 0..59 /\ wm \in 0..59 /\ wh \in 0..23 /\ r.hour \in Nat \cup {-1}
      /\ s \in 0..59 /\ m \in 0..59 /\ h \in 0..23
  <2>1. r.hour < 24 /\ r.hour \in Nat \cup {-1}
    BY RequestTypes DEF BelowDay
  <2>2. wh \in 0..23
    BY <2>1 DEF Wanted
  <2> QED
    BY <1>0, <2>1, <2>2, WantedIs, RequestTypes
<1>2. b \in 0..1 /\ b2 \in 0..1
  OBVIOUS
<1>3. Mod(ReqSecond(t, r) - t.sec, 60) = (ws - s) + 60 * b
  BY <1>0, SecondIs
<1>4. c \in -59..59 /\ ReqMinute(t, r) - t.min = c
  <2>1. LET x == ReqMinute(t, r) - t.min
        IN x \in -60..59 /\ x = wm - (b + m) /\ x # -60
    BY <1>0, MinuteOfHour
  <2> HIDE DEF wm, b, m
  <2> QED
    BY <2>1
<1>5. /\ Mod(ReqMinute(t, r) - t.min, 60) = IF c < 0 THEN c + 60 ELSE c
      /\ MinuteBorrows(t, r) <=> b2 = 1
  <2> HIDE DEF c
  <2> QED
    BY <1>4, MinuteIs
<1>6. ReqHour(t, r) = wh - b2 /\ ~(b2 = 1 /\ wh = 0 /\ h = 23)
  <2> HIDE DEF b2
  <2>1. CASE r.hour # -1
    <3>1. wh = r.hour /\ ReqHour(t, r) = r.hour - b2
      BY <1>1, <1>2, <1>5, <2>1 DEF Wanted, ReqHour
    <3>2. ~(b2 = 1 /\ t.hour - r.hour = 23)
      BY <1>5, <2>1 DEF BorrowLost
    <3> QED
      BY <1>1, <3>1, <3>2
  <2>2. CASE r.hour = -1
    <3>1. b2 # 1
      BY <1>5, <2>2 DEF BorrowLost
    <3>2. wh = 0 /\ ReqHour(t, r) = 0
      BY <1>5, <2>2, <3>1 DEF Wanted, ReqHour
    <3> QED
      BY <1>2, <3>1, <3>2
  <2> QED
    BY <2>1, <2>2
<1>7. e \in 0..23 /\ Mod(ReqHour(t, r) - t.hour, 24) = e
  <2>1. e \in -24..23 /\ e # -24 /\ ReqHour(t, r) - t.hour = e
    <3> HIDE DEF b2, wh
    <3> QED
      BY <1>1, <1>2, <1>6
  <2> HIDE DEF e
  <2>2. /\ Mod(ReqHour(t, r) - t.hour, 24) = IF e < 0 THEN e + 24 ELSE e
        /\ HourBorrows(t, r) <=> e < 0 /\ e # -24
    BY <2>1, HourIs
  <2> QED
    BY <2>1, <2>2
<1>8. Clock(t, r) = ((ws - s) + 60 * b) + 60 * (IF c < 0 THEN c + 60 ELSE c) + 3600 * e
  <2> HIDE DEF ws, b, c, e
  <2> QED
    BY <1>3, <1>5, <1>7 DEF Clock
<1>9. SecondOfDay(t) = 3600 * h + 60 * m + s
  BY DEF SecondOfDay
<1>10. (3600 * h + 60 * m + s)
       + (((ws - s) + 60 * b) + 60 * (IF c < 0 THEN c + 60 ELSE c) + 3600 * e)
         = 3600 * wh + (60 * wm + ws)
  <2>1. /\ c = wm - (b + m) /\ e = wh - (b2 + h)
        /\ b2 = IF c < 0 /\ c # -60 THEN 1 ELSE 0
    OBVIOUS
  <2> HIDE DEF ws, wm, wh, s, m, h, b, c, b2, e
  <2> QED
    BY <1>1, <1>2, <1>4, <1>7, <2>1
<1>11. SecondOfDay(t) + Clock(t, r) = 3600 * wh + (60 * wm + ws)
  <2> HIDE DEF ws, wm, wh, s, m, h, b, c, e
  <2> QED
    BY <1>8, <1>9, <1>10
<1> QED
  BY <1>1, <1>11

\* The time reached is on the day that many days later, at that hour.
LEMMA EndsOnDay ==
    ASSUME NEW t, IsTime(t), NEW r, IsRequest(r), ~NoDay(r), BelowDay(r),
           ~HourBorrows(t, r), ~BorrowLost(t, r)
    PROVE  LET at == TimeAfter(t, parse_time_string(t, r))
               on == DaysLater(t, ResultDays(t, r))
           IN /\ at.hour = Wanted(r.hour)
              /\ at.mday = on.mday /\ at.wday = on.wday
              /\ at.year = on.year /\ at.mon = on.mon
<1> DEFINE d == ResultDays(t, r)
           wh == Wanted(r.hour)
           x == 60 * Wanted(r.min) + Wanted(r.sec)
           s == SecondOfDay(t) + parse_time_string(t, r)
           n == s \div 86400
<1>1. d \in Nat /\ t.mday + d <= month_days(t.year, t.mon)
                      + month_days(NextMonth(t).year, NextMonth(t).mon) + 26
  BY DaysAhead
<1>2. wh \in 0..23 /\ SecondOfDay(t) + Clock(t, r) = 3600 * wh + x
  BY ClockEndsOnTime
<1>3. x \in Int /\ 0 <= x /\ x < 3600
  BY WantedIs DEF BelowDay
<1>4. /\ parse_time_string(t, r) = 86400 * d + Clock(t, r)
      /\ Clock(t, r) \in Nat /\ SecondOfDay(t) \in Nat
  BY ClockIsBelowADay, SecondsOfDay
<1>5. TimeAfter(t, parse_time_string(t, r)) = AtSecond(DaysLater(t, n), s)
  BY DEF TimeAfter
<1> HIDE DEF d, wh, x
<1>6. s = 86400 * d + (3600 * wh + x)
  <2> DEFINE sod == SecondOfDay(t)
             c == Clock(t, r)
  <2>1. s = sod + (86400 * d + c) /\ sod \in Nat /\ c \in Nat /\ sod + c = 3600 * wh + x
    BY <1>2, <1>4
  <2> HIDE DEF sod, c, s
  <2> QED
    BY <1>1, <1>2, <1>3, <2>1
<1> HIDE DEF n, s
<1>7. n = d /\ s \in Int
  <2>1. 3600 * wh + x \in Int /\ 0 <= 3600 * wh + x /\ 3600 * wh + x < 86400
    BY <1>2, <1>3
  <2> DEFINE y == 3600 * wh + x
  <2> HIDE DEF y
  <2>2. (86400 * d + y) \div 86400 = d
    BY <1>1, <2>1, DayOfSeconds DEF y
  <2>3. 86400 * d + y \in Int
    BY <1>1, <2>1 DEF y
  <2> QED
    BY <1>6, <2>2, <2>3 DEF n, y
<1>8. (s \div 3600) % 24 = wh
  BY <1>1, <1>2, <1>3, <1>6, HourOfSeconds
<1>9. IsTime(DaysLater(t, d))
  <2> month_days(t.year, t.mon) \in 28..31 /\ t.mday \in Int
      /\ month_days(NextMonth(t).year, NextMonth(t).mon) \in 28..31
    BY MonthDays DEF IsTime, TimeFields
  <2> QED
    BY <1>1, DaysLaterIsTime
<1>10. LET at == AtSecond(DaysLater(t, d), s)
           on == DaysLater(t, d)
       IN /\ at.hour = wh /\ at.mday = on.mday /\ at.wday = on.wday
          /\ at.year = on.year /\ at.mon = on.mon
  <2> DEFINE on == DaysLater(t, d)
  <2>1. IsTime(on) /\ s \in Int
    BY <1>7, <1>9
  <2> HIDE DEF on
  <2>2. LET at == AtSecond(on, s)
        IN /\ at.hour = (s \div 3600) % 24 /\ at.mday = on.mday /\ at.wday = on.wday
           /\ at.year = on.year /\ at.mon = on.mon
    BY <2>1, AtSecondIs
  <2>3. AtSecond(on, s).hour = wh
    BY <1>8, <2>2
  <2> QED
    BY <2>2, <2>3 DEF on
<1>11. TimeAfter(t, parse_time_string(t, r)) = AtSecond(DaysLater(t, d), s)
  BY <1>5, <1>7
<1> QED
  BY <1>10, <1>11 DEF d, wh

\* The day asked for and the time of the clock make the day, if it is not lost.
LEMMA DayOfWeekIs ==
    ASSUME NEW t, IsTime(t), NEW r, IsRequest(r), r.weekday # -1, ~HourBorrows(t, r)
    PROVE  ResultDays(t, r) \in 0..6 /\ (t.wday + ResultDays(t, r)) % 7 = r.weekday
<1>1. r.weekday \in 0..6 /\ t.wday \in 0..6 /\ r.monthday = 0
  BY DEF IsRequest, IsTime, TimeFields
<1>2. ResultDays(t, r) = (r.weekday - t.wday) % 7
  BY <1>1 DEF ResultDays, Mod
<1>3. ResultDays(t, r) \in 0..6
  BY <1>1, <1>2, Remainder7
<1> QED
  BY <1>1, <1>2, <1>3, WeekDay


LEMMA WithinTwoMonths ==
    ASSUME NEW t, IsTime(t), NEW n \in Nat,
           t.mday + n <= month_days(t.year, t.mon)
                         + month_days(NextMonth(t).year, NextMonth(t).mon)
    PROVE  LET on == DaysLater(t, n)
               len == month_days(t.year, t.mon)
               nextLen == month_days(NextMonth(t).year, NextMonth(t).mon)
               last == month_days(on.year, on.mon)
           IN /\ on.wday = (t.wday + n) % 7
              /\ t.mday + n <= len => on.mday = t.mday + n /\ last = len
              /\ t.mday + n > len => on.mday = (t.mday + n) - len /\ last = nextLen
<1> DEFINE on == DaysLater(t, n)
           len == month_days(t.year, t.mon)
           next == NextMonth(t)
           nextLen == month_days(next.year, next.mon)
           day == t.mday + n
           w == (t.wday + n) % 7
<1>1. t \in TimeFields /\ t.mday \in 1..31 /\ t.wday \in Int
  BY DEF IsTime, TimeFields
<1>2. len \in 28..31 /\ nextLen \in 28..31 /\ next \in TimeFields
  BY <1>1, MonthDays, NextMonthIs
<1>3. day \in Nat /\ day >= 1 /\ w \in 0..6
  BY <1>1, Remainder7
<1>4. CASE day <= len
  <2>1. on = OnDay(t, day, w)
    BY <1>4, InThisMonth
  <2>2. day \in 1..31 /\ ~(day > len)
    BY <1>2, <1>3, <1>4
  <2> HIDE DEF day, w, on
  <2>3. on.mday = day /\ on.wday = w /\ on.year = t.year /\ on.mon = t.mon
    BY <1>1, <1>3, <1>4, <2>1, <2>2, OnDayIs
  <2> HIDE DEF len
  <2> QED
    BY <2>2, <2>3 DEF on, day, w, len
<1>5. CASE ~(day <= len)
  <2>1. on = OnDay(next, day - len, w)
    BY <1>5, InNextMonth
  <2>2. day - len \in 1..31 /\ day - len <= nextLen
    BY <1>2, <1>3, <1>5
  <2> HIDE DEF w, on
  <2>3. on.mday = day - len /\ on.wday = w /\ on.year = next.year /\ on.mon = next.mon
    <3> HIDE DEF day, len
    <3> QED
      BY <1>2, <1>3, <2>1, <2>2, OnDayIs
  <2> QED
    BY <1>5, <2>3 DEF on, w
<1> QED
  BY <1>4, <1>5

\* The day of the month is found, in this month or in the next, unless it is lost.
LEMMA DayOfMonthIs ==
    ASSUME NEW t, IsTime(t), NEW r, IsRequest(r), r.monthday # 0,
           ~HourBorrows(t, r), ~DayLost(t, r)
    PROVE  LET on == DaysLater(t, ResultDays(t, r))
               last == month_days(on.year, on.mon)
           IN on.mday = IF r.monthday > 0 THEN r.monthday ELSE last + 1 + r.monthday
<1> DEFINE len == month_days(t.year, t.mon)
           next == NextMonth(t)
           nextLen == month_days(next.year, next.mon)
           k == r.monthday
           md == FromEnd(k)
           n == parse_month(t, k)
           on == DaysLater(t, n)
           last == month_days(on.year, on.mon)
           day == RequestedDay(md, len)
<1>1. /\ k \in -31..31 /\ k # 0 /\ t.mday \in 1..len
      /\ len \in 28..31 /\ nextLen \in 28..31
  BY MonthDays, MonthLength DEF IsRequest
<1>2. ResultDays(t, r) = n
  <2>1. ResultDays(t, r) = parse_month(t, r.monthday + 0)
    BY DEF ResultDays
  <2>2. r.monthday + 0 = r.monthday
    BY <1>1
  <2> QED
    BY <2>1, <2>2
<1>3. k \in -31..32
  BY <1>1
<1>4. /\ md = (IF k > 0 THEN k ELSE k + 1)
      /\ day = (IF md > 0 THEN md ELSE len + md)
  <2> HIDE DEF k, len
  <2> QED
    BY <1>1, <1>3, RequestedIs
<1>5. n \in Nat /\ t.mday + n <= len + nextLen =>
        /\ t.mday + n <= len => on.mday = t.mday + n /\ last = len
        /\ t.mday + n > len => on.mday = (t.mday + n) - len /\ last = nextLen
  <2> HIDE DEF n
  <2> QED
    BY WithinTwoMonths
<1>6. CASE MovesOn(t, md)
  <2> DEFINE d == IF md > 0 THEN md ELSE 31 + md
  <2>1. /\ n \in Nat /\ (md > 0 \/ len < 31) /\ (len < 31 => d \in 1..32)
        /\ (md > 0 => md > len) /\ t.mday + n = len + d
    <3> HIDE DEF k
    <3> QED
      BY <1>3, <1>6, MovesToNext
  <2>2. len < 31 => nextLen = 31
    BY LongMonthFollows
  <2> HIDE DEF len, nextLen, md, n, last, on, k
  <2>3. len < 31 /\ nextLen = 31 /\ d \in 1..31
    BY <1>1, <1>4, <2>1, <2>2
  <2>4. on.mday = d /\ last = 31
    BY <1>1, <1>5, <2>1, <2>3
  <2>5. d = IF k > 0 THEN k ELSE last + 1 + k
    BY <1>1, <1>4, <2>4
  <2> QED
    BY <1>2, <2>4, <2>5 DEF on, last, k
<1>7. CASE ~MovesOn(t, md)
  <2>1. /\ day \in 0..len /\ n \in Nat
        /\ t.mday + n = IF day < t.mday THEN len + day ELSE day
    <3> HIDE DEF k
    <3> QED
      BY <1>3, <1>7, StaysInMonth
  <2>2. /\ day # 0
        /\ day < t.mday => IF k > 0 THEN day <= nextLen ELSE len = nextLen
    <3>1. ~(day = 0 \/ (day < t.mday /\ IF k > 0 THEN day > nextLen ELSE len # nextLen))
      BY <1>1, <1>7 DEF DayLost
    <3> HIDE DEF day, nextLen, k
    <3> QED
      BY <1>1, <2>1, <3>1
  <2> HIDE DEF len, nextLen, md, n, last, on, k, day
  <2>3. CASE day < t.mday
    <3>1. on.mday = day /\ last = nextLen
      BY <1>1, <1>4, <1>5, <2>1, <2>2, <2>3
    <3>2. day = IF k > 0 THEN k ELSE last + 1 + k
      BY <1>1, <1>4, <2>2, <2>3, <3>1
    <3> QED
      BY <1>2, <3>1, <3>2 DEF on, last, k
  <2>4. CASE ~(day < t.mday)
    <3>1. on.mday = day /\ last = len
      BY <1>1, <1>5, <2>1, <2>4
    <3>2. day = IF k > 0 THEN k ELSE last + 1 + k
      BY <1>1, <1>4, <3>1
    <3> QED
      BY <1>2, <3>1, <3>2 DEF on, last, k
  <2> QED
    BY <2>3, <2>4
<1> QED
  BY <1>6, <1>7

\* At every time and for every request for a day: it ends on that day of the week or
\* of the month and at that hour, unless the hour has to borrow from the day, or a
\* borrow or the day is lost.
THEOREM RequestsLandOnDay == TimeSpec => []LandsOnDay
<1>1. TimeInv => LandsOnDay
  <2> SUFFICES ASSUME TimeInv, delay # -1, ~NoDay(request), BelowDay(request),
                      ~HourBorrows(tm, request), ~BorrowLost(tm, request),
                      ~DayLost(tm, request)
               PROVE  LET at == TimeAfter(tm, delay)
                          last == month_days(at.year, at.mon)
                      IN /\ at.hour = Wanted(request.hour) % 24
                         /\ request.weekday # -1 => at.wday = request.weekday
                         /\ request.monthday > 0 => at.mday = request.monthday
                         /\ request.monthday < 0 => at.mday = last + 1 + request.monthday
    BY DEF LandsOnDay
  <2> DEFINE on == DaysLater(tm, ResultDays(tm, request))
             at == TimeAfter(tm, delay)
             last == month_days(at.year, at.mon)
  <2>1. IsTime(tm) /\ IsRequest(request) /\ delay = parse_time_string(tm, request)
    BY DEF TimeInv, TimeTypeOK
  <2>2. /\ at.hour = Wanted(request.hour)
        /\ at.mday = on.mday /\ at.wday = on.wday
        /\ at.year = on.year /\ at.mon = on.mon
    BY <2>1, EndsOnDay
  <2>3. Wanted(request.hour) % 24 = Wanted(request.hour)
    <3>1. Wanted(request.hour) \in 0..23
      BY <2>1, ClockEndsOnTime
    <3> QED
      BY <3>1
  <2>4. request.weekday # -1 => on.wday = request.weekday
    <3> SUFFICES ASSUME request.weekday # -1 PROVE on.wday = request.weekday
      OBVIOUS
    <3> DEFINE n == ResultDays(tm, request)
    <3>1. n \in 0..6 /\ (tm.wday + n) % 7 = request.weekday
      BY <2>1, DayOfWeekIs
    <3> HIDE DEF n
    <3>2. tm.mday + n <= month_days(tm.year, tm.mon)
                         + month_days(NextMonth(tm).year, NextMonth(tm).mon)
      <4>1. /\ month_days(tm.year, tm.mon) \in 28..31
            /\ tm.mday \in 1..month_days(tm.year, tm.mon)
            /\ month_days(NextMonth(tm).year, NextMonth(tm).mon) \in 28..31
        BY <2>1, MonthLength, MonthDays
      <4> QED
        BY <3>1, <4>1
    <3>3. DaysLater(tm, n).wday = (tm.wday + n) % 7
      BY <2>1, <3>1, <3>2, WithinTwoMonths
    <3> QED
      BY <3>1, <3>3 DEF n
  <2>5. request.monthday # 0 =>
          on.mday = IF request.monthday > 0 THEN request.monthday
                    ELSE last + 1 + request.monthday
    BY <2>1, <2>2, DayOfMonthIs
  <2>6. request.monthday \in Int
    BY <2>1 DEF IsRequest
  <2> HIDE DEF on, at, last
  <2> QED
    BY <2>2, <2>3, <2>4, <2>5, <2>6 DEF at, last
<1> QED
  BY <1>1, TimeInvInvariant, PTL
=============================================================================
