----------------------------- MODULE TimeString -----------------------------
(***************************************************************************)
(* The time strings of exe_service: what wait_and("EVERY ...") turns the   *)
(* local time into (src/source/exe_service/lua_module.cpp, month_days to   *)
(* parse_time_string), and a script that waits for such a string again and *)
(* again.                                                                  *)
(*                                                                         *)
(* A broken-down time is a record with the fields of struct tm.  A request *)
(* is what was read from the string: a field that is absent is -1, and 0   *)
(* for MONTHDAY.  The result is a number of seconds.  The regular          *)
(* expressions and the reading of the numbers are left out, as are days of *)
(* 23 and 25 hours, which the code says it does not handle.                *)
(***************************************************************************)
EXTENDS Integers

CONSTANTS
    Starts,      \* broken-down times at which the script begins
    EveryOf,     \* requests the script may make
    Lateness,    \* seconds from a time point to the script's next wait: a day at most
    MaxWaits     \* bound: calls of wait

LeapYear(y) == (y % 4 = 0 /\ y % 100 # 0) \/ y % 400 = 0

month_days(year, month) ==
    CASE month = 1 -> IF LeapYear(year) THEN 29 ELSE 28
      [] month \in {0, 2, 4, 6, 7, 9, 11} -> 31
      [] OTHER -> 30

\* The year is tm_year + 1900; fields are in the ranges localtime_r gives them.
TimeFields == [year : Nat, mon : 0..11, mday : 1..31, wday : 0..6,
               hour : 0..23, min : 0..59, sec : 0..59]

IsTime(t) == t \in TimeFields /\ t.mday <= month_days(t.year, t.mon)

\* An hour, minute or second is at least 0 when it is there at all.
IsRequest(r) ==
    /\ r.monthday \in -31..31 /\ r.weekday \in -1..6
    /\ r.hour \in Nat \cup {-1} /\ r.min \in Nat \cup {-1} /\ r.sec \in Nat \cup {-1}
    /\ r.monthday # 0 => r.weekday = -1

ASSUME TimeStringAssumption ==
    /\ \A t \in Starts : IsTime(t)
    /\ \A r \in EveryOf : IsRequest(r)
    /\ \A late \in Lateness : late \in Nat /\ late <= 86400
    /\ MaxWaits \in Nat

VARIABLES
    tm,        \* the local time when the script calls wait
    request,   \* what the script waits for, for ever
    delay,     \* seconds to the time point parse_time_string returned; -1: not waiting
    waits      \* calls of wait so far

timeVars == <<tm, request, delay, waits>>

-----------------------------------------------------------------------------
(* The calendar arithmetic.                                                *)

\* mod() and its flag: C++ rounds towards zero, so that the flag tells of a
\* negative remainder, not of a negative number.
Mod(a, b) == a % b
Underflow(a, b) == a < 0 /\ a % b # 0

\* The month parse_month counts in: the next one if the requested day is not
\* in this one.
RequestedDay(monthday, days) == IF monthday > 0 THEN monthday ELSE days + monthday

MovesOn(t, monthday) ==
    LET days == month_days(t.year, t.mon)
        day == RequestedDay(monthday, days)
    IN day < 0 \/ day > days

NextMonth(t) ==
    IF t.mon = 11 THEN [t EXCEPT !.mon = 0, !.year = @ + 1] ELSE [t EXCEPT !.mon = @ + 1]

\* Mutant: the last day of the month is one too early.
FromEnd_AsIs(reqMonthday) == reqMonthday

\* The last day of the month is asked for as -1 and counted as 0.
FromEnd(reqMonthday) == IF reqMonthday > 0 THEN reqMonthday ELSE reqMonthday + 1

\* Days from t to the requested day of the month.
parse_month(t, reqMonthday) ==
    LET monthday == FromEnd(reqMonthday)
        days == month_days(t.year, t.mon)
        first == RequestedDay(monthday, days)
        moves == MovesOn(t, monthday)
        month == IF moves THEN NextMonth(t) ELSE t
        inMonth == month_days(month.year, month.mon)
        day == IF moves /\ first < 0 THEN inMonth + monthday ELSE first
        since == day - (IF moves THEN 1 ELSE t.mday)
    IN (IF since < 0 THEN since + inMonth ELSE since)
       + (IF moves THEN days - t.mday + 1 ELSE 0)

-----------------------------------------------------------------------------
(* parse_time_string, the EVERY part.                                      *)

NoDay(r) == r.weekday = -1 /\ r.monthday = 0

\* The second, minute and hour asked for, each with the borrow of the smaller
\* one taken from it, or what stands in for one that is absent.
ReqSecond(t, r) ==
    IF r.sec # -1 THEN r.sec
    ELSE IF NoDay(r) /\ r.hour = -1 /\ r.min = -1 THEN t.sec + 1 ELSE 0

SecondBorrows(t, r) == Underflow(ReqSecond(t, r) - t.sec, 60)

ReqMinute(t, r) ==
    LET borrow == SecondBorrows(t, r)
    IN IF r.min # -1 THEN IF borrow THEN r.min - 1 ELSE r.min
       ELSE IF NoDay(r) /\ r.hour = -1 THEN IF borrow THEN t.min + 1 ELSE t.min
       ELSE IF borrow THEN 59 ELSE 0

MinuteBorrows(t, r) == Underflow(ReqMinute(t, r) - t.min, 60)

\* Mutant: the hour does not lend the minute anything.
ReqHour_NoBorrow(t, r) == IF r.hour # -1 THEN r.hour ELSE IF NoDay(r) THEN t.hour ELSE 0

ReqHour(t, r) ==
    LET borrow == MinuteBorrows(t, r)
    IN IF r.hour # -1 THEN IF borrow THEN r.hour - 1 ELSE r.hour
       ELSE IF NoDay(r) THEN IF borrow THEN t.hour + 1 ELSE t.hour
       ELSE IF borrow THEN 23 ELSE 0

HourBorrows(t, r) == Underflow(ReqHour(t, r) - t.hour, 24)

\* The day is asked for one later, not one earlier, if the hour borrows.
ResultDays(t, r) ==
    LET later == IF HourBorrows(t, r) THEN 1 ELSE 0
    IN IF r.monthday # 0 THEN parse_month(t, r.monthday + later)
       ELSE IF r.weekday # -1 THEN Mod(r.weekday + later - t.wday, 7)
       ELSE 0

parse_time_string(t, r) ==
    Mod(ReqSecond(t, r) - t.sec, 60)
    + 60 * Mod(ReqMinute(t, r) - t.min, 60)
    + 3600 * Mod(ReqHour(t, r) - t.hour, 24)
    + 86400 * ResultDays(t, r)

-----------------------------------------------------------------------------
(* The script, and the clock that passes while it waits.                   *)

\* The fields of a time that the day, and those that the second of the day, sets.
OnDay(t, mday, wday) == [t EXCEPT !.mday = mday, !.wday = wday]
AtSecond(t, s) == [t EXCEPT !.sec = s % 60, !.min = (s \div 60) % 60,
                            !.hour = (s \div 3600) % 24]

\* The local time n days after t, up to the month after the next.
DaysLater(t, n) ==
    LET len == month_days(t.year, t.mon)
        next == NextMonth(t)
        nextLen == month_days(next.year, next.mon)
        day == t.mday + n
        month == IF day <= len THEN t
                 ELSE IF day <= len + nextLen THEN next ELSE NextMonth(next)
        before == IF day <= len THEN 0
                  ELSE IF day <= len + nextLen THEN len ELSE len + nextLen
    IN OnDay(month, day - before, (t.wday + n) % 7)

SecondOfDay(t) == 3600 * t.hour + 60 * t.min + t.sec

TimeAfter(t, n) ==
    LET s == SecondOfDay(t) + n
    IN AtSecond(DaysLater(t, s \div 86400), s)

TimeInit ==
    /\ tm \in Starts
    /\ request \in EveryOf
    /\ delay = -1
    /\ waits = 0

\* wait parses the string and puts the time point into the map.
WaitEvery ==
    /\ delay = -1
    /\ waits < MaxWaits
    /\ delay' = parse_time_string(tm, request)
    /\ waits' = waits + 1
    /\ UNCHANGED <<tm, request>>

\* The time thread notices the time point, the script runs and comes back.
WakeAndLoop(late) ==
    /\ delay # -1
    /\ tm' = TimeAfter(tm, delay + late)
    /\ delay' = -1
    /\ UNCHANGED <<request, waits>>

TimeNext == WaitEvery \/ \E late \in Lateness : WakeAndLoop(late)

TimeSpec == TimeInit /\ [][TimeNext]_timeVars

-----------------------------------------------------------------------------
(* Properties.                                                             *)

\* What is asked for when the smaller fields that are absent stand for 0.
Plain(r) == NoDay(r) /\ r.hour = -1 /\ r.min = -1 /\ r.sec = -1
Wanted(field) == IF field = -1 THEN 0 ELSE field

\* How often a time of day that matches comes round, in seconds.
Period(r) == IF r.hour # -1 THEN 86400 ELSE IF r.min # -1 THEN 3600 ELSE 60

\* Seconds to the next time of day that matches, the present one included.
NextMatch(t, r) ==
    (3600 * (Wanted(r.hour) % 24) + 60 * Wanted(r.min) + Wanted(r.sec) - SecondOfDay(t))
        % Period(r)

\* A borrow that is not passed on: the minute (or the hour) is absent and 59 (23)
\* stands in for -1, or the difference is -60 (-24) exactly.
BorrowLost(t, r) ==
    \/ /\ SecondBorrows(t, r)
       /\ IF r.min = -1 THEN r.hour # -1 \/ ~NoDay(r) ELSE t.min - r.min = 59
    \/ /\ MinuteBorrows(t, r)
       /\ IF r.hour = -1 THEN ~NoDay(r) ELSE t.hour - r.hour = 23 /\ ~NoDay(r)

\* The day of the month is past, and the next month is counted by the length of
\* this one although it is too short, or of another length when the day is
\* counted from the end; or a day before the first one was computed.
DayLost(t, r) ==
    LET len == month_days(t.year, t.mon)
        next == NextMonth(t)
        nextLen == month_days(next.year, next.mon)
        day == RequestedDay(FromEnd(r.monthday), len)
    IN /\ r.monthday # 0
       /\ ~MovesOn(t, FromEnd(r.monthday))
       /\ \/ day = 0
          \/ day < t.mday /\ IF r.monthday > 0 THEN day > nextLen ELSE len # nextLen

\* The code takes any number for an hour, a minute or a second.
BelowMinute(r) == r.min < 60 /\ r.sec < 60
BelowDay(r) == BelowMinute(r) /\ r.hour < 24

\* A request without a day is served when it should be, one minute late (if it
\* names but a second) or one hour late, where late for midnight is an hour after
\* the midnight that has just passed; in time if it names the hour and no borrow
\* is lost.
LateByOneUnit ==
    delay # -1 /\ ~Plain(request) /\ NoDay(request) /\ BelowMinute(request) =>
        LET late == delay - NextMatch(tm, request)
        IN /\ late \in {0, IF Period(request) = 60 THEN 60 ELSE 3600, 3600 - 86400}
           /\ late < 0 => request.hour # -1
           /\ request.hour # -1 /\ ~BorrowLost(tm, request) => late = 0

\* A request for a day of the week or of the month ends on that day and at that
\* hour, unless the hour has to borrow from the day, a borrow or the day is lost.
LandsOnDay ==
    /\ delay # -1 /\ ~NoDay(request) /\ BelowDay(request)
    /\ ~HourBorrows(tm, request) /\ ~BorrowLost(tm, request) /\ ~DayLost(tm, request)
    =>
        LET at == TimeAfter(tm, delay)
            last == month_days(at.year, at.mon)
        IN /\ at.hour = Wanted(request.hour) % 24
           /\ request.weekday # -1 => at.wday = request.weekday
           /\ request.monthday > 0 => at.mday = request.monthday
           /\ request.monthday < 0 => at.mday = last + 1 + request.monthday

-----------------------------------------------------------------------------
(* The inductive invariant behind what is proved.                          *)

TimeTypeOK ==
    /\ IsTime(tm) /\ IsRequest(request)
    /\ delay \in Nat \cup {-1}
    /\ waits \in 0..MaxWaits

TimeInv ==
    /\ TimeTypeOK
    /\ delay # -1 => delay = parse_time_string(tm, request)
=============================================================================
