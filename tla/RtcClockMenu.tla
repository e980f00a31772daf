---------------------------- MODULE RtcClockMenu ----------------------------
(***************************************************************************)
(* The clock menu of src/utils/rtc_clock_menu.c: it reads the real time    *)
(* clock once, edits the copy field by field and writes it back with `w`.  *)
(* Fields are those of struct tm: years count from 1900, months from 0.    *)
(***************************************************************************)
EXTENDS Integers

CONSTANTS
    TypedYears, TypedMonths, TypedDays, TypedTimes,  \* numbers the user types
    InitialClocks   \* what the battery-backed clock may hold at first

VARIABLES
    clock,  \* the hardware clock (external)
    time,   \* struct tm of handle_rtc_clock_menu
    open    \* the menu is open

vars == <<clock, time, open>>

Tm == [year: 0..199, mon: 0..11, mday: 1..31, hour: 0..23, min: 0..59,
       sec: 0..59]

-----------------------------------------------------------------------------
DaysCommon == <<31, 28, 31, 30, 31, 30, 31, 31, 30, 31, 30, 31>>
DaysLeap   == <<31, 29, 31, 30, 31, 30, 31, 31, 30, 31, 30, 31>>

\* Slip: only the fourth year counts.
LeapYear_Julian(t) == t.year % 4 = 0

\* leap_year: the year counts from 1900, so the % 100 rule takes 2000 out.
LeapYear(t) == t.year % 4 = 0 /\ t.year % 100 # 0

DaysInMonth(t) == IF LeapYear(t) THEN DaysLeap[t.mon + 1] ELSE DaysCommon[t.mon + 1]

\* Slip: the day stays.
FixDays_None(t) == t

\* Slip: the first instead of the last day of the month.
FixDays_First(t) == IF t.mday > DaysInMonth(t) THEN [t EXCEPT !.mday = 1] ELSE t

\* check_and_fix_days
FixDays(t) == IF t.mday > DaysInMonth(t) THEN [t EXCEPT !.mday = DaysInMonth(t)]
                                         ELSE t

\* The calendar, as a reference.
GregorianLeap(year) == year % 4 = 0 /\ (year % 100 # 0 \/ year % 400 = 0)
GregorianDays(t) ==
    IF GregorianLeap(t.year + 1900) THEN DaysLeap[t.mon + 1] ELSE DaysCommon[t.mon + 1]

ASSUME ClockAssumption ==
    /\ TypedYears \subseteq Nat /\ TypedMonths \subseteq Nat
    /\ TypedDays \subseteq Nat /\ TypedTimes \subseteq Nat
    /\ InitialClocks \subseteq Tm
    /\ \A c \in InitialClocks : c.mday <= GregorianDays(c)

-----------------------------------------------------------------------------
Init == /\ clock \in InitialClocks
        /\ time = clock
        /\ open = FALSE

OpenMenu ==
    /\ ~open
    /\ open' = TRUE
    /\ time' = clock
    /\ UNCHANGED clock

\* A number outside the range is refused with a message.
SetYear(n) ==
    /\ open
    /\ n >= 1900 /\ n <= 2099
    /\ time' = FixDays([time EXCEPT !.year = n - 1900])
    /\ UNCHANGED <<clock, open>>

SetMonth(n) ==
    /\ open
    /\ n >= 1 /\ n <= 12
    /\ time' = FixDays([time EXCEPT !.mon = n - 1])
    /\ UNCHANGED <<clock, open>>

\* Slip: any day of a long month is taken.
SetDay_Any(n) ==
    /\ open
    /\ n >= 1 /\ n <= 31
    /\ time' = [time EXCEPT !.mday = n]
    /\ UNCHANGED <<clock, open>>

SetDay(n) ==
    /\ open
    /\ n >= 1 /\ n <= DaysInMonth(time)
    /\ time' = [time EXCEPT !.mday = n]
    /\ UNCHANGED <<clock, open>>

SetHour(n) ==
    /\ open
    /\ n <= 23
    /\ time' = [time EXCEPT !.hour = n]
    /\ UNCHANGED <<clock, open>>

\* Slip: the bound of the hours' neighbour, off by one.
SetMinute_Sixty(n) ==
    /\ open
    /\ n <= 60
    /\ time' = [time EXCEPT !.min = n]
    /\ UNCHANGED <<clock, open>>

SetMinute(n) ==
    /\ open
    /\ n <= 59
    /\ time' = [time EXCEPT !.min = n]
    /\ UNCHANGED <<clock, open>>

SetSecond(n) ==
    /\ open
    /\ n <= 59
    /\ time' = [time EXCEPT !.sec = n]
    /\ UNCHANGED <<clock, open>>

WriteAndExit ==
    /\ open
    /\ clock' = time
    /\ open' = FALSE
    /\ UNCHANGED time

ExitWithoutWriting ==
    /\ open
    /\ open' = FALSE
    /\ UNCHANGED <<clock, time>>

Next ==
    \/ OpenMenu
    \/ \E n \in TypedYears : SetYear(n)
    \/ \E n \in TypedMonths : SetMonth(n)
    \/ \E n \in TypedDays : SetDay(n)
    \/ \E n \in TypedTimes : SetHour(n) \/ SetMinute(n) \/ SetSecond(n)
    \/ WriteAndExit
    \/ ExitWithoutWriting

Spec == Init /\ [][Next]_vars

-----------------------------------------------------------------------------
(* Properties                                                              *)

\* The fields of the menu's struct tm stay in the ranges the C library and the
\* clock chip expect, whatever numbers are typed.
TypeOK == clock \in Tm /\ time \in Tm /\ open \in BOOLEAN

\* Whatever order year, month and day are typed in, the date the menu shows,
\* and the one the clock gets, is a date of the calendar.
DatesExist == time.mday <= GregorianDays(time) /\ clock.mday <= GregorianDays(clock)

\* "if the day is higher than possible, set it to the last day in month": a
\* year or a month that is typed changes no day that is possible there, for
\* every year but 2000, which the code takes for a common year.
OnlyImpossibleDaysFixedBut2000 ==
    [][open /\ open' /\ (time'.year # time.year \/ time'.mon # time.mon)
            /\ time'.year # 100
         => time'.mday = time.mday
            \/ (time.mday > GregorianDays(time') /\ time'.mday = GregorianDays(time'))]_vars
=============================================================================
