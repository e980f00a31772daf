------------------------ MODULE RtcClockMenu_proofs -------------------------
(***************************************************************************)
(* The clock menu never leaves the calendar, whatever numbers are typed    *)
(* and whatever date the clock starts with.                                *)
(***************************************************************************)
EXTENDS RtcClockMenu, TLAPS

IInv == TypeOK /\ DatesExist

-----------------------------------------------------------------------------
(* The code's calendar beside the reference.                               *)

\* leap_year never claims a leap year that the calendar does not have.
LEMMA LeapYearIsGregorian ==
    ASSUME NEW t \in Tm, LeapYear(t)
    PROVE  GregorianLeap(t.year + 1900)
<1>1. t.year \in 0..199 BY DEF Tm
<1>2. (t.year + 1900) % 4 = t.year % 4 BY <1>1, SMT
<1>3. t.year % 100 # 0 => (t.year + 1900) % 100 # 0 BY <1>1, SMT
<1> QED BY <1>2, <1>3 DEF LeapYear, GregorianLeap

\* So the code's months are never longer than the calendar's.
LEMMA DaysInMonthBounded ==
    ASSUME NEW t \in Tm
    PROVE  /\ DaysInMonth(t) \in 28..31
           /\ DaysInMonth(t) <= GregorianDays(t)
<1>1. t.mon + 1 \in 1..12 BY DEF Tm
<1>2. /\ DaysCommon[t.mon + 1] \in 28..31
      /\ DaysLeap[t.mon + 1] \in 28..31
      /\ DaysCommon[t.mon + 1] <= DaysLeap[t.mon + 1]
  BY <1>1 DEF DaysCommon, DaysLeap
<1>3. LeapYear(t) => GregorianLeap(t.year + 1900) BY LeapYearIsGregorian
<1> QED BY <1>2, <1>3 DEF DaysInMonth, GregorianDays

\* check_and_fix_days makes any date a date of the calendar.
LEMMA FixDaysFixes ==
    ASSUME NEW t \in Tm
    PROVE  /\ FixDays(t) \in Tm
           /\ FixDays(t).mday <= GregorianDays(FixDays(t))
<1>1. /\ DaysInMonth(t) \in 28..31
      /\ DaysInMonth(t) <= GregorianDays(t)
  BY DaysInMonthBounded
<1>2. CASE t.mday > DaysInMonth(t)
  <2>1. FixDays(t) = [t EXCEPT !.mday = DaysInMonth(t)] BY <1>2 DEF FixDays
  <2>2. FixDays(t) \in Tm BY <1>1, <2>1 DEF Tm
  <2>3. /\ FixDays(t).year = t.year
        /\ FixDays(t).mon = t.mon
        /\ FixDays(t).mday = DaysInMonth(t)
    BY <2>1 DEF Tm
  <2>4. GregorianDays(FixDays(t)) = GregorianDays(t)
    BY <2>3 DEF GregorianDays
  <2> QED BY <1>1, <2>2, <2>3, <2>4
<1>3. CASE ~(t.mday > DaysInMonth(t))
  <2>1. FixDays(t) = t BY <1>3 DEF FixDays
  <2>2. t.mday \in 1..31 BY DEF Tm
  <2>3. GregorianDays(t) \in 28..31
    <3>1. t.mon + 1 \in 1..12 BY DEF Tm
    <3> QED BY <3>1 DEF GregorianDays, DaysCommon, DaysLeap
  <2> QED BY <1>1, <1>3, <2>1, <2>2, <2>3
<1> QED BY <1>2, <1>3

\* Changing the time of day changes nothing the calendar looks at.
LEMMA SameDate ==
    ASSUME NEW t \in Tm, NEW u \in Tm,
           t.year = u.year, t.mon = u.mon
    PROVE  GregorianDays(t) = GregorianDays(u)
BY DEF GregorianDays

-----------------------------------------------------------------------------
\* The two invariants hold together: a typed year or month is only safe
\* because the day was in range and is fixed at once, a typed day because the
\* month already is.
THEOREM InitIInv == Init => IInv
<1> SUFFICES ASSUME Init PROVE IInv OBVIOUS
<1>1. clock \in Tm /\ clock.mday <= GregorianDays(clock)
  BY ClockAssumption DEF Init
<1> QED BY <1>1 DEF Init, IInv, TypeOK, DatesExist

\* Every key of the menu keeps both.
THEOREM StepIInv == IInv /\ [Next]_vars => IInv'
<1> SUFFICES ASSUME IInv, [Next]_vars PROVE IInv' OBVIOUS
<1> USE DEF IInv, TypeOK, DatesExist
<1>1. CASE OpenMenu BY <1>1 DEF OpenMenu
<1>2. ASSUME NEW n \in TypedYears, SetYear(n) PROVE IInv'
  <2> DEFINE t == [time EXCEPT !.year = n - 1900]
  <2>1. n - 1900 \in 0..199 BY <1>2, ClockAssumption DEF SetYear
  <2>2. t \in Tm BY <2>1 DEF Tm
  <2>3. time' = FixDays(t) /\ clock' = clock /\ open' = open BY <1>2 DEF SetYear
  <2> QED BY <2>2, <2>3, FixDaysFixes
<1>3. ASSUME NEW n \in TypedMonths, SetMonth(n) PROVE IInv'
  <2> DEFINE t == [time EXCEPT !.mon = n - 1]
  <2>1. n - 1 \in 0..11 BY <1>3, ClockAssumption DEF SetMonth
  <2>2. t \in Tm BY <2>1 DEF Tm
  <2>3. time' = FixDays(t) /\ clock' = clock /\ open' = open BY <1>3 DEF SetMonth
  <2> QED BY <2>2, <2>3, FixDaysFixes
<1>4. ASSUME NEW n \in TypedDays, SetDay(n) PROVE IInv'
  <2>1. /\ DaysInMonth(time) \in 28..31
        /\ DaysInMonth(time) <= GregorianDays(time)
    BY DaysInMonthBounded
  <2>2. n \in Nat /\ n >= 1 /\ n <= DaysInMonth(time)
    BY <1>4, ClockAssumption DEF SetDay
  <2>3. /\ time' = [time EXCEPT !.mday = n]
        /\ clock' = clock /\ open' = open
    BY <1>4 DEF SetDay
  <2>4. time' \in Tm BY <2>1, <2>2, <2>3 DEF Tm
  <2>5. time'.mday = n /\ time'.year = time.year /\ time'.mon = time.mon
    BY <2>3 DEF Tm
  <2>6. GregorianDays(time') = GregorianDays(time) BY <2>4, <2>5, SameDate
  <2>7. GregorianDays(time) \in 28..31
    <3>1. time.mon + 1 \in 1..12 BY DEF Tm
    <3> QED BY <3>1 DEF GregorianDays, DaysCommon, DaysLeap
  <2> QED BY <2>1, <2>2, <2>3, <2>4, <2>5, <2>6, <2>7
<1>5. ASSUME NEW n \in TypedTimes, SetHour(n) \/ SetMinute(n) \/ SetSecond(n)
      PROVE  IInv'
  <2>1. n \in Nat BY ClockAssumption
  <2>2. /\ time' \in Tm
        /\ time'.mday = time.mday /\ time'.year = time.year /\ time'.mon = time.mon
        /\ clock' = clock /\ open' = open
    BY <1>5, <2>1 DEF SetHour, SetMinute, SetSecond, Tm
  <2>3. GregorianDays(time') = GregorianDays(time) BY <2>2, SameDate
  <2> QED BY <2>2, <2>3
<1>6. CASE WriteAndExit BY <1>6 DEF WriteAndExit
<1>7. CASE ExitWithoutWriting BY <1>7 DEF ExitWithoutWriting
<1>8. CASE UNCHANGED vars BY <1>8 DEF vars
<1> QED BY <1>1, <1>2, <1>3, <1>4, <1>5, <1>6, <1>7, <1>8 DEF Next

\* The struct tm and the clock keep their ranges.
THEOREM TypeCorrect == Spec => []TypeOK
<1>1. IInv => TypeOK BY DEF IInv
<1> QED BY <1>1, InitIInv, StepIInv, PTL DEF Spec

\* Every date the menu shows or writes exists in the calendar.
THEOREM DatesAlwaysExist == Spec => []DatesExist
<1>1. IInv => DatesExist BY DEF IInv
<1> QED BY <1>1, InitIInv, StepIInv, PTL DEF Spec

\* But for 2000 the code's leap years are the calendar's.
LEMMA DaysAreGregorian ==
    ASSUME NEW t \in Tm, t.year # 100
    PROVE  DaysInMonth(t) = GregorianDays(t)
<1>1. t.year \in 0..199 BY DEF Tm
<1>2. (t.year + 1900) % 4 = t.year % 4 BY <1>1, SMT
<1>3. t.year % 100 # 0 <=> (t.year + 1900) % 100 # 0 BY <1>1, SMT
<1>4. t.year % 100 = 0 => t.year = 0 BY <1>1, SMT
<1>5. (0 + 1900) % 400 # 0 BY SMT
<1>6. t.year % 100 = 0 => (t.year + 1900) % 400 # 0 BY <1>4, <1>5
<1>7. LeapYear(t) <=> GregorianLeap(t.year + 1900)
  BY <1>2, <1>3, <1>6 DEF LeapYear, GregorianLeap
<1> QED BY <1>7 DEF DaysInMonth, GregorianDays

\* What check_and_fix_days does to a date whose year or month was changed.
LEMMA DayKeptOrLast ==
    ASSUME NEW t \in Tm, FixDays(t).year # 100
    PROVE  \/ FixDays(t).mday = t.mday
           \/ /\ t.mday > GregorianDays(FixDays(t))
              /\ FixDays(t).mday = GregorianDays(FixDays(t))
<1>1. CASE t.mday > DaysInMonth(t)
  <2>1. FixDays(t) = [t EXCEPT !.mday = DaysInMonth(t)] BY <1>1 DEF FixDays
  <2>2. /\ FixDays(t).year = t.year /\ FixDays(t).mon = t.mon
        /\ FixDays(t).mday = DaysInMonth(t)
    BY <2>1 DEF Tm
  <2>3. FixDays(t) \in Tm BY FixDaysFixes
  <2>4. GregorianDays(FixDays(t)) = GregorianDays(t) BY <2>2, <2>3, SameDate
  <2>5. DaysInMonth(t) = GregorianDays(t) BY <2>2, DaysAreGregorian
  <2> QED BY <1>1, <2>2, <2>4, <2>5
<1>2. CASE ~(t.mday > DaysInMonth(t)) BY <1>2 DEF FixDays
<1> QED BY <1>1, <1>2

\* A typed year or month changes the day only where the new month is too
\* short for it, and then to its last day, for every year but 2000.
THEOREM OnlyImpossibleDaysAreFixed == Spec => OnlyImpossibleDaysFixedBut2000
<1> DEFINE Fixed == time'.mday = time.mday
                    \/ (time.mday > GregorianDays(time')
                        /\ time'.mday = GregorianDays(time'))
           Changed == time'.year # time.year \/ time'.mon # time.mon
<1>1. ASSUME IInv, Next, open, open', Changed, time'.year # 100
      PROVE  Fixed
  <2>1. time \in Tm BY <1>1 DEF IInv, TypeOK
  <2>2. ASSUME NEW n \in TypedYears, SetYear(n) PROVE Fixed
    <3> DEFINE t == [time EXCEPT !.year = n - 1900]
    <3>1. n - 1900 \in 0..199 BY <2>2, ClockAssumption DEF SetYear
    <3>2. t \in Tm /\ t.mday = time.mday BY <2>1, <3>1 DEF Tm
    <3>3. time' = FixDays(t) BY <2>2 DEF SetYear
    <3> HIDE DEF t
    <3> QED BY <1>1, <3>2, <3>3, DayKeptOrLast
  <2>3. ASSUME NEW n \in TypedMonths, SetMonth(n) PROVE Fixed
    <3> DEFINE t == [time EXCEPT !.mon = n - 1]
    <3>1. n - 1 \in 0..11 BY <2>3, ClockAssumption DEF SetMonth
    <3>2. t \in Tm /\ t.mday = time.mday BY <2>1, <3>1 DEF Tm
    <3>3. time' = FixDays(t) BY <2>3 DEF SetMonth
    <3> HIDE DEF t
    <3> QED BY <1>1, <3>2, <3>3, DayKeptOrLast
  <2>4. ASSUME NEW n \in TypedDays, SetDay(n) PROVE FALSE
    BY <1>1, <2>1, <2>4 DEF SetDay, Tm
  <2>5. ASSUME NEW n \in TypedTimes, SetHour(n) \/ SetMinute(n) \/ SetSecond(n)
        PROVE  FALSE
    BY <1>1, <2>1, <2>5 DEF SetHour, SetMinute, SetSecond, Tm
  <2>6. ~OpenMenu /\ ~WriteAndExit /\ ~ExitWithoutWriting
    BY <1>1 DEF OpenMenu, WriteAndExit, ExitWithoutWriting
  <2> QED BY <1>1, <2>2, <2>3, <2>4, <2>5, <2>6 DEF Next
<1>2. IInv /\ [Next]_vars => [open /\ open' /\ Changed /\ time'.year # 100 => Fixed]_vars
  BY <1>1
<1> QED BY <1>2, InitIInv, StepIInv, PTL DEF Spec, OnlyImpossibleDaysFixedBut2000
=============================================================================
