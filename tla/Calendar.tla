----------------------------- MODULE Calendar -----------------------------
(***************************************************************************)
(* Two computations with the calendar: when a digest fires next            *)
(* (internal/notify/digest.go), and the year of a syslog timestamp, which  *)
(* has none (parseTraditionalTS, internal/parse/parser.go).  Time is a     *)
(* local time without clock changes, in units of half a day or half an     *)
(* hour; a year has a few days, and one in four a leap day.                *)
(***************************************************************************)
EXTENDS Integers, FiniteSets

CONSTANTS
  Days,      \* days of a leap year: 366 in the code
  LeapDay    \* which of them is 29 February

ASSUME CalendarAssumption == Days \in Nat /\ LeapDay \in 2 .. Days - 1

-----------------------------------------------------------------------------
(* Digests.  Half hours since a Monday, 0:00.                               *)

PerDay     == 48
DigestAt   == 9 * 2
Weekday(t) == (t \div PerDay) % 7

\* !next.After(now)
Due(next, now) == next <= now

\* digestSchedule.next: today at nine, for a weekly digest on the coming
\* Monday, then a day or a week later while that is not after now.
NextDigest(label, now) ==
  LET today  == (now \div PerDay) * PerDay + DigestAt
      ahead  == IF label = "weekly" THEN (7 - Weekday(now)) % 7 ELSE 0
      first  == today + ahead * PerDay
      period == (IF label = "weekly" THEN 7 ELSE 1) * PerDay
  IN  IF Due(first, now) THEN first + period ELSE first

\* A digest fires at nine, a weekly one on Mondays; next is the first such
\* moment strictly after now, so that none is skipped and none is sent twice
\* (digestSchedule.next's comment).
NextIsFirstAfter(label, now) ==
  LET fires(t) == t % PerDay = DigestAt /\ (label = "weekly" => Weekday(t) = 0)
      next == NextDigest(label, now)
  IN  next > now /\ fires(next) /\ \A t \in now + 1 .. next - 1 : ~fires(t)

-----------------------------------------------------------------------------
(* Years.  A date is a year and the day in a leap year that has its name;  *)
(* a time counts half days.                                                *)

IsLeap(year) == year % 4 = 0
DaysBefore(year) == year * (Days - 1) + (year + 3) \div 4
DaysOf(year) == IF IsLeap(year) THEN Days ELSE Days - 1

\* time.Date: the leap day of another year is the day after.
Date(year, day, half) ==
  2 * (DaysBefore(year) + day - 1 - (IF ~IsLeap(year) /\ day > LeapDay THEN 1 ELSE 0)) + half

\* The inverse: what a syslog daemon writes, and the year it leaves out.
YearOf(t) == CHOOSE y \in 0 .. (t \div 2) : 2 * DaysBefore(y) <= t /\ t < 2 * DaysBefore(y + 1)
DayOf(t)  ==
  LET d == t \div 2 - DaysBefore(YearOf(t)) + 1
  IN  IF ~IsLeap(YearOf(t)) /\ d >= LeapDay THEN d + 1 ELSE d

\* In the future by more than a day.
RolledBack(t, now) == t > now + 2

\* parseTraditionalTS at the moment now, of a line of the moment stamp;
\* AddDate(-1, 0, 0) goes by the name of the day.
ParsedStamp(stamp, now) ==
  LET t == Date(YearOf(now), DayOf(stamp), stamp % 2)
  IN  IF RolledBack(t, now) THEN Date(YearOf(t) - 1, DayOf(t), t % 2) ELSE t

\* A line less than a year old, short of a day, is dated when it was written,
\* over the turn of the year too; but a line of the leap day is dated a day late
\* once its year is over (the "Dec to Jan boundary" of parseTraditionalTS).
StampIsRecovered(stamp, now) ==
  LET leapLine == DayOf(stamp) = LeapDay /\ YearOf(stamp) # YearOf(now)
  IN  stamp <= now /\ stamp > now - 2 * (Days - 1) + 2 =>
        ParsedStamp(stamp, now) = IF leapLine THEN stamp + 2 ELSE stamp

=============================================================================
