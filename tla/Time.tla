-------------------------------- MODULE Time --------------------------------
(***************************************************************************)
(* The conversion of timestamps between Unix and exFAT (time.c), as it is  *)
(* used when a node is flushed and when its entry is read again, perhaps   *)
(* by another mount in another time zone.                                  *)
(*                                                                         *)
(* A Unix time is [d, s]: days since 1970 and seconds of the day.  A       *)
(* timestamp on the device is the record of its bit fields.                *)
(***************************************************************************)
EXTENDS Integers, Sequences, FiniteSets

CONSTANTS
  Times,   \* the Unix times a file is given
  Stamps,  \* the timestamps found on the device
  Zones    \* the values exfat_tzset() finds, in seconds

VARIABLES
  exfat_timezone,
  mtime,   \* of the node
  stamp,   \* in the entry
  zone,    \* the time zone in which stamp was written
  given,   \* the Unix time the file was given, or None
  found,   \* the timestamp the file was found with, or None
  pc

vars == <<exfat_timezone, mtime, stamp, zone, given, found, pc>>

None == [d |-> -1, s |-> 0]
DayLength == 86400
EPOCH_DIFF_DAYS == 10 * 365 + 10 \div 4

\* secs are added to a time
Later(t, secs) == [d |-> t.d + (t.s + secs) \div DayLength,
                   s |-> (t.s + secs) % DayLength]

LEAP_YEARS(year) == (1979 + year) \div 4 - 1979 \div 4
IS_LEAP_YEAR(year) == (1980 + year) % 4 = 0

\* mutant: September begins a day early
days_in_yearShort == <<0, 31, 59, 90, 120, 151, 181, 212, 242, 273, 304, 334>>

\* days of the year before each month
days_in_year == <<0, 31, 59, 90, 120, 151, 181, 212, 243, 273, 304, 334>>

\* mutant: hours that do not exist are accepted
BadStampLax(f) == f.day = 0 \/ f.month = 0 \/ f.month > 12 \/ f.cs > 199

BadStamp(f) ==
  \/ f.day = 0 \/ f.month = 0 \/ f.month > 12
  \/ f.hour > 23 \/ f.min > 59 \/ f.twosec > 29
  \/ f.cs > 199

exfat_exfat2unix(f) ==
  IF BadStamp(f) THEN [d |-> 0, s |-> 0]
  ELSE Later([d |-> EPOCH_DIFF_DAYS + f.year * 365 + LEAP_YEARS(f.year)
                    + days_in_year[f.month] + f.day - 1
                    + (IF IS_LEAP_YEAR(f.year) /\ f.month > 2 THEN 1 ELSE 0),
              s |-> f.hour * 3600 + f.min * 60 + f.twosec * 2 + f.cs \div 100],
             exfat_timezone)

\* mutant: the odd second is dropped
SecondsEven(secs) == [twosec |-> (secs % 60) \div 2, cs |-> 0]
\* mutant: seconds are not halved
SecondsWhole(secs) == [twosec |-> secs % 60, cs |-> 0]

\* The two fields that hold the seconds of a minute.
Seconds(secs) == [twosec |-> (secs % 60) \div 2, cs |-> (secs % 2) * 100]

\* one more day before the months after February of a leap year
leap_sub(year, i) == IF IS_LEAP_YEAR(year) /\ i >= 3 THEN 1 ELSE 0
leap_day(year, i) == IF IS_LEAP_YEAR(year) /\ i = 2 THEN 1 ELSE 0

\* The month at which the loop over the months ends.
month_of(year, days) ==
  LET fits == {i \in 1 .. 12 : \/ i = 12
                               \/ days - leap_sub(year, i)
                                    < days_in_year[i + 1] + leap_day(year, i)}
  IN CHOOSE i \in fits : \A j \in fits : i <= j

\* The year is shifted into the upper seven bits of a 16-bit date.
exfat_unix2exfat(t) ==
  LET local == Later([t EXCEPT !.d = @ - EPOCH_DIFF_DAYS], -exfat_timezone)
      u == IF local.d < 0 THEN [d |-> 0, s |-> 0] ELSE local
      year == (4 * u.d) \div 1461
      days == u.d - (year * 365 + LEAP_YEARS(year))
      m == month_of(year, days)
  IN [year |-> year % 128, month |-> m,
      day |-> days - (days_in_year[m] + leap_sub(year, m)) + 1,
      hour |-> u.s \div 3600, min |-> (u.s % 3600) \div 60,
      twosec |-> Seconds(u.s).twosec, cs |-> Seconds(u.s).cs]

\* the bit fields of a date and a time, and the hundredths
Timestamp == [year : 0 .. 127, month : 0 .. 15, day : 0 .. 31, hour : 0 .. 31,
              min : 0 .. 63, twosec : 0 .. 31, cs : 0 .. 255]

NoStamp == [year |-> 0, month |-> 0, day |-> 0, hour |-> 0, min |-> 0,
            twosec |-> 0, cs |-> 0]

-----------------------------------------------------------------------------

\* A file gets a time, or is found with a timestamp.
Init ==
  /\ exfat_timezone \in Zones /\ zone = exfat_timezone
  /\ \/ mtime \in Times /\ given = mtime /\ found = NoStamp
        /\ stamp = NoStamp /\ pc = "dirty"
     \/ stamp \in Stamps /\ found = stamp /\ given = None
        /\ mtime = None /\ pc = "stored"

\* exfat_flush_node()
Flush ==
  /\ pc = "dirty" /\ pc' = "stored"
  /\ stamp' = exfat_unix2exfat(mtime) /\ zone' = exfat_timezone
  /\ UNCHANGED <<exfat_timezone, mtime, given, found>>

\* init_node_meta1()
Load ==
  /\ pc = "stored" /\ pc' = "loaded" /\ mtime' = exfat_exfat2unix(stamp)
  /\ UNCHANGED <<exfat_timezone, stamp, zone, given, found>>

\* another attribute changes, and the entry is written again
Rewrite ==
  /\ pc = "loaded" /\ pc' = "rewritten" /\ stamp' = exfat_unix2exfat(mtime)
  /\ zone' = exfat_timezone
  /\ UNCHANGED <<exfat_timezone, mtime, given, found>>

exfat_tzset ==
  /\ pc = "stored" /\ exfat_timezone' \in Zones
  /\ UNCHANGED <<mtime, stamp, zone, given, found, pc>>

Next == Flush \/ Load \/ Rewrite \/ exfat_tzset

Spec == Init /\ [][Next]_vars

-----------------------------------------------------------------------------
(* Properties.                                                             *)

\* The bit fields of a timestamp hold their values.
TypeOK == stamp \in Timestamp

Before(t, u) == t.d < u.d \/ (t.d = u.d /\ t.s < u.s)
Epoch(tz) == Later([d |-> EPOCH_DIFF_DAYS, s |-> 0], tz)
\* the days of the 128 years a timestamp can name
LastDay == EPOCH_DIFF_DAYS + 128 * 365 + 32 - 1

\* A time that was stored is loaded again to the second; in another time zone
\* the local time stays the same, and a time before 1980 becomes the epoch.
LocalTimeKept ==
  pc = "loaded" /\ given # None /\ given.d < LastDay =>
    LET stored == IF Before(given, Epoch(zone)) THEN Epoch(zone) ELSE given
    IN mtime = Later(stored, exfat_timezone - zone)

Gregorian(year) ==
  year % 4 = 0 /\ (year % 100 # 0 \/ year % 400 = 0)
MonthLength(year, month) ==
  IF month = 2 THEN IF Gregorian(year) THEN 29 ELSE 28
  ELSE IF month \in {4, 6, 9, 11} THEN 30 ELSE 31
\* the number of a day in the Gregorian calendar, from 1 January 1970
DayNumber(year, month, day) ==
  LET leaps(y) == (y - 1) \div 4 - (y - 1) \div 100 + (y - 1) \div 400
      before[m \in 1 .. 12] == IF m = 1 THEN 0
                               ELSE before[m - 1] + MonthLength(year, m - 1)
  IN (year - 1970) * 365 + leaps(year) - leaps(1970) + before[month] + day - 1

\* The date on the device is the date of the Gregorian calendar, up to the
\* year 2100, which is not leap.
CalendarTo2100 ==
  pc = "stored" /\ given # None /\ ~Before(given, Epoch(zone)) =>
    LET day == Later(given, -zone).d
    IN day < DayNumber(2100, 1, 1) =>
         DayNumber(1980 + stamp.year, stamp.month, stamp.day) = day

Proper(f) == /\ ~BadStamp(f) /\ f.year < 120
             /\ f.day <= MonthLength(1980 + f.year, f.month)

\* A timestamp of another implementation is not changed when its entry is
\* read and written again, but for fractions of a second; one that names no
\* time becomes the epoch.
StampKept ==
  pc = "rewritten" /\ found # NoStamp =>
    IF Proper(found) THEN stamp = [found EXCEPT !.cs = (@ \div 100) * 100]
    ELSE ~BadStamp(stamp)
=============================================================================
