------------------------------ MODULE JobDates ------------------------------
(***************************************************************************)
(* The dates of a job of s3-reader-ltpd: what a message says of them, and  *)
(* the hours they are.                                                     *)
(***************************************************************************)
EXTENDS Integers, Sequences

\* The text of a part of a date is <<n>> when it is a number, and <<>> when it
\* is empty, missing or no number.  A message that is no JSON has no parts.
DateParts == [year : Seq(Int), month : Seq(Int), day : Seq(Int), hour : Seq(Int)]
Job       == [start : DateParts, end : DateParts]

-----------------------------------------------------------------------------
DatePart(text) == IF text = <<>> THEN -1 ELSE text[1]

\* time.Date: the hour of a date in the Gregorian calendar, whose month, day and
\* hour may be outside their usual ranges.
DaysOfMonths == <<0, 31, 59, 90, 120, 151, 181, 212, 243, 273, 304, 334>>
IsLeap(y)    == y % 4 = 0 /\ (y % 100 # 0 \/ y % 400 = 0)
DaysBefore(y, mon) ==
    365 * y + ((y - 1) \div 4) - ((y - 1) \div 100) + ((y - 1) \div 400)
        + DaysOfMonths[mon] + (IF mon > 2 /\ IsLeap(y) THEN 1 ELSE 0)
Date(year, month, day, hour) ==
    24 * (DaysBefore(year + ((month - 1) \div 12), ((month - 1) % 12) + 1) + day - 1) + hour

Instant(d) == Date(DatePart(d.year), DatePart(d.month), DatePart(d.day), DatePart(d.hour))
=============================================================================
