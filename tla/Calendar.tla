-------------------------------- MODULE Calendar --------------------------------
(***************************************************************************)
(* Days as the program tells them.  The business day is that of            *)
(* Asia/Kolkata; the database's CURRENT_DATE and the browser's toISOString *)
(* tell the day of UTC, which begins five and a half hours later: during   *)
(* the early part of a business day they are still at the day before.      *)
(*                                                                         *)
(* Abstracted: the time of the day, but for its part; weeks and months have*)
(* one length each.                                                        *)
(***************************************************************************)
EXTENDS Integers

CONSTANTS
  FirstDay, LastDay,  \* bound: the days that are looked at
  Span,               \* days of the "last 7"
  Week, Month         \* days of a week, of a month

ASSUME CalendarAssumption ==
  /\ FirstDay \in Int /\ LastDay \in Int /\ FirstDay <= LastDay
  /\ Span \in Nat \ {0} /\ Week \in Nat \ {0} /\ Month \in Nat \ {0}

VARIABLES
  day,    \* the business day
  early   \* it is the early part of it

clock == <<day, early>>

(* Moments: halves of business days, numbered.                             *)
Moment(d, isEarly) == 2 * d + IF isEarly THEN 0 ELSE 1
Now == Moment(day, early)
UtcDay(d, isEarly) == IF isEarly THEN d - 1 ELSE d
UtcToday == UtcDay(day, early)

(* A date that is asked for is a set of one day.                           *)
NoDate == {}
Period == {"today", "yesterday", "this_week", "last7", "this_month", "all"}

(* Mutant of InRange: the day of the database instead of the business day. *)
InRangeUtc(d, range, custom) ==
  IF custom # NoDate THEN d \in custom
  ELSE CASE range = "today" -> d = UtcToday
         [] range = "yesterday" -> d = UtcToday - 1
         [] OTHER -> d <= UtcToday

(* buildDateFilter: a date, when there is one, wins over the range.        *)
InRange(d, range, custom) ==
  IF custom # NoDate THEN d \in custom
  ELSE CASE range = "today" -> d = day
         [] range = "yesterday" -> d = day - 1
         [] range = "this_week" -> d \div Week = day \div Week /\ d <= day
         [] range = "last7" -> d \in (day - Span + 1) .. day
         [] range = "this_month" -> d \div Month = day \div Month
         [] range = "all" -> TRUE

ClockInit == day = FirstDay /\ early = TRUE

(* The day of UTC begins.                                                  *)
Dawn == early /\ early' = FALSE /\ UNCHANGED day
Midnight == ~early /\ day < LastDay /\ day' = day + 1 /\ early' = TRUE

ClockOK == day \in FirstDay .. LastDay /\ early \in BOOLEAN

=============================================================================
