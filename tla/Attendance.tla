------------------------------ MODULE Attendance ------------------------------
(***************************************************************************)
(* Shift attendance: the check-in and check-out handlers of the Workers    *)
(* backend (routes/attendance.ts).                                         *)
(*                                                                         *)
(* Every `await sql` is a transaction of its own, so a handler is two      *)
(* atomic steps, a SELECT and then an INSERT or an UPDATE.  The steps of   *)
(* two requests of one recruiter (two tabs, a double click) and the change *)
(* of CURRENT_DATE interleave between them.  The table has no unique       *)
(* constraint on (employee_id, work_date).                                 *)
(***************************************************************************)
EXTENDS Naturals, Sequences

CONSTANTS
  Employee,    \* recruiters
  Tab,         \* the places from which one recruiter may send a request
  MaxDay,      \* bound: days that pass
  MaxRecord    \* bound: rows ever inserted

ASSUME BoundsAssumption == MaxDay \in Nat \ {0} /\ MaxRecord \in Nat

VARIABLES
  today,       \* CURRENT_DATE of the database
  attendance,  \* the rows of the table, in the order of check_in
  request      \* request[p]: the handler that tab p[2] of recruiter p[1] waits for

vars == <<today, attendance, request>>

Day == 1..MaxDay
Open == 0                       \* check_out IS NULL

Row == [employee_id : Employee, work_date : Day, check_out : Day \cup {Open}]

(* A request is idle (with the last reply kept), or past the SELECT of      *)
(* check-in, or past the SELECT of check-out holding the row it found.      *)
Reply == {"none", "ok", "already_checked_in", "no_active_session"}
Request == [step : {"idle", "insert", "update"}, row : Nat, reply : Reply]

Idle(reply) == [step |-> "idle", row |-> 0, reply |-> reply]

TypeOK ==
  /\ today \in Day
  /\ attendance \in Seq(Row)
  /\ request \in [Employee \X Tab -> Request]

Init ==
  /\ today = 1
  /\ attendance = <<>>
  /\ request = [p \in Employee \X Tab |-> Idle("none")]

-----------------------------------------------------------------------------

(* The rows of e for CURRENT_DATE, and those of them still open.            *)
RowsToday(e) ==
  {i \in DOMAIN attendance : /\ attendance[i].employee_id = e
                             /\ attendance[i].work_date = today}

OpenToday(e) == {i \in RowsToday(e) : attendance[i].check_out = Open}

(* The SELECT of check-out: ORDER BY check_in DESC LIMIT 1.                 *)
IsLatest(i, rows) == i \in rows /\ \A j \in rows : j <= i

(* Mutant of CheckInSelect: the 409 guard is missing.                       *)
CheckInSelectUnguarded(p) ==
  /\ request[p].step = "idle"
  /\ request' = [request EXCEPT ![p] = [step |-> "insert", row |-> 0, reply |-> "none"]]
  /\ UNCHANGED <<today, attendance>>

(* POST /check-in, first step: SELECT the active row of CURRENT_DATE.       *)
CheckInSelect(p) ==
  /\ request[p].step = "idle"
  /\ \/ /\ OpenToday(p[1]) = {}
        /\ request' = [request EXCEPT ![p] = [step |-> "insert", row |-> 0, reply |-> "none"]]
     \/ /\ OpenToday(p[1]) # {}
        /\ request' = [request EXCEPT ![p] = Idle("already_checked_in")]
  /\ UNCHANGED <<today, attendance>>

(* Mutant of CheckInInsert: the date is that of a time zone ahead.          *)
CheckInInsertTomorrow(p) ==
  /\ request[p].step = "insert"
  /\ Len(attendance) < MaxRecord
  /\ attendance' = Append(attendance,
                     [employee_id |-> p[1], work_date |-> today + 1, check_out |-> Open])
  /\ request' = [request EXCEPT ![p] = Idle("ok")]
  /\ UNCHANGED today

(* POST /check-in, second step: INSERT a row for CURRENT_DATE.              *)
CheckInInsert(p) ==
  /\ request[p].step = "insert"
  /\ Len(attendance) < MaxRecord
  /\ attendance' = Append(attendance,
                     [employee_id |-> p[1], work_date |-> today, check_out |-> Open])
  /\ request' = [request EXCEPT ![p] = Idle("ok")]
  /\ UNCHANGED today

(* Mutant of CheckOutSelect: the condition check_out IS NULL is dropped.    *)
CheckOutSelectAnyRow(p) ==
  /\ request[p].step = "idle"
  /\ \/ \E i \in RowsToday(p[1]) :
          /\ IsLatest(i, RowsToday(p[1]))
          /\ request' = [request EXCEPT ![p] = [step |-> "update", row |-> i, reply |-> "none"]]
     \/ /\ RowsToday(p[1]) = {}
        /\ request' = [request EXCEPT ![p] = Idle("no_active_session")]
  /\ UNCHANGED <<today, attendance>>

(* POST /check-out, first step: SELECT the active row of CURRENT_DATE.      *)
CheckOutSelect(p) ==
  /\ request[p].step = "idle"
  /\ \/ \E i \in OpenToday(p[1]) :
          /\ IsLatest(i, OpenToday(p[1]))
          /\ request' = [request EXCEPT ![p] = [step |-> "update", row |-> i, reply |-> "none"]]
     \/ /\ OpenToday(p[1]) = {}
        /\ request' = [request EXCEPT ![p] = Idle("no_active_session")]
  /\ UNCHANGED <<today, attendance>>

(* POST /check-out, second step: UPDATE ... WHERE id, with no other         *)
(* condition, so it also overwrites a check_out set in the meantime.        *)
CheckOutUpdate(p) ==
  /\ request[p].step = "update"
  /\ attendance' = [attendance EXCEPT ![request[p].row].check_out = today]
  /\ request' = [request EXCEPT ![p] = Idle("ok")]
  /\ UNCHANGED today

(* The request ends between its two statements: the isolate is evicted, or  *)
(* the database call throws and the handler answers 500.                    *)
RequestLost(p) ==
  /\ request[p].step # "idle"
  /\ request' = [request EXCEPT ![p] = Idle("none")]
  /\ UNCHANGED <<today, attendance>>

(* CURRENT_DATE changes.                                                    *)
Midnight ==
  /\ today < MaxDay
  /\ today' = today + 1
  /\ UNCHANGED <<attendance, request>>

Handler(p) ==
  \/ CheckInSelect(p)
  \/ CheckInInsert(p)
  \/ CheckOutSelect(p)
  \/ CheckOutUpdate(p)
  \/ RequestLost(p)

Next == Midnight \/ \E p \in Employee \X Tab : Handler(p)

Spec == Init /\ [][Next]_vars

-----------------------------------------------------------------------------

(* "Guard against duplicate active sessions" (attendance.ts:53): a          *)
(* recruiter never has two open rows of one day.  It holds as long as the   *)
(* requests of one recruiter follow one another.                            *)
OneOpenSession ==
  \A i, j \in DOMAIN attendance :
    /\ attendance[i].employee_id = attendance[j].employee_id
    /\ attendance[i].work_date = attendance[j].work_date
    /\ attendance[i].check_out = Open
    /\ attendance[j].check_out = Open
    => i = j

(* The recorded end of a session is final: no later request moves it, and   *)
(* no row goes away.                                                        *)
CheckOutFinal ==
  [][\A i \in DOMAIN attendance :
       /\ i \in DOMAIN attendance'
       /\ attendance[i].check_out # Open
          => attendance'[i] = attendance[i]]_vars

(* "Check-out accurately calculates total duration across midnight"          *)
(* (Edge_Cases.md:88): check-out finds no active session only when the       *)
(* recruiter has none, of whatever day.                                      *)
OpenShiftFound ==
  [][\A p \in Employee \X Tab :
       request'[p] = Idle("no_active_session") /\ request[p] # request'[p] =>
         \A i \in DOMAIN attendance :
           attendance[i].employee_id = p[1] => attendance[i].check_out # Open]_vars

=============================================================================
