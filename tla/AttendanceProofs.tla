--------------------------- MODULE AttendanceProofs ---------------------------
(***************************************************************************)
(* Proofs about Attendance, for any number of recruiters, days and rows.   *)
(* The safety theorems assume that the requests of a recruiter follow one  *)
(* another; with two at a time they are false.                             *)
(***************************************************************************)
EXTENDS Attendance, TLAPS

Requester == Employee \X Tab

OneTab == \A s, t \in Tab : s = t

(* No row is dated after CURRENT_DATE, so a new day starts with no row.     *)
NoFutureRow == \A i \in DOMAIN attendance : attendance[i].work_date <= today

(* Between its two statements, check-in's SELECT stays true...              *)
InsertReady == \A p \in Requester : request[p].step = "insert" => OpenToday(p[1]) = {}

(* ...and the row check-out found stays open and its own.                   *)
UpdateReady ==
  \A p \in Requester : request[p].step = "update" =>
    /\ request[p].row \in DOMAIN attendance
    /\ attendance[request[p].row].employee_id = p[1]
    /\ attendance[request[p].row].check_out = Open

IInv == TypeOK /\ NoFutureRow /\ OneOpenSession /\ InsertReady /\ UpdateReady

-----------------------------------------------------------------------------

(* With one tab, two different requesters are two different recruiters.     *)
LEMMA DifferentRecruiters ==
  ASSUME OneTab, NEW p \in Requester, NEW q \in Requester, p # q
  PROVE  p[1] # q[1]
BY DEF OneTab, Requester

(* Appending a row keeps the old ones and adds one at the end.              *)
LEMMA AppendRow ==
  ASSUME NEW s \in Seq(Row), NEW r \in Row
  PROVE  /\ Append(s, r) \in Seq(Row)
         /\ DOMAIN Append(s, r) = DOMAIN s \cup {Len(s) + 1}
         /\ Len(s) + 1 \notin DOMAIN s
         /\ \A i \in DOMAIN s : Append(s, r)[i] = s[i]
         /\ Append(s, r)[Len(s) + 1] = r
OBVIOUS

(* Type correctness needs no assumption on tabs: it holds with the part of  *)
(* UpdateReady that says the row exists.                                    *)
RowExists ==
  \A p \in Requester : request[p].step = "update" => request[p].row \in DOMAIN attendance

LEMMA InitIInv == Init => IInv
BY BoundsAssumption DEF Init, IInv, TypeOK, NoFutureRow, OneOpenSession, InsertReady, UpdateReady,
   Requester, Request, Reply, Idle, Day, Row

LEMMA TypeStep == TypeOK /\ RowExists /\ [Next]_vars => TypeOK' /\ RowExists'
<1> SUFFICES ASSUME TypeOK, RowExists, [Next]_vars PROVE TypeOK' /\ RowExists'
  OBVIOUS
<1> USE BoundsAssumption DEF TypeOK, RowExists, Requester, Request, Reply, Idle, Day
<1>1. CASE UNCHANGED vars
  BY <1>1 DEF vars
<1>2. CASE Midnight
  BY <1>2 DEF Midnight
<1>3. ASSUME NEW p \in Employee \X Tab, CheckInSelect(p) PROVE TypeOK' /\ RowExists'
  <2>1. PICK r \in Request : request' = [request EXCEPT ![p] = r] /\ r.step # "update"
    BY <1>3 DEF CheckInSelect
  <2>2. QED
    BY <1>3, <2>1 DEF CheckInSelect
<1>4. ASSUME NEW p \in Employee \X Tab, CheckInInsert(p) PROVE TypeOK' /\ RowExists'
  <2> DEFINE r == [employee_id |-> p[1], work_date |-> today, check_out |-> Open]
  <2>1. r \in Row
    BY DEF Row
  <2>2. attendance' = Append(attendance, r)
    BY <1>4 DEF CheckInInsert
  <2> HIDE DEF r
  <2>3. attendance' \in Seq(Row) /\ DOMAIN attendance \subseteq DOMAIN attendance'
    BY <2>1, <2>2, AppendRow
  <2>4. QED
    BY <1>4, <2>3 DEF CheckInInsert
<1>5. ASSUME NEW p \in Employee \X Tab, CheckOutSelect(p) PROVE TypeOK' /\ RowExists'
  <2>1. OpenToday(p[1]) \subseteq DOMAIN attendance /\ DOMAIN attendance \subseteq Nat
    BY DEF OpenToday, RowsToday
  <2>2. PICK r \in Request : /\ request' = [request EXCEPT ![p] = r]
                             /\ r.step = "update" => r.row \in DOMAIN attendance
    BY <1>5, <2>1 DEF CheckOutSelect
  <2>3. QED
    BY <1>5, <2>2 DEF CheckOutSelect
<1>6. ASSUME NEW p \in Employee \X Tab, CheckOutUpdate(p) PROVE TypeOK' /\ RowExists'
  <2>1. request[p].row \in DOMAIN attendance
    BY <1>6 DEF CheckOutUpdate
  <2> DEFINE i == request[p].row
             r == [attendance[i] EXCEPT !.check_out = today]
  <2>4. attendance[i] \in Row
    BY <2>1
  <2>5. r \in Row
    BY <2>4 DEF Row
  <2>6. attendance' = [attendance EXCEPT ![i] = r]
    BY <1>6 DEF CheckOutUpdate
  <2> HIDE DEF r
  <2>2. attendance' \in Seq(Row) /\ DOMAIN attendance' = DOMAIN attendance
    BY <2>1, <2>5, <2>6
  <2>3. request' = [request EXCEPT ![p] = Idle("ok")] /\ today' = today
    BY <1>6 DEF CheckOutUpdate
  <2>7. QED
    BY <2>2, <2>3
<1>7. ASSUME NEW p \in Employee \X Tab, RequestLost(p) PROVE TypeOK' /\ RowExists'
  BY <1>7 DEF RequestLost
<1>8. QED
  BY <1>1, <1>2, <1>3, <1>4, <1>5, <1>6, <1>7 DEF Next, Handler

(* Every reachable state is well typed, with any number of tabs.            *)
THEOREM TypeCorrect == Spec => []TypeOK
<1>1. Init => TypeOK /\ RowExists
  BY InitIInv DEF IInv, UpdateReady, RowExists
<1>2. QED
  BY <1>1, TypeStep, PTL DEF Spec

-----------------------------------------------------------------------------

(* The inductive step of the safety theorem, one request per recruiter.     *)
LEMMA SafeStep == ASSUME OneTab PROVE IInv /\ [Next]_vars => IInv'
<1> SUFFICES ASSUME IInv, [Next]_vars PROVE IInv'
  OBVIOUS
<1> USE OneTab
<1>1. TypeOK' /\ RowExists'
  BY TypeStep DEF IInv, UpdateReady, RowExists
<1>2. CASE UNCHANGED vars
  BY <1>1, <1>2 DEF vars, IInv, NoFutureRow, OneOpenSession, InsertReady, UpdateReady,
     OpenToday, RowsToday
<1>3. CASE Midnight
  <2>1. \A i \in DOMAIN attendance : attendance[i].work_date \in Nat
    <3>1. \A i \in DOMAIN attendance : attendance[i] \in Row
      BY DEF IInv, TypeOK
    <3>2. QED
      BY <3>1, BoundsAssumption DEF Row, Day
  <2>2. \A i \in DOMAIN attendance : attendance[i].work_date # today'
    BY <1>3, <2>1, BoundsAssumption DEF Midnight, IInv, NoFutureRow, TypeOK, Day
  <2>3. \A e \in Employee : OpenToday(e)' = {}
    BY <1>3, <2>2 DEF Midnight, OpenToday, RowsToday
  <2>4. NoFutureRow' /\ OneOpenSession' /\ UpdateReady'
    BY <1>3, <2>1, BoundsAssumption
       DEF Midnight, IInv, NoFutureRow, OneOpenSession, UpdateReady, TypeOK, Day
  <2>5. InsertReady'
    BY <1>3, <2>3 DEF Midnight, InsertReady, Requester
  <2>6. QED
    BY <1>1, <2>4, <2>5 DEF IInv
<1>4. ASSUME NEW p \in Requester, NEW r \in Request, today' = today, attendance' = attendance,
             request' = [request EXCEPT ![p] = r],
             r.step = "insert" => OpenToday(p[1]) = {},
             r.step = "update" => r.row \in OpenToday(p[1])
      PROVE  IInv'
  <2>1. OpenToday(p[1])' = OpenToday(p[1]) /\ NoFutureRow' /\ OneOpenSession'
    BY <1>4 DEF IInv, NoFutureRow, OneOpenSession, OpenToday, RowsToday
  <2>2. \A q \in Requester : OpenToday(q[1])' = OpenToday(q[1])
    BY <1>4 DEF OpenToday, RowsToday
  <2>3. \A q \in Requester : request'[q] = IF q = p THEN r ELSE request[q]
    BY <1>4 DEF TypeOK, IInv, Requester
  <2>4. InsertReady'
    BY <1>4, <2>2, <2>3 DEF InsertReady, IInv
  <2>5. UpdateReady'
    BY <1>4, <2>3 DEF UpdateReady, IInv, OpenToday, RowsToday
  <2>6. QED
    BY <1>1, <2>1, <2>4, <2>5 DEF IInv
<1>5. ASSUME NEW p \in Requester, CheckInSelect(p) PROVE IInv'
  <2>1. PICK r \in Request : /\ request' = [request EXCEPT ![p] = r]
                             /\ r.step # "update"
                             /\ r.step = "insert" => OpenToday(p[1]) = {}
    BY <1>5 DEF CheckInSelect, Request, Reply, Idle
  <2>2. QED
    BY <1>4, <1>5, <2>1 DEF CheckInSelect
<1>6. ASSUME NEW p \in Requester, CheckOutSelect(p) PROVE IInv'
  <2>1. OpenToday(p[1]) \subseteq Nat
    BY DEF OpenToday, RowsToday, IInv, TypeOK
  <2>2. PICK r \in Request : /\ request' = [request EXCEPT ![p] = r]
                             /\ r.step # "insert"
                             /\ r.step = "update" => r.row \in OpenToday(p[1])
    BY <1>6, <2>1 DEF CheckOutSelect, Request, Reply, Idle
  <2>3. QED
    BY <1>4, <1>6, <2>2 DEF CheckOutSelect
<1>7. ASSUME NEW p \in Requester, RequestLost(p) PROVE IInv'
  <2>1. Idle("none") \in Request /\ Idle("none").step = "idle"
    BY DEF Idle, Request, Reply
  <2>2. QED
    BY <1>4, <1>7, <2>1 DEF RequestLost
<1>8. ASSUME NEW p \in Requester, CheckInInsert(p) PROVE IInv'
  <2> DEFINE n == Len(attendance) + 1
             r == [employee_id |-> p[1], work_date |-> today, check_out |-> Open]
  <2>1. r \in Row /\ attendance \in Seq(Row)
    BY DEF Row, IInv, TypeOK, Requester, Day
  <2>2. attendance' = Append(attendance, r) /\ today' = today
    BY <1>8 DEF CheckInInsert
  <2>3. /\ DOMAIN attendance' = DOMAIN attendance \cup {n}
        /\ \A i \in DOMAIN attendance : attendance'[i] = attendance[i] /\ i # n
        /\ attendance'[n] = r
    BY <2>1, <2>2, AppendRow
  <2> HIDE DEF n
  <2>4. OpenToday(p[1]) = {}
    BY <1>8 DEF CheckInInsert, IInv, InsertReady
  <2>5. \A q \in Requester : request'[q] = IF q = p THEN Idle("ok") ELSE request[q]
    BY <1>8 DEF CheckInInsert, IInv, TypeOK, Requester
  <2>6. NoFutureRow'
    BY <2>2, <2>3 DEF NoFutureRow, IInv, TypeOK, Day
  <2>7. OneOpenSession'
    BY <2>3, <2>4 DEF OneOpenSession, IInv, OpenToday, RowsToday
  <2>8. InsertReady'
    BY <2>2, <2>3, <2>5, DifferentRecruiters
       DEF InsertReady, IInv, OpenToday, RowsToday, Idle
  <2>9. UpdateReady'
    BY <2>3, <2>5 DEF UpdateReady, IInv, Idle
  <2>10. QED
    BY <1>1, <2>6, <2>7, <2>8, <2>9 DEF IInv
<1>9. ASSUME NEW p \in Requester, CheckOutUpdate(p) PROVE IInv'
  <2> DEFINE k == request[p].row
             r == [attendance[k] EXCEPT !.check_out = today]
  <2>1. k \in DOMAIN attendance /\ attendance \in Seq(Row) /\ attendance[k].employee_id = p[1]
    BY <1>9 DEF CheckOutUpdate, IInv, UpdateReady, TypeOK
  <2>2. attendance' = [attendance EXCEPT ![k] = r] /\ today' = today
    BY <1>9 DEF CheckOutUpdate
  <2>3. attendance[k] \in Row
    BY <2>1
  <2>4. /\ r.employee_id = p[1]
        /\ r.work_date = attendance[k].work_date
        /\ r.check_out = today /\ r.check_out # Open
    BY <2>1, <2>3 DEF Row, IInv, TypeOK, Day, Open
  <2> HIDE DEF r
  <2>5. /\ DOMAIN attendance' = DOMAIN attendance
        /\ \A i \in DOMAIN attendance : attendance'[i] = IF i = k THEN r ELSE attendance[i]
    BY <2>1, <2>2
  <2> HIDE DEF k
  <2>6. \A q \in Requester : request'[q] = IF q = p THEN Idle("ok") ELSE request[q]
    BY <1>9 DEF CheckOutUpdate, IInv, TypeOK, Requester
  <2>7. NoFutureRow' /\ OneOpenSession'
    BY <2>2, <2>4, <2>5 DEF NoFutureRow, OneOpenSession, IInv
  <2>8. \A q \in Requester : OpenToday(q[1])' \subseteq OpenToday(q[1])
    BY <2>2, <2>4, <2>5 DEF OpenToday, RowsToday
  <2>9. InsertReady'
    BY <2>6, <2>8 DEF InsertReady, IInv, Idle
  <2>10. UpdateReady'
    BY <2>1, <2>4, <2>5, <2>6, DifferentRecruiters DEF UpdateReady, IInv, Idle
  <2>11. QED
    BY <1>1, <2>7, <2>9, <2>10 DEF IInv
<1>10. QED
  BY <1>2, <1>3, <1>5, <1>6, <1>7, <1>8, <1>9 DEF Next, Handler, Requester

(* With one tab per recruiter, no recruiter ever has two open sessions of   *)
(* one day, however many days pass while requests are in flight.            *)
THEOREM OneOpenSessionHolds == ASSUME OneTab PROVE Spec => []OneOpenSession
<1>1. IInv => OneOpenSession
  BY DEF IInv
<1>2. QED
  BY InitIInv, SafeStep, <1>1, PTL DEF Spec

(* With one tab per recruiter, a recorded check_out is never overwritten    *)
(* and no row is ever removed.                                              *)
THEOREM CheckOutFinalHolds == ASSUME OneTab PROVE Spec => CheckOutFinal
<1> DEFINE Final == \A i \in DOMAIN attendance :
                      /\ i \in DOMAIN attendance'
                      /\ attendance[i].check_out # Open => attendance'[i] = attendance[i]
<1>1. IInv /\ [Next]_vars => [Final]_vars
  <2> SUFFICES ASSUME IInv, Next PROVE Final
    BY DEF vars
  <2>1. CASE attendance' = attendance
    BY <2>1
  <2>2. ASSUME NEW p \in Requester, CheckInInsert(p) PROVE Final
    <3> DEFINE r == [employee_id |-> p[1], work_date |-> today, check_out |-> Open]
    <3>1. r \in Row /\ attendance \in Seq(Row) /\ attendance' = Append(attendance, r)
      BY <2>2 DEF CheckInInsert, Row, IInv, TypeOK, Requester, Day
    <3> HIDE DEF r
    <3>2. QED
      BY <3>1, AppendRow
  <2>3. ASSUME NEW p \in Requester, CheckOutUpdate(p) PROVE Final
    BY <2>3 DEF CheckOutUpdate, IInv, UpdateReady, TypeOK
  <2>4. QED
    BY <2>1, <2>2, <2>3 DEF Next, Handler, Midnight, CheckInSelect, CheckOutSelect, RequestLost, Requester
<1>2. QED
  BY InitIInv, SafeStep, <1>1, PTL DEF Spec, CheckOutFinal

=============================================================================
