------------------------------- MODULE SubAdmins -------------------------------
(***************************************************************************)
(* The handlers of routes/subAdmins.ts, which only the administrator may   *)
(* call.                                                                   *)
(***************************************************************************)
EXTENDS Clients

(* What a sub-admin manages, as GET /sub-admins/:id/assignments shows it:  *)
(* assignments and managed_by.                                             *)
Assignments(s) == (ScopedStaff(s) \cap Staff) \cup ScopedClients(s)

(* What the list of sub-admins counts: active assignments of active        *)
(* accounts and clients, without managed_by.                               *)
CountedAssignments(s) ==
  {x \in Recruiter : <<s, x>> \in scope /\ Exists(x) /\ account[x].active}
    \cup {x \in Client : <<s, x>> \in scope /\ Known(x) /\ client[x].active}

-----------------------------------------------------------------------------
(* POST /sub-admins                                                        *)

AppointCheck(r, s, ids) ==
  /\ Begin(r, [Idle EXCEPT !.step = "appoint", !.id = s, !.want = ids])
  /\ ~Exists(s)
  /\ UNCHANGED <<tables, history>>

AppointInsert(r) ==
  LET s == request[r].id IN
  /\ request[r].step = "appoint"
  /\ \/ /\ ~Exists(s)
        /\ account' = [account EXCEPT ![s] = [status |-> "active", active |-> TRUE,
                                              manager |-> Admin]]
        /\ Goto(r, "entrust")
        /\ UNCHANGED <<client, employs, scope, target, session, portal, history>>
     \/ Exists(s) /\ Abort(r)

Present(x) == IF x \in Client THEN Known(x) ELSE Exists(x)

(* One INSERT into sub_admin_assignments; it has no unique constraint.     *)
Entrust(r, x) ==
  LET s == request[r].id IN
  /\ request[r].step = "entrust" /\ x \in request[r].want
  /\ \/ /\ Exists(s) /\ Present(x)
        /\ scope' = scope \cup {<<s, x>>}
        /\ Wrote(r, x)
        /\ UNCHANGED <<account, client, employs, target, session, portal, history>>
     \/ ~(Exists(s) /\ Present(x)) /\ Abort(r)

EntrustAnswer(r) ==
  /\ request[r].step = "entrust" /\ request[r].want = {}
  /\ Answer(r)
  /\ UNCHANGED <<tables, history>>

-----------------------------------------------------------------------------
(* PUT and POST /sub-admins/:id/assignments: DELETE, then the INSERTs.     *)

ReplaceCheck(r, s, ids) ==
  /\ Begin(r, [Idle EXCEPT !.step = "strip", !.id = s, !.want = ids])
  /\ Exists(s)
  /\ UNCHANGED <<tables, history>>

Strip(r) ==
  /\ request[r].step = "strip"
  /\ scope' = {p \in scope : p[1] # request[r].id}
  /\ Goto(r, "entrust")
  /\ UNCHANGED <<account, client, employs, target, session, portal, history>>

-----------------------------------------------------------------------------
(* PUT and PATCH /sub-admins/:id: the row is read, then written; status    *)
(* and is_active follow each other.  Employees stay with a sub-admin that  *)
(* is deactivated in this way.                                             *)

SubAdminRead(r, s, status, replace, ids) ==
  /\ Begin(r, [Idle EXCEPT !.step = "sub_profile", !.id = s,
                           !.row = account[s], !.status = status,
                           !.replace = replace, !.want = ids])
  /\ Exists(s)
  /\ UNCHANGED <<tables, history>>

SubAdminWrite(r) ==
  LET s == request[r].id
      q == request[r]
      status == IF q.status = "same" THEN q.row.status ELSE q.status
      active == IF q.status = "same" THEN q.row.active ELSE q.status = "active" IN
  /\ q.step = "sub_profile"
  /\ account' = [account EXCEPT ![s] = IF Exists(s)
                    THEN [@ EXCEPT !.status = status, !.active = active] ELSE @]
  /\ IF q.replace THEN Goto(r, "strip") ELSE Answer(r)
  /\ UNCHANGED <<client, employs, scope, target, session, portal, history>>

-----------------------------------------------------------------------------
(* POST /sub-admins/:id/deactivate and /activate                           *)

SubAdminSet(r, s, status) ==
  /\ Begin(r, [Idle EXCEPT !.step = "sub_set", !.id = s, !.status = status])
  /\ Exists(s)
  /\ UNCHANGED <<tables, history>>

SubAdminSwitch(r) ==
  LET s == request[r].id
      on == request[r].status = "active" IN
  /\ request[r].step = "sub_set"
  /\ account' = [account EXCEPT ![s] = IF Exists(s)
                    THEN [@ EXCEPT !.status = request[r].status, !.active = on] ELSE @]
  /\ IF on THEN Answer(r) ELSE Goto(r, "take_over")
  /\ UNCHANGED <<client, employs, scope, target, session, portal, history>>

(* managed_by of the users, not of the clients.                            *)
Managed(from, to) ==
  [u \in Staff |-> IF account[u].manager = from THEN [account[u] EXCEPT !.manager = to]
                   ELSE account[u]]

TakeOver(r) ==
  /\ request[r].step = "take_over"
  /\ account' = Managed(request[r].id, Admin)
  /\ Answer(r)
  /\ UNCHANGED <<client, employs, scope, target, session, portal, history>>

-----------------------------------------------------------------------------
(* DELETE /sub-admins/:id: with an heir the employees and assignments are  *)
(* handed over; with reassign_to_admin, or when there are none, the        *)
(* administrator takes the employees and the assignments go.               *)

RetireCheck(r, s, heir, forced) ==
  /\ Begin(r, [Idle EXCEPT !.step = "bequeath", !.id = s, !.other = heir])
  /\ Exists(s)
  /\ \/ heir # Nobody /\ Exists(heir)
     \/ heir = Nobody /\ (\/ forced
                          \/ /\ \A u \in Staff : account[u].manager # s
                             /\ \A x \in Id : <<s, x>> \notin scope)
  /\ UNCHANGED <<tables, history>>

(* Mutant of Bequeath: the employees are left to the foreign key.          *)
BequeathNothing(r) ==
  /\ request[r].step = "bequeath"
  /\ Goto(r, "hand_over")
  /\ UNCHANGED <<tables, history>>

(* The heir may be on its way out itself.                                  *)
Bequeath(r) ==
  LET s == request[r].id
      heir == request[r].other IN
  /\ request[r].step = "bequeath"
  /\ \/ /\ heir = Nobody \/ Exists(heir)
        /\ account' = Managed(s, IF heir = Nobody THEN Admin ELSE heir)
        /\ slipped' = IF Retiring(heir)
                      THEN slipped \cup {<<"manager", u>> :
                                           u \in {v \in Staff : account[v].manager = s}}
                      ELSE slipped
        /\ Goto(r, "hand_over")
        /\ UNCHANGED <<client, employs, scope, target, session, portal, cut>>
     \/ heir # Nobody /\ ~Exists(heir) /\ Abort(r)

(* Mutant of HandOver: the assignments of s go to nobody.                  *)
HandOverToNobody(r) ==
  LET s == request[r].id
      heir == request[r].other IN
  /\ request[r].step = "hand_over"
  /\ scope' = {p \in scope : p[1] # s} \cup {<<heir, p[2]>> : p \in {q \in scope : q[1] = s}}
  /\ Goto(r, "retire")
  /\ UNCHANGED <<account, client, employs, target, session, portal, history>>

HandOver(r) ==
  LET s == request[r].id
      heir == request[r].other IN
  /\ request[r].step = "hand_over"
  /\ \/ /\ heir = Nobody
        /\ scope' = {p \in scope : p[1] # s}
        /\ Goto(r, "retire")
        /\ UNCHANGED <<account, client, employs, target, session, portal, history>>
     \/ /\ heir # Nobody /\ Exists(heir)
        /\ scope' = {p \in scope : p[1] # s} \cup {<<heir, p[2]>> : p \in {q \in scope : q[1] = s}}
        /\ Goto(r, "retire")
        /\ UNCHANGED <<account, client, employs, target, session, portal, history>>
     \/ heir # Nobody /\ ~Exists(heir) /\ Abort(r)

(* The foreign keys: managed_by is set to NULL, assignments go.            *)
Retire(r) ==
  LET s == request[r].id IN
  /\ request[r].step = "retire"
  /\ account' = [Managed(s, Nobody) EXCEPT ![s] = NoRow]
  /\ client' = [c \in Client |-> IF client[c].manager = s
                                 THEN [client[c] EXCEPT !.manager = Nobody] ELSE client[c]]
  /\ scope' = {p \in scope : p[1] # s}
  /\ Answer(r)
  /\ UNCHANGED <<employs, target, session, portal, history>>

-----------------------------------------------------------------------------

SubAdminHandlers(r) ==
  \/ \E s \in SubAdmin :
       \/ \E ids \in SUBSET (Recruiter \cup Client) :
            \/ AppointCheck(r, s, ids) \/ ReplaceCheck(r, s, ids)
            \/ \E status \in StatusAsked : SubAdminRead(r, s, status, TRUE, ids)
       \/ \E status \in StatusAsked : SubAdminRead(r, s, status, FALSE, {})
       \/ \E status \in {"active", "inactive"} : SubAdminSet(r, s, status)
       \/ \E heir \in (SubAdmin \ {s}) \cup {Nobody}, forced \in BOOLEAN :
            RetireCheck(r, s, heir, forced)
  \/ AppointInsert(r) \/ EntrustAnswer(r) \/ Strip(r)
  \/ SubAdminWrite(r) \/ SubAdminSwitch(r) \/ TakeOver(r)
  \/ Bequeath(r) \/ HandOver(r) \/ Retire(r)
  \/ \E x \in Recruiter \cup Client : Entrust(r, x)

=============================================================================
