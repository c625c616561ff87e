------------------------------ MODULE Recruiters -------------------------------
(***************************************************************************)
(* The handlers of routes/employees.ts.                                    *)
(***************************************************************************)
EXTENDS Directory

(* The account rests: its targets are to be paused.                        *)
Rests(u) == account[u].status \in {"inactive", "archived"} \/ ~account[u].active

(* What GET /users shows to a caller, and GET /users/:id refuses otherwise.*)
ListedUsers(by, status) ==
  {u \in ScopedStaff(by) : Exists(u) /\ (status = "all" \/ account[u].status = status)}

(* GET /employees: the same of recruiters; without a filter no archived one*)
ListedEmployees(by, status) ==
  {u \in ScopedStaff(by) \cap Recruiter :
     /\ Exists(u)
     /\ \/ status = "all"
        \/ status = "" /\ account[u].status # "archived"
        \/ account[u].status = status}

(* The clients that enrichUsers adds to a user.                            *)
AssignedClients(u) == {c \in Client : Known(c) /\ employs[<<u, c>>] = "active"}

-----------------------------------------------------------------------------
(* POST /users.  A sub-admin creates recruiters only, and becomes their    *)
(* manager.                                                                *)

CreateCheck(r, by, u, status, clients) ==
  /\ Begin(r, [Idle EXCEPT !.step = "create", !.by = by, !.id = u, !.status = status,
                           !.want = clients])
  /\ Signed(by)
  /\ ~Exists(u)
  /\ UNCHANGED <<tables, history>>

(* users.email is unique: of two creations the second throws.  managed_by  *)
(* must exist; a caller that is being retired has handed over already.     *)
CreateInsert(r) ==
  LET u == request[r].id
      by == request[r].by
      fits == ~Exists(u) /\ (by \in SubAdmin => Exists(by)) IN
  /\ request[r].step = "create"
  /\ \/ /\ fits
        /\ account' = [account EXCEPT ![u] =
             [status |-> request[r].status, active |-> TRUE,
              manager |-> IF by \in SubAdmin THEN by ELSE Nobody]]
        /\ slipped' = IF Retiring(by) THEN slipped \cup {<<"manager", u>>} ELSE slipped
        /\ Goto(r, IF by \in SubAdmin THEN "enroll" ELSE "hire")
        /\ UNCHANGED <<client, employs, scope, target, session, portal, cut>>
     \/ ~fits /\ Abort(r)

(* The new recruiter joins the scope of the sub-admin who created it.      *)
CreateEnroll(r) ==
  LET u == request[r].id
      by == request[r].by IN
  /\ request[r].step = "enroll"
  /\ \/ /\ Exists(u) /\ Exists(by)
        /\ scope' = scope \cup {<<by, u>>}
        /\ Goto(r, "hire")
        /\ UNCHANGED <<account, client, employs, target, session, portal, history>>
     \/ ~(Exists(u) /\ Exists(by)) /\ Abort(r)

(* INSERT ... ON CONFLICT DO NOTHING into employee_clients, one by one.    *)
CreateHire(r, c) ==
  LET u == request[r].id IN
  /\ request[r].step = "hire" /\ c \in request[r].want
  /\ \/ /\ Exists(u) /\ Known(c)
        /\ employs' = [employs EXCEPT ![<<u, c>>] = IF @ = "none" THEN "active" ELSE @]
        /\ Wrote(r, c)
        /\ UNCHANGED <<account, client, scope, target, session, portal, history>>
     \/ ~(Exists(u) /\ Known(c)) /\ Abort(r)

CreateAnswer(r) ==
  /\ request[r].step = "hire" /\ request[r].want = {}
  /\ Answer(r)
  /\ UNCHANGED <<tables, history>>

-----------------------------------------------------------------------------
(* PUT and PATCH /users/:id: the whole row is read, merged with the body   *)
(* and written back.                                                       *)

UpdateRead(r, by, u, status, active, replace, clients) ==
  /\ Begin(r, [Idle EXCEPT !.step = "update", !.id = u, !.status = status,
                           !.active = active, !.row = account[u],
                           !.replace = replace, !.want = clients,
                           !.then = IF replace THEN "dismiss" ELSE "idle"])
  /\ Signed(by) /\ u \in ScopedStaff(by) /\ Exists(u)
  /\ UNCHANGED <<tables, history>>

Merged(r) ==
  LET q == request[r] IN
    [q.row EXCEPT !.status = IF q.status = "same" THEN @ ELSE q.status,
                  !.active = IF q.active = "same" THEN @ ELSE q.active = "yes"]

(* managed_by is not written.  A row that is gone is not missed before the *)
(* end of the handler.                                                     *)
UpdateWrite(r) ==
  LET u == request[r].id
      new == Merged(r) IN
  /\ request[r].step = "update"
  /\ \/ /\ Exists(u)
        /\ account' = [account EXCEPT ![u].status = new.status, ![u].active = new.active]
        /\ Goto(r, IF new.status \in {"inactive", "archived"} \/ ~new.active
                   THEN "pause" ELSE "resume")
        /\ UNCHANGED <<client, employs, scope, target, session, portal, history>>
     \/ ~Exists(u) /\ Abort(r)

(* UPDATE employee_clients SET active = false, of all rows of the user.    *)
(* Nobody is told to leave a room here.                                    *)
Dismiss(r) ==
  LET u == request[r].id IN
  /\ request[r].step = "dismiss"
  /\ employs' = [p \in Pair |-> IF p[1] = u /\ employs[p] = "active" THEN "inactive"
                                ELSE employs[p]]
  /\ slipped' = slipped \cup {<<"session", u, c>> : c \in {d \in Client \ request[r].want :
                                                              <<u, d>> \in session}}
  /\ Goto(r, "rehire")
  /\ UNCHANGED <<account, client, scope, target, session, portal, cut>>

Rehire(r, c) ==
  LET u == request[r].id IN
  /\ request[r].step = "rehire" /\ c \in request[r].want
  /\ \/ /\ Exists(u) /\ Known(c)
        /\ employs' = [employs EXCEPT ![<<u, c>>] = "active"]
        /\ Wrote(r, c)
        /\ UNCHANGED <<account, client, scope, target, session, portal, history>>
     \/ ~(Exists(u) /\ Known(c)) /\ Abort(r)

RehireAnswer(r) ==
  /\ request[r].step = "rehire" /\ request[r].want = {}
  /\ Answer(r)
  /\ UNCHANGED <<tables, history>>

-----------------------------------------------------------------------------
(* POST /users/:id/activate, /deactivate and /archive: the first statement *)
(* writes, the second lets the targets follow.                             *)

(* Mutant of SetStatus: an archived recruiter keeps its targets.           *)
SetStatusArchived(r, by, u, status) ==
  /\ Begin(r, [Idle EXCEPT !.step = IF status = "active" THEN "resume"
                                    ELSE IF status = "archived" THEN "evict" ELSE "pause",
                           !.id = u, !.status = status])
  /\ Signed(by) /\ u \in ScopedStaff(by) /\ Exists(u)
  /\ account' = [account EXCEPT ![u].status = status, ![u].active = (status = "active")]
  /\ UNCHANGED <<client, employs, scope, target, session, portal, history>>

SetStatus(r, by, u, status) ==
  /\ Begin(r, [Idle EXCEPT !.step = IF status = "active" THEN "resume" ELSE "pause",
                           !.id = u, !.status = status])
  /\ Signed(by) /\ u \in ScopedStaff(by) /\ Exists(u)
  /\ account' = [account EXCEPT ![u].status = status, ![u].active = (status = "active")]
  /\ UNCHANGED <<client, employs, scope, target, session, portal, history>>

Switched(u, from, to) ==
  [p \in Pair |-> IF p[1] = u /\ target[p] = from THEN to ELSE target[p]]

Pause(r) ==
  LET u == request[r].id IN
  /\ request[r].step = "pause"
  /\ target' = Switched(u, "active", "paused")
  /\ slipped' = slipped \ {<<"target", u>>}
  /\ Goto(r, "evict")
  /\ UNCHANGED <<account, client, employs, scope, session, portal, cut>>

(* All paused targets of the user, whoever paused them.  When the account  *)
(* was deactivated meanwhile they are active all the same.                 *)
Resume(r) ==
  LET u == request[r].id IN
  /\ request[r].step = "resume"
  /\ target' = Switched(u, "paused", "active")
  /\ slipped' = IF Rests(u) THEN slipped \cup {<<"target", u>>} ELSE slipped
  /\ IF request[r].replace THEN Goto(r, "dismiss") ELSE Answer(r)
  /\ UNCHANGED <<account, client, employs, scope, session, portal, cut>>

-----------------------------------------------------------------------------
(* evictUserFromChatRooms: the rooms of all assignments, active or not,    *)
(* then one call of a Durable Object after the other.                      *)

Rooms(u) == {c \in Client : employs[<<u, c>>] # "none" /\ client[c].room # "none"}

(* A room whose assignment is being replaced at the moment is not found.   *)
EvictSelect(r) ==
  LET u == request[r].id IN
  /\ request[r].step = "evict"
  /\ request' = [request EXCEPT ![r].step = "evicting", ![r].todo = Rooms(u)]
  /\ slipped' = slipped \cup {<<"session", u, c>> : c \in {d \in Client \ Rooms(u) :
                                                              <<u, d>> \in session}}
  /\ UNCHANGED <<tables, started, cut>>

(* Mutant of EvictRoom: the call names nobody who was removed.             *)
EvictRoomUnnamed(r, c) ==
  /\ request[r].step = "evicting" /\ c \in request[r].todo
  /\ request' = [request EXCEPT ![r].todo = @ \ {c}]
  /\ UNCHANGED <<tables, started, history>>

(* A call that fails is swallowed.                                         *)
EvictRoom(r, c) ==
  LET u == request[r].id IN
  /\ request[r].step = "evicting" /\ c \in request[r].todo
  /\ request' = [request EXCEPT ![r].todo = @ \ {c}]
  /\ \/ session' = session \ {<<u, c>>} /\ slipped' = slipped \ {<<"session", u, c>>}
     \/ /\ "object" \in Fault
        /\ slipped' = IF <<u, c>> \in session THEN slipped \cup {<<"session", u, c>>} ELSE slipped
        /\ UNCHANGED session
  /\ UNCHANGED <<account, client, employs, scope, target, portal, started, cut>>

Evicted(r) ==
  /\ request[r].step = "evicting" /\ request[r].todo = {}
  /\ IF request[r].then = "idle" THEN Answer(r) ELSE Goto(r, request[r].then)
  /\ UNCHANGED <<tables, history>>

-----------------------------------------------------------------------------
(* DELETE /users/:id of a recruiter without targets (and without rows in   *)
(* the tables that other modules have).                                    *)

DismissalCheck(r, u) ==
  /\ Begin(r, [Idle EXCEPT !.step = "evict", !.id = u, !.then = "unlink"])
  /\ Exists(u) /\ u \in Recruiter
  /\ \A c \in Client : target[<<u, c>>] = "none"
  /\ UNCHANGED <<tables, history>>

(* The account is still active: whoever came back to a room after the      *)
(* eviction stays in it.                                                   *)
Unlink(r) ==
  LET u == request[r].id IN
  /\ request[r].step = "unlink"
  /\ employs' = [p \in Pair |-> IF p[1] = u THEN "none" ELSE employs[p]]
  /\ slipped' = slipped \cup {<<"session", u, c>> : c \in {d \in Client : <<u, d>> \in session}}
  /\ Goto(r, "unscope")
  /\ UNCHANGED <<account, client, scope, target, session, portal, cut>>

Unscope(r) ==
  /\ request[r].step = "unscope"
  /\ scope' = {s \in scope : s[2] # request[r].id}
  /\ Goto(r, "remove")
  /\ UNCHANGED <<account, client, employs, target, session, portal, history>>

(* The foreign keys cascade to whatever came since, targets included.      *)
Remove(r) ==
  LET u == request[r].id IN
  /\ request[r].step = "remove"
  /\ account' = [account EXCEPT ![u] = NoRow]
  /\ employs' = [p \in Pair |-> IF p[1] = u THEN "none" ELSE employs[p]]
  /\ target' = [p \in Pair |-> IF p[1] = u THEN "none" ELSE target[p]]
  /\ scope' = {s \in scope : s[2] # u}
  /\ slipped' = slipped \cup {<<"session", u, c>> : c \in {d \in Client : <<u, d>> \in session}}
  /\ Answer(r)
  /\ UNCHANGED <<client, session, portal, cut>>

-----------------------------------------------------------------------------

RecruiterHandlers(r) ==
  \/ \E by \in Caller, u \in Recruiter :
       \/ \E status \in Life, clients \in SUBSET Client :
            CreateCheck(r, by, u, status, clients)
       \/ \E status \in StatusAsked, active \in ActiveAsked :
            \/ UpdateRead(r, by, u, status, active, FALSE, {})
            \/ \E clients \in SUBSET Client : UpdateRead(r, by, u, status, active, TRUE, clients)
       \/ \E status \in Life : SetStatus(r, by, u, status)
  \/ CreateInsert(r) \/ CreateEnroll(r) \/ CreateAnswer(r)
  \/ UpdateWrite(r) \/ Dismiss(r) \/ RehireAnswer(r)
  \/ Pause(r) \/ Resume(r)
  \/ EvictSelect(r) \/ Evicted(r)
  \/ \E c \in Client : CreateHire(r, c) \/ Rehire(r, c) \/ EvictRoom(r, c)
  \/ \E u \in Recruiter : DismissalCheck(r, u)
  \/ Unlink(r) \/ Unscope(r) \/ Remove(r)

=============================================================================
