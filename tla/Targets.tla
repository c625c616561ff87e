-------------------------------- MODULE Targets --------------------------------
(***************************************************************************)
(* The handlers of routes/targets.ts.  The quota itself and the effective  *)
(* date are left out: a deletion may or may not be refused for its date.   *)
(***************************************************************************)
EXTENDS Recruiters

(* GET /targets: everything for an administrator, what belongs to one's    *)
(* clients or to one's recruiters for a sub-admin, one's own otherwise.    *)
ListedTargets(by) ==
  {p \in Pair : /\ target[p] # "none"
                /\ IF by \in Recruiter THEN p[1] = by
                   ELSE p[1] \in ScopedStaff(by) \/ p[2] \in ScopedClients(by)}

(* GET /targets/progress: the targets whose quota counts for today.        *)
LiveTargets(u) == {p \in Pair : p[1] = u /\ target[p] = "active"}

(* Mutant of TargetCheck: the recruiter's account is not looked at.        *)
TargetUnchecked(r, by, u, c, status) ==
  /\ Begin(r, [Idle EXCEPT !.step = "target", !.id = u, !.other = c,
                           !.status = status, !.row = account[u]])
  /\ Signed(by)
  /\ u \in ScopedStaff(by) \/ c \in ScopedClients(by)
  /\ Exists(u)
  /\ UNCHANGED <<tables, history>>

(* POST /targets: the scope and the recruiter are checked.                 *)
TargetCheck(r, by, u, c, status) ==
  /\ Begin(r, [Idle EXCEPT !.step = "target", !.id = u, !.other = c,
                           !.status = status, !.row = account[u]])
  /\ Signed(by)
  /\ u \in ScopedStaff(by) \/ c \in ScopedClients(by)
  /\ Exists(u)
  /\ status = "active" => account[u].active /\ account[u].status = "active"
  /\ UNCHANGED <<tables, history>>

TargetSelect(r) ==
  /\ request[r].step = "target"
  /\ Goto(r, IF target[<<request[r].id, request[r].other>>] = "none"
             THEN "target_insert" ELSE "target_update")
  /\ UNCHANGED <<tables, history>>

(* An active target is written, although its recruiter rests.              *)
Waking(u, status) == status = "active" /\ Rests(u)

(* The recruiter was fit when it was checked, and rests by now.            *)
Overtaken(r) ==
  LET q == request[r] IN
    IF q.row.active /\ q.row.status = "active" /\ Waking(q.id, q.status)
    THEN slipped \cup {<<"target", q.id>>} ELSE slipped

(* A row that is gone is not updated; the handler then fails on the answer.*)
TargetUpdate(r) ==
  LET p == <<request[r].id, request[r].other>> IN
  /\ request[r].step = "target_update"
  /\ target' = [target EXCEPT ![p] = IF @ = "none" THEN @ ELSE request[r].status]
  /\ slipped' = Overtaken(r)
  /\ Answer(r)
  /\ UNCHANGED <<account, client, employs, scope, session, portal, cut>>

(* The row must be new for the day, its recruiter and client must exist.   *)
TargetInsert(r) ==
  LET p == <<request[r].id, request[r].other>>
      fits == target[p] = "none" /\ Exists(p[1]) /\ Known(p[2]) IN
  /\ request[r].step = "target_insert"
  /\ \/ /\ fits
        /\ target' = [target EXCEPT ![p] = request[r].status]
        /\ slipped' = Overtaken(r)
        /\ Answer(r)
        /\ UNCHANGED <<account, client, employs, scope, session, portal, cut>>
     \/ ~fits /\ Abort(r)

(* POST /targets/:id/pause, /resume and /end: one statement, which looks   *)
(* at nothing else.                                                        *)
TargetSet(r, by, p, status) ==
  /\ request[r].step = "idle" /\ started < MaxRequest
  /\ Signed(by)
  /\ target[p] # "none"
  /\ target' = [target EXCEPT ![p] = status]
  /\ slipped' = IF Waking(p[1], status) THEN slipped \cup {<<"target", p[1]>>} ELSE slipped
  /\ started' = started + 1
  /\ UNCHANGED <<account, client, employs, scope, session, portal, request, cut>>

(* DELETE /targets/:id: the row is read for its date, then deleted.        *)
TargetDeleteSelect(r, by, p) ==
  /\ Begin(r, [Idle EXCEPT !.step = "untarget", !.id = p[1], !.other = p[2]])
  /\ Signed(by)
  /\ target[p] # "none"
  /\ UNCHANGED <<tables, history>>

TargetDelete(r) ==
  /\ request[r].step = "untarget"
  /\ target' = [target EXCEPT ![<<request[r].id, request[r].other>>] = "none"]
  /\ Answer(r)
  /\ UNCHANGED <<account, client, employs, scope, session, portal, history>>

TargetHandlers(r) ==
  \/ \E by \in Caller, p \in Pair :
       \/ \E status \in {"active", "paused", "ended"} :
            TargetCheck(r, by, p[1], p[2], status) \/ TargetSet(r, by, p, status)
       \/ TargetDeleteSelect(r, by, p)
  \/ TargetSelect(r) \/ TargetUpdate(r) \/ TargetInsert(r) \/ TargetDelete(r)

=============================================================================
