-------------------------------- MODULE Clients --------------------------------
(***************************************************************************)
(* The handlers of routes/clients.ts, and those of routes/chat.ts that     *)
(* write chat_rooms.                                                       *)
(***************************************************************************)
EXTENDS Targets

(* GET /clients: without a filter everything but archived clients.         *)
ListedClients(by, status) ==
  {c \in ScopedClients(by) :
     /\ Known(c)
     /\ \/ status = "all"
        \/ status = "" /\ client[c].status # "archived"
        \/ client[c].status = status}

(* The recruiters that fetchClientDetails adds to a client.                *)
AssignedStaff(c) ==
  {u \in Recruiter : Exists(u) /\ account[u].active /\ employs[<<u, c>>] = "active"}

-----------------------------------------------------------------------------
(* POST /clients: client and room are inserted in one transaction.         *)

ClientCreateCheck(r, by, c) ==
  /\ Begin(r, [Idle EXCEPT !.step = "client", !.by = by, !.id = c])
  /\ Signed(by)
  /\ ~Known(c)
  /\ UNCHANGED <<tables, history>>

(* Mutant of ClientInsert: the client without its room.                    *)
ClientInsertAlone(r) ==
  LET c == request[r].id
      by == request[r].by IN
  /\ request[r].step = "client"
  /\ ~Known(c)
  /\ client' = [client EXCEPT ![c] =
       [status |-> "active", active |-> TRUE, room |-> "none",
        manager |-> IF by \in SubAdmin THEN by ELSE Nobody]]
  /\ IF by \in SubAdmin THEN Goto(r, "enlist") ELSE Answer(r)
  /\ UNCHANGED <<account, employs, scope, target, session, portal, history>>

ClientInsert(r) ==
  LET c == request[r].id
      by == request[r].by IN
  /\ request[r].step = "client"
  /\ \/ /\ ~Known(c)
        /\ client' = [client EXCEPT ![c] =
             [status |-> "active", active |-> TRUE, room |-> "active",
              manager |-> IF by \in SubAdmin THEN by ELSE Nobody]]
        /\ IF by \in SubAdmin THEN Goto(r, "enlist") ELSE Answer(r)
        /\ UNCHANGED <<account, employs, scope, target, session, portal, history>>
     \/ Known(c) /\ Abort(r)

ClientEnlist(r) ==
  LET c == request[r].id
      by == request[r].by IN
  /\ request[r].step = "enlist"
  /\ \/ /\ Known(c) /\ Exists(by)
        /\ scope' = scope \cup {<<by, c>>}
        /\ Answer(r)
        /\ UNCHANGED <<account, client, employs, target, session, portal, history>>
     \/ ~(Known(c) /\ Exists(by)) /\ Abort(r)

-----------------------------------------------------------------------------
(* PUT and PATCH /clients/:id: again the whole row, and then the           *)
(* assignments: the old ones are read, deleted, and the new ones inserted. *)

ClientRead(r, by, c, status, active, replace, staff) ==
  /\ Begin(r, [Idle EXCEPT !.step = "profile", !.id = c,
                           !.status = status, !.active = active,
                           !.row = [status |-> client[c].status, active |-> client[c].active,
                                    manager |-> client[c].manager],
                           !.replace = replace, !.given = staff, !.want = staff])
  /\ Signed(by) /\ c \in ScopedClients(by) /\ Known(c)
  /\ UNCHANGED <<tables, history>>

(* The room is not written: an inactive client may be left with a room     *)
(* that takes messages.                                                    *)
ClientWrite(r) ==
  LET c == request[r].id
      new == Merged(r) IN
  /\ request[r].step = "profile"
  /\ \/ /\ Known(c)
        /\ client' = [client EXCEPT ![c].status = new.status, ![c].active = new.active]
        /\ slipped' = IF new.status = "inactive" /\ client[c].room = "active"
                      THEN slipped \cup {<<"room", c>>} ELSE slipped
        /\ IF request[r].replace THEN Goto(r, "old") ELSE Answer(r)
        /\ UNCHANGED <<account, employs, scope, target, session, portal, cut>>
     \/ ~Known(c) /\ Abort(r)

OldSelect(r) ==
  LET c == request[r].id IN
  /\ request[r].step = "old"
  /\ request' = [request EXCEPT ![r].step = "delete_all",
                                ![r].old = {u \in Recruiter : employs[<<u, c>>] = "active"}]
  /\ UNCHANGED <<tables, started, history>>

(* Nobody will tell those to leave who were assigned since the SELECT.     *)
DeleteAll(r) ==
  LET c == request[r].id IN
  /\ request[r].step = "delete_all"
  /\ employs' = [p \in Pair |-> IF p[2] = c THEN "none" ELSE employs[p]]
  /\ slipped' = slipped \cup {<<"session", u, c>> :
                    u \in {v \in Recruiter \ (request[r].old \cup request[r].given) :
                             <<v, c>> \in session}}
  /\ Goto(r, "insert")
  /\ UNCHANGED <<account, client, scope, target, session, portal, cut>>

(* Without ON CONFLICT: a row that another handler inserted meanwhile ends *)
(* the loop.                                                               *)
InsertOne(r, u) ==
  LET c == request[r].id
      fits == employs[<<u, c>>] = "none" /\ Exists(u) /\ Known(c) IN
  /\ request[r].step = "insert" /\ u \in request[r].want
  /\ \/ /\ fits
        /\ employs' = [employs EXCEPT ![<<u, c>>] = "active"]
        /\ Wrote(r, u)
        /\ UNCHANGED <<account, client, scope, target, session, portal, history>>
     \/ ~fits /\ Abort(r)

(* notifyRoomMembersUpdated, of a client that has a room: the sockets of   *)
(* the removed are closed.  A call that fails is only logged.              *)
Tell(r, c, removed) ==
  LET pairs == {<<u, c>> : u \in removed}
      marks == {<<"session", u, c>> : u \in removed} IN
  /\ \/ client[c].room # "none" /\ session' = session \ pairs /\ slipped' = slipped \ marks
     \/ /\ client[c].room = "none" \/ "object" \in Fault
        /\ slipped' = slipped \cup {m \in marks : <<m[2], m[3]>> \in session}
        /\ UNCHANGED session
  /\ Answer(r)
  /\ UNCHANGED <<account, client, employs, scope, target, portal, cut>>

(* Mutant of InsertTell: those who lost the client are not told.           *)
InsertTellAdded(r) ==
  /\ request[r].step = "insert" /\ request[r].want = {}
  /\ Tell(r, request[r].id, {})

InsertTell(r) ==
  /\ request[r].step = "insert" /\ request[r].want = {}
  /\ Tell(r, request[r].id, request[r].old \ request[r].given)

-----------------------------------------------------------------------------
(* POST /clients/:id/activate, /deactivate and /archive                    *)

ClientSet(r, by, c, status) ==
  /\ Begin(r, [Idle EXCEPT !.step = IF status = "archived" THEN "log" ELSE "room",
                           !.id = c, !.status = status])
  /\ Signed(by) /\ c \in ScopedClients(by) /\ Known(c)
  /\ client' = [client EXCEPT ![c].status = status, ![c].active = (status = "active")]
  /\ UNCHANGED <<account, employs, scope, target, session, portal, history>>

(* Mutant of RoomSet: a deactivation locks nothing.                        *)
RoomSetActive(r) ==
  LET c == request[r].id IN
  /\ request[r].step = "room"
  /\ client' = [client EXCEPT ![c].room = IF @ = "none" THEN @ ELSE "active"]
  /\ Answer(r)
  /\ UNCHANGED <<account, employs, scope, target, session, portal, history>>

(* The room opens or is locked, whatever the client is by now.             *)
RoomSet(r) ==
  LET c == request[r].id
      room == IF request[r].status = "active" THEN "active" ELSE "read_only" IN
  /\ request[r].step = "room"
  /\ client' = [client EXCEPT ![c].room = IF @ = "none" THEN @ ELSE room]
  /\ slipped' = IF room = "active" /\ client[c].status = "inactive"
                THEN slipped \cup {<<"room", c>>}
                ELSE IF room = "read_only" THEN slipped \ {<<"room", c>>} ELSE slipped
  /\ Answer(r)
  /\ UNCHANGED <<account, employs, scope, target, session, portal, cut>>

SetAnswer(r) ==
  /\ request[r].step = "log"
  /\ Answer(r)
  /\ UNCHANGED <<tables, history>>

(* POST /chat/rooms/:id/lock, /unlock and /archive: one statement, which   *)
(* looks at the room's members but not at the status of its client.        *)
RoomSwitch(by, c, room) ==
  /\ started < MaxRequest
  /\ Signed(by) /\ c \in ScopedClients(by)
  /\ Known(c) /\ client[c].room # "none"
  /\ client' = [client EXCEPT ![c].room = room]
  /\ slipped' = IF room = "active" /\ client[c].status = "inactive"
                THEN slipped \cup {<<"room", c>>} ELSE slipped
  /\ started' = started + 1
  /\ UNCHANGED <<account, employs, scope, target, session, portal, request, cut>>

(* POST /chat/sync-workspaces makes the rooms that are missing.            *)
SyncWorkspace(c) ==
  /\ started < MaxRequest
  /\ Known(c) /\ client[c].room = "none"
  /\ client' = [client EXCEPT ![c].room = "active"]
  /\ slipped' = IF client[c].status = "inactive" THEN slipped \cup {<<"room", c>>} ELSE slipped
  /\ started' = started + 1
  /\ UNCHANGED <<account, employs, scope, target, session, portal, request, cut>>

-----------------------------------------------------------------------------
(* DELETE /clients/:id of a client without targets (and without rows in    *)
(* the tables that other modules have).                                    *)

ClientDeleteCheck(r, c) ==
  /\ Begin(r, [Idle EXCEPT !.step = "no_room", !.id = c])
  /\ Known(c)
  /\ \A u \in Recruiter : target[<<u, c>>] = "none"
  /\ UNCHANGED <<tables, history>>

(* The sockets of the room stay, and so do those of a room that            *)
(* sync-workspaces makes again before its client goes.                     *)
Stranded(c) == {<<"session", u, c>> : u \in {v \in Recruiter : <<v, c>> \in session}}

DeleteRoom(r) ==
  LET c == request[r].id IN
  /\ request[r].step = "no_room"
  /\ client' = [client EXCEPT ![c].room = "none"]
  /\ slipped' = slipped \cup Stranded(c)
  /\ Goto(r, "no_staff")
  /\ UNCHANGED <<account, employs, scope, target, session, portal, cut>>

DeleteStaff(r) ==
  LET c == request[r].id IN
  /\ request[r].step = "no_staff"
  /\ employs' = [p \in Pair |-> IF p[2] = c THEN "none" ELSE employs[p]]
  /\ slipped' = slipped \cup Stranded(c)
  /\ Goto(r, "no_scope")
  /\ UNCHANGED <<account, client, scope, target, session, portal, cut>>

DeleteScope(r) ==
  /\ request[r].step = "no_scope"
  /\ scope' = {s \in scope : s[2] # request[r].id}
  /\ Goto(r, "no_client")
  /\ UNCHANGED <<account, client, employs, target, session, portal, history>>

(* The foreign keys cascade, but an opening that came since restricts: the *)
(* statement throws, and the client is left without a room.                *)
DeleteClient(r) ==
  LET c == request[r].id IN
  /\ request[r].step = "no_client"
  /\ \/ /\ client' = [client EXCEPT ![c] = NoClient]
        /\ employs' = [p \in Pair |-> IF p[2] = c THEN "none" ELSE employs[p]]
        /\ target' = [p \in Pair |-> IF p[2] = c THEN "none" ELSE target[p]]
        /\ scope' = {s \in scope : s[2] # c}
        /\ portal' = portal \ {c}
        /\ slipped' = slipped \cup Stranded(c)
        /\ Answer(r)
        /\ UNCHANGED <<account, session, cut>>
     \/ "opening" \in Fault /\ Abort(r)

-----------------------------------------------------------------------------
(* POST /clients/:id/assign, DELETE /clients/:id/employees/:id             *)

AssignCheck(r, by, c, staff) ==
  /\ Begin(r, [Idle EXCEPT !.step = "upsert", !.id = c, !.want = staff])
  /\ Signed(by) /\ c \in ScopedClients(by) /\ Known(c)
  /\ UNCHANGED <<tables, history>>

(* INSERT ... ON CONFLICT DO UPDATE SET active = true.                     *)
AssignUpsert(r, u) ==
  LET c == request[r].id IN
  /\ request[r].step = "upsert" /\ u \in request[r].want
  /\ \/ /\ Exists(u) /\ Known(c)
        /\ employs' = [employs EXCEPT ![<<u, c>>] = "active"]
        /\ Wrote(r, u)
        /\ UNCHANGED <<account, client, scope, target, session, portal, history>>
     \/ ~(Exists(u) /\ Known(c)) /\ Abort(r)

AssignTell(r) ==
  /\ request[r].step = "upsert" /\ request[r].want = {}
  /\ Tell(r, request[r].id, {})

Unassign(r, by, u, c) ==
  /\ Begin(r, [Idle EXCEPT !.step = "leave", !.id = c, !.other = u])
  /\ Signed(by) /\ c \in ScopedClients(by)
  /\ employs' = [employs EXCEPT ![<<u, c>>] = IF @ = "active" THEN "inactive" ELSE @]
  /\ UNCHANGED <<account, client, scope, target, session, portal, history>>

UnassignTell(r) ==
  /\ request[r].step = "leave"
  /\ Tell(r, request[r].id, {request[r].other})

-----------------------------------------------------------------------------
(* POST /clients/:id/reset-password: the users of role client are given    *)
(* the password and made active; without one, one is inserted.             *)

PasswordCheck(r, by, c) ==
  /\ Begin(r, [Idle EXCEPT !.step = "password", !.id = c])
  /\ Signed(by) /\ c \in ScopedClients(by) /\ Known(c)
  /\ UNCHANGED <<tables, history>>

PasswordWrite(r) ==
  LET c == request[r].id IN
  /\ request[r].step = "password"
  /\ portal' = IF Known(c) THEN portal \cup {c} ELSE portal
  /\ Answer(r)
  /\ UNCHANGED <<account, client, employs, scope, target, session, history>>

-----------------------------------------------------------------------------
(* A recruiter enters the room of a client: GET /chat/rooms/:id/ws.        *)
Enter(u, c) ==
  /\ Member(u, c)
  /\ session' = session \cup {<<u, c>>}
  /\ UNCHANGED <<account, client, employs, scope, target, portal, control, history>>

(* The socket closes: its client went away.                                *)
Exit(u, c) ==
  /\ <<u, c>> \in session
  /\ session' = session \ {<<u, c>>}
  /\ slipped' = slipped \ {<<"session", u, c>>}
  /\ UNCHANGED <<account, client, employs, scope, target, portal, control, cut>>

ClientHandlers(r) ==
  \/ \E by \in Caller, c \in Client :
       \/ ClientCreateCheck(r, by, c) \/ PasswordCheck(r, by, c)
       \/ \E status \in Life : ClientSet(r, by, c, status)
       \/ \E status \in StatusAsked, active \in ActiveAsked :
            \/ ClientRead(r, by, c, status, active, FALSE, {})
            \/ \E staff \in SUBSET Recruiter : ClientRead(r, by, c, status, active, TRUE, staff)
       \/ \E staff \in SUBSET Recruiter : AssignCheck(r, by, c, staff)
       \/ \E u \in Recruiter : Unassign(r, by, u, c)
  \/ ClientInsert(r) \/ ClientEnlist(r)
  \/ ClientWrite(r) \/ OldSelect(r) \/ DeleteAll(r) \/ InsertTell(r)
  \/ RoomSet(r) \/ SetAnswer(r)
  \/ DeleteRoom(r) \/ DeleteStaff(r) \/ DeleteScope(r) \/ DeleteClient(r)
  \/ AssignTell(r) \/ UnassignTell(r) \/ PasswordWrite(r)
  \/ \E u \in Recruiter : InsertOne(r, u) \/ AssignUpsert(r, u)
  \/ \E c \in Client : ClientDeleteCheck(r, c)

=============================================================================
